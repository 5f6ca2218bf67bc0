----------------------------- MODULE MCServices -----------------------------
(* The components that work on documents of their own, side by side: a run
   takes one part and stays in it, so every part is checked as if alone.  The
   registers hold the variables of the part that is taken.                   *)
EXTENDS Integers, TLC

CONSTANTS Parts,   \* the parts this run takes
          None, j1, j2, l1, u1, r3,
          r1, r2   \* two of a kind: requests, or applications of one role

VARIABLES part, v1, v2, v3, v4, v5, v6, v7, v8, v9, v10, v11, v12, v13, v14, v15

registers == <<v1, v2, v3, v4, v5, v6, v7, v8, v9, v10, v11, v12, v13, v14, v15>>

(* The registers a part leaves alone: those from its number of variables on. *)
From13 == <<v13, v14, v15>>
From10 == <<v10, v11, v12, From13>>
From9 == <<v9, From10>>
From7 == <<v7, v8, From9>>
From6 == <<v6, From7>>
From5 == <<v5, From6>>
Free13 == v13 = 0 /\ v14 = 0 /\ v15 = 0
Free10 == v10 = 0 /\ v11 = 0 /\ v12 = 0 /\ Free13
Free9 == v9 = 0 /\ Free10
Free7 == v7 = 0 /\ v8 = 0 /\ Free9
Free6 == v6 = 0 /\ Free7
Free5 == v5 = 0 /\ Free6

-----------------------------------------------------------------------------
(* A job of two openings and its three candidates, one request at a time.    *)
Role == INSTANCE JobCapacity WITH
    Requests <- {"q"}, Candidates <- {r1, r2, r3}, MaxOpenings <- 2, MaxTerms <- 2, Kinds <- {"move", "edit", "publish", "delete"},
    Failures <- FALSE, job <- v1, cand <- v2, req <- v3, term <- v4, announced <- v5

(* Sign-in, applying, what a candidate reads and keeps.                      *)

Session == INSTANCE Accounts WITH
    Workers <- {"w1", "w2"}, Families <- {"f1"}, MaxTokens <- 4, MaxLinks <- 2, MaxAttempts <- 2, MaxSends <- 2,
    tokens <- v1, user <- v2, sent <- v3, otp <- v4, request <- v5

Applying == INSTANCE Applications WITH
    Jobs <- {j1}, Requests <- {r1, r2}, Nothing <- None, Legacy <- {l1}, Uploads <- {u1}, MaxActive <- 1, MaxApplies <- 2,
    stored <- v1, resumes <- v2, versions <- v3, apps <- v4, req <- v5, sent <- v6, rows <- v7, purge <- v8

Form == INSTANCE Autofill WITH
    Facts <- 1 .. 3, Identity <- <<"a", "a", "b">>, Hostile <- {3}, NoPayload <- None, MaxUpgrades <- 1, MaxOutages <- 1,
    text <- v1, library <- v2, version <- v3, pipeline <- v4, model <- v5, outages <- v6, told <- v7, screen <- v8, application <- v9

(* The sweep of the nights ranks a job that asks for a skill the candidate has
   and one that asks for another.                                            *)
Profile == INSTANCE CandidateProfile WITH
    Jobs <- {j1, j2}, Skills <- {"js"}, Required <- (j1 :> {"js"}) @@ (j2 :> {"go"}), Says <- (j1 :> {}) @@ (j2 :> {}),
    Requests <- {r1, r2}, Sweeps <- {"s1"}, Limit <- 1, MaxOps <- 3,
    profile <- v1, archived <- v2, published <- v3, applied <- v4, request <- v5, sweep <- v6, kept <- v7, sinceOff <- v8, ops <- v9

Dashboard == INSTANCE NextActions WITH
    MaxTime <- 4, Validity <- 3, StartWindow <- 1, now <- v1, application <- v2, assessment <- v3, interview <- v4

-----------------------------------------------------------------------------
(* What a job's assessment is made of.                                       *)

Versions == INSTANCE Approvals WITH
    Kinds <- {"rubric", "questions", "persona", "paper"}, Overlapping <- {"questions", "persona"}, Requests <- {r1, r2},
    Sources <- {"s1"}, NoSource <- None, MaxDocs <- 2, MaxEdits <- 1, MaxItems <- 2, Served <- 1,
    kind <- v1, job <- v2, docs <- v3, req <- v4

Rubric == INSTANCE Rubrics WITH
    Labels <- {"x", "y", "z"}, Skills <- {"x"}, Unit <- 100, MaxMust <- 2, MaxEdits <- 1,
    status <- v1, importance <- v2, weight <- v3, thresholds <- v4, flags <- v5, edits <- v6

-----------------------------------------------------------------------------
(* What every other component calls.                                         *)

Model == INSTANCE Gateway WITH
    Calls <- 1 .. 3, Ensemble <- <<1, 1, 3>>, Answers <- {"a", "b"}, NoAnswer <- None, MaxRetries <- 1, Threshold <- 2,
    Budget <- 2, MaxDry <- 1, MaxDown <- 1, MaxRounds <- 2,
    provider <- v1, breaker <- v2, credits <- v3, cache <- v4, calls <- v5, meter <- v6

Post == INSTANCE Mail WITH
    Sweeps <- {"s1", "s2"}, QueueTries <- 3, InlineTries <- 2, MaxMails <- 2, MaxFaults <- 2,
    queued <- v1, flag <- v2, sweep <- v3, log <- v4, job <- v5, copies <- v6, owned <- v7, alerts <- v8,
    claims <- v9, giveBacks <- v10, faults <- v11, crashes <- v12

Bell == INSTANCE Inbox WITH
    Notes <- {"n1", "n2"}, Workers <- {"w1", "w2"}, NoCache <- None, MaxFaults <- 1,
    pref <- v1, note <- v2, cache <- v3, worker <- v4, overlapped <- v5, faults <- v6

Site == INSTANCE Careers WITH
    Processes <- {"p1", "p2"}, NoPage <- None, Ttl <- 2, MaxTime <- 5, MaxChanges <- 1, MaxReads <- 2,
    now <- v1, revision <- v2, published <- v3, applied <- v4, version <- v5, bumps <- v6, up <- v7, redis <- v8,
    local <- v9, pending <- v10, req <- v11, list <- v12, detail <- v13, shown <- v14, reads <- v15

-----------------------------------------------------------------------------
Init ==
    /\ part \in Parts
    /\ \/ part = "role" /\ Role!Init /\ Free6
       \/ part = "accounts" /\ Session!Init /\ Free6
       \/ part = "applications" /\ Applying!Init /\ Free9
       \/ part = "autofill" /\ Form!Init /\ Free10
       \/ part = "profile" /\ Profile!Init /\ Free10
       \/ part = "dashboard" /\ Dashboard!Init /\ Free5
       \/ part = "approvals" /\ Versions!Init /\ Free5
       \/ part = "rubrics" /\ Rubric!Init /\ Free7
       \/ part = "gateway" /\ Model!Init /\ Free7
       \/ part = "mail" /\ Post!Init /\ Free13
       \/ part = "inbox" /\ Bell!Init /\ Free7
       \/ part = "careers" /\ Site!Init

Next ==
    /\ UNCHANGED part
    /\ \/ part = "role" /\ Role!Next /\ UNCHANGED From6
       \/ part = "accounts" /\ Session!Next /\ UNCHANGED From6
       \/ part = "applications" /\ Applying!Next /\ UNCHANGED From9
       \/ part = "autofill" /\ Form!Next /\ UNCHANGED From10
       \/ part = "profile" /\ Profile!Next /\ UNCHANGED From10
       \/ part = "dashboard" /\ Dashboard!Next /\ UNCHANGED From5
       \/ part = "approvals" /\ Versions!Next /\ UNCHANGED From5
       \/ part = "rubrics" /\ Rubric!Next /\ UNCHANGED From7
       \/ part = "gateway" /\ Model!Next /\ UNCHANGED From7
       \/ part = "mail" /\ Post!Next /\ UNCHANGED From13
       \/ part = "inbox" /\ Bell!Next /\ UNCHANGED From7
       \/ part = "careers" /\ Site!Next

Spec == Init /\ [][Next]_<<part, registers>>

-----------------------------------------------------------------------------
(* Every document, copy, queue, clock and counter keeps its type.            *)
TypesOK ==
    CASE part = "role" -> Role!TypeOK
      [] part = "accounts" -> Session!TypeOK
      [] part = "applications" -> Applying!TypeOK
      [] part = "autofill" -> Form!TypeOK
      [] part = "profile" -> Profile!TypeOK
      [] part = "dashboard" -> Dashboard!TypeOK
      [] part = "approvals" -> Versions!TypeOK
      [] part = "rubrics" -> Rubric!TypeOK
      [] part = "gateway" -> Model!TypeOK
      [] part = "mail" -> Post!TypeOK
      [] part = "inbox" -> Bell!TypeOK
      [] part = "careers" -> Site!TypeOK

(* A role with every opening filled is not public, its counters are the counts
   of its board, and whoever holds an offer keeps their place on it
   (jobCapacityService.js, jobController.js).                                *)
RoleIsConsistent == part = "role" => Role!RoleIsConsistent

(* A session has at most one good refresh token or one request about to issue
   it, however many refreshes, logouts and repeats overlap (authController.js). *)
SessionsDoNotFork == part = "accounts" => Session!SessionsDoNotFork

(* One live application per person and job, standing on files of its own
   (publicCareersController.js, candidateController.js, models/Candidate.js). *)
ApplicationsAreSelfContained == part = "applications" => Applying!ApplicationsAreSelfContained

(* What the form is filled with is cited from the resume and labelled when it is
   partial, what is recorded as accepted stands as it was suggested and the
   counts add up; an outage is told once (autofillService.js,
   candidateController.js).  What a request answered was dismissed or saved
   stays so whatever is saved from older copies, and once auto-apply is off the
   sweeps under way make at most their limit each
   (candidateDashboardController.js, autoApplyJob.js).                       *)
CandidatesAreInCharge ==
    /\ part = "autofill" => Form!AutofillIsHonest
    /\ part = "profile" => Profile!ProfileHolds

(* The next step a candidate is shown is one the portal would accept
   (candidateNextActions.js against the portals).                            *)
DashboardTellsTheTruth == part = "dashboard" => Dashboard!DashboardTellsTheTruth

(* A version that was superseded left an approved one, a source has one draft of
   a rubric or a question set, an approved rubric or paper is not changed any
   more, and a rubric's weights are the ladder of its importances
   (rubricService.js, questionSetService.js, personaService.js,
   assessmentPaperService.js, rubricEngine.js).                              *)
DocumentsHold ==
    /\ part = "approvals" => Versions!ApprovalsHold
    /\ part = "rubrics" => Rubric!WeightsAreTheLadder

(* An ensemble settles on what most of its samples gave, what is metered was
   charged, an outage is told once and no state locks the provider out
   (llmService.js, llmCache.js, usageService.js).                            *)
GatewayIsHonest == part = "gateway" => Model!GatewayIsHonest

(* Every mail is sent, failed or still queued, as its log says; the badge of
   unread notifications is the number of them (emailDispatchService.js,
   emailWorker.js, notificationService.js, notificationController.js).       *)
NoticesAreAccountedFor ==
    /\ part = "mail" => Post!MailIsAccountedFor
    /\ part = "inbox" => Bell!BadgeMatches

(* A visitor of a careers page sees nothing older than two terms of the cache,
   and nothing from before a clear that was done (careersService.js,
   redisCache.js).                                                           *)
PublicIsFresh == part = "careers" => Site!PublicIsFresh

-----------------------------------------------------------------------------
(* What the repository's comments say and the code does not do: README.md,
   Where the code and its comments disagree.                                 *)

(* A job ranked for a candidate matches something of theirs: the comment of
   candidateRecommendations.js on scores without a match.                    *)
RankedJobsMatch == part = "profile" => Profile!RankedJobsMatch

(* What stood on the form word for word is not recorded as the candidate's own,
   and a reading that failed is tried again (candidateController.js, Resume.js). *)
OfferedIsNotOwn == part = "autofill" => Form!OfferedIsNotOwn
FailureIsNotKept == part = "autofill" => Form!FailureIsNotKept

(* An edit creates no gate (rubricService.updateDraft).                      *)
GatesAreNeverCreated ==
    [][part = "rubrics" => Rubric!GatesOf(v2') \subseteq Rubric!GatesOf(v2)]_<<part, registers>>

(* The detail of a job that is kept for everyone is nobody's
   (jobController.js).                                                       *)
DetailIsNobodys == part = "careers" => Site!DetailIsNobodys

Alike == Permutations({r1, r2})

=============================================================================
