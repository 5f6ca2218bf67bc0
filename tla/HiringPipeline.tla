---------------------------- MODULE HiringPipeline ----------------------------
(***************************************************************************)
(* The applications of one person at one company, and what the pipeline    *)
(* keeps beside each: the open review item, the place in the interview     *)
(* queue, the interview invitation and the assessment session.             *)
(*                                                                         *)
(* src/services/pipelineService.js (applyTransition and its satellites),   *)
(* src/services/atsService.js (the decision that ends a screening),        *)
(* src/controllers/reviewQueueController.js and the callers of             *)
(* applyTransition.                                                        *)
(*                                                                         *)
(* A handler loads an application, awaits, and saves; the handlers of all  *)
(* processes interleave between those points.  A Candidate is saved path   *)
(* by path: a save writes the paths the handler set, over whatever is      *)
(* stored, and pushes onto stageHistory.  It is never refused.             *)
(***************************************************************************)
EXTENDS PipelineStages, FiniteSets

CONSTANTS
    Requests,       \* slots for handlers in flight, over all processes
    Apps,           \* the person's applications, one per job
    Kinds,          \* the operations this instance exercises
    Targets,        \* stages a recruiter moves applications to
    Policy,         \* each job's assessmentPolicy: "off", "manual" or "auto"
    PaperReady,     \* whether the jobs have an approved assessment paper
    AutoReject,     \* whether the company lets the screening reject
    Rescore,        \* whether a screening may find an application already handled
    Failures,       \* whether a handler may die between two awaits
    MaxItems,       \* bound: review items opened per application
    None            \* an unset path

AllKinds == {"move", "screen", "resolve", "send", "assessed", "interviewed", "requeue"}
Policies == {"off", "manual", "auto"}

ASSUME PipelineAssumption ==
    /\ Kinds \subseteq AllKinds /\ Targets \subseteq ValidStages /\ Policy \in [Apps -> Policies]
    /\ {PaperReady, AutoReject, Rescore, Failures} \subseteq BOOLEAN
    /\ MaxItems \in Nat

\* An unset path is no stage, no decision and no exit.
ASSUME NoneAssumption == None \notin ValidStages \cup {"advance", "decline", "hired_for_other_role"}

VARIABLES
    cand,       \* the stored applications
    review,     \* the newest review item of each
    queue,      \* the InterviewQueue entry of each
    invited,    \* the applications an InterviewSession was created for
    assess,     \* the newest AssessmentSession of each
    req         \* what each request holds and where it is

vars == <<cand, review, queue, invited, assess, req>>

Decisions == {"advance", "decline"}
Applications == [stage : ValidStages, exit : {"hired_for_other_role", None},
                 offer : {"none", "sent", "accepted", "declined"}]
Items == [n : Nat, open : BOOLEAN, decision : Decisions \cup {None}]
Sessions == {"none", "scheduled", "in_progress", "completed", "cancelled"}
LiveSessions == {"scheduled", "in_progress"}
Steps == {"idle", "move", "siblings", "review", "close", "unqueue", "enqueue", "invite",
          "assess", "stale", "score", "park", "send", "open", "record", "settle", "advance", "finished", "second"}

\* One request: the application, the copy read, the stage applyTransition takes
\* it to, a stage set on the copy and not saved, and what follows.
Held == [step : Steps, kind : AllKinds \cup {None}, app : Apps \cup {None},
         to : ValidStages \cup {None}, copy : Applications \cup {None},
         unsaved : ValidStages \cup {None}, siblings : SUBSET Apps, item : Nat, after : Steps]

TypeOK ==
    /\ cand \in [Apps -> Applications]
    /\ review \in [Apps -> Items]
    /\ queue \in [Apps -> {"none", "queued", "removed"}]
    /\ invited \subseteq Apps
    /\ assess \in [Apps -> Sessions]
    /\ req \in [Requests -> Held]

Idle == [step |-> "idle", kind |-> None, app |-> None, to |-> None, copy |-> None,
         unsaved |-> None, siblings |-> {}, item |-> 0, after |-> "idle"]

Init ==
    /\ cand = [a \in Apps |-> [stage |-> "applied", exit |-> None, offer |-> "none"]]
    /\ review = [a \in Apps |-> [n |-> 0, open |-> FALSE, decision |-> None]]
    /\ queue = [a \in Apps |-> "none"]
    /\ invited = {}
    /\ assess = [a \in Apps |-> "none"]
    /\ req = [r \in Requests |-> Idle]

-----------------------------------------------------------------------------
(* Going on                                                                *)

At(r, step) == req[r].step = step

Go(r, held) == req' = [req EXCEPT ![r] = held]

GoTo(r, step) == Go(r, IF step = "idle" THEN Idle ELSE [req[r] EXCEPT !.step = step])

\* applyTransition on the copy r holds; what comes after it is kept.
Moving(r, copy, to, after) ==
    [req[r] EXCEPT !.step = "move", !.copy = copy, !.to = to, !.after = after]

Begin(r, kind, a, step) ==
    /\ At(r, "idle") /\ kind \in Kinds
    /\ Go(r, [Idle EXCEPT !.step = step, !.kind = kind, !.app = a, !.copy = cand[a]])

OnlyRequest == UNCHANGED <<cand, review, queue, invited, assess>>

-----------------------------------------------------------------------------
(* applyTransition                                                         *)

LoadMove(r, a, to) ==
    /\ canTransition(cand[a].stage, to)
    /\ At(r, "idle") /\ "move" \in Kinds
    /\ Go(r, [Idle EXCEPT !.step = "move", !.kind = "move", !.app = a, !.copy = cand[a], !.to = to])
    /\ OnlyRequest

\* Mutants of syncOffer: a status the schema does not have; a rejection that
\* leaves the offer alone.
syncOfferUnknown(offer, seen, to) ==
    IF to = "rejected" /\ seen = "sent" THEN "withdrawn"
    ELSE IF to = "offer_sent" THEN "sent" ELSE IF to = "offer_accepted" THEN "accepted" ELSE offer

syncOfferOpen(offer, seen, to) ==
    IF to = "offer_sent" THEN "sent" ELSE IF to = "offer_accepted" THEN "accepted" ELSE offer

\* The offer after a move: a rejection declines the offer the copy knows of.
syncOffer(offer, seen, to) ==
    CASE to = "offer_sent" -> "sent"
      [] to = "offer_accepted" -> "accepted"
      [] to = "rejected" /\ seen = "sent" -> "declined"
      [] OTHER -> offer

\* The move brings an application that had left the pipeline back into it.
MoveSave(r) ==
    LET h == req[r]
        a == h.app
    IN  /\ At(r, "move")
        /\ cand' = [cand EXCEPT ![a] = [stage |-> h.to,
                                        offer |-> syncOffer(@.offer, h.copy.offer, h.to),
                                        exit |-> IF h.copy.exit # None THEN None ELSE @.exit]]
        /\ Go(r, [h EXCEPT !.step = IF h.to = "joined" THEN "siblings" ELSE "review",
                           !.copy = [@ EXCEPT !.stage = h.to]])
        /\ UNCHANGED <<review, queue, invited, assess>>

\* Mutant of FindSiblings: only applications nobody has looked at are found.
FindSiblingsApplied(r) ==
    LET open == {b \in Apps \ {req[r].app} : cand[b].stage = "applied" /\ cand[b].exit = None}
    IN  /\ At(r, "siblings") /\ req[r].siblings = {}
        /\ Go(r, [req[r] EXCEPT !.siblings = open, !.step = IF open = {} THEN "review" ELSE @])
        /\ OnlyRequest

\* closeSiblingApplicationsOnHire: one query, then one save per application.
FindSiblings(r) ==
    LET open == {b \in Apps \ {req[r].app} : cand[b].stage \notin TERMINAL_STAGES /\ cand[b].exit = None}
    IN  /\ At(r, "siblings") /\ req[r].siblings = {}
        /\ Go(r, [req[r] EXCEPT !.siblings = open, !.step = IF open = {} THEN "review" ELSE @])
        /\ OnlyRequest

CloseSibling(r) ==
    /\ At(r, "siblings")
    /\ \E s \in req[r].siblings :
          /\ cand' = [cand EXCEPT ![s].exit = "hired_for_other_role"]
          /\ Go(r, [req[r] EXCEPT !.siblings = @ \ {s},
                                  !.step = IF req[r].siblings = {s} THEN "review" ELSE @])
    /\ UNCHANGED <<review, queue, invited, assess>>

Onward(to) == IF to = "interview_scheduled" THEN "enqueue" ELSE "unqueue"

\* closeSatelliteQueues looks for the open item ...
FindItem(r) ==
    /\ At(r, "review")
    /\ IF review[req[r].app].open
       THEN Go(r, [req[r] EXCEPT !.step = "close", !.item = review[req[r].app].n])
       ELSE GoTo(r, Onward(req[r].to))
    /\ OnlyRequest

\* Item n of an application is decided; an older one is decided already.
Decide(a, n, decision) ==
    review' = IF review[a].n = n
              THEN [review EXCEPT ![a].open = FALSE, ![a].decision = decision] ELSE review

\* Mutants of CloseItem: the item stays open; the labels are swapped.
CloseItemNever(r) ==
    /\ At(r, "close")
    /\ GoTo(r, Onward(req[r].to))
    /\ OnlyRequest

CloseItemSwapped(r) ==
    /\ At(r, "close")
    /\ Decide(req[r].app, req[r].item, IF req[r].to = "rejected" THEN "advance" ELSE "decline")
    /\ GoTo(r, Onward(req[r].to))
    /\ UNCHANGED <<cand, queue, invited, assess>>

\* ... and resolves it.
CloseItem(r) ==
    /\ At(r, "close")
    /\ Decide(req[r].app, req[r].item, IF req[r].to = "rejected" THEN "decline" ELSE "advance")
    /\ GoTo(r, Onward(req[r].to))
    /\ UNCHANGED <<cand, queue, invited, assess>>

\* Mutant of Unqueue: only a rejection takes the application off the queue.
UnqueueRejected(r) ==
    LET h == req[r]
    IN  /\ At(r, "unqueue")
        /\ queue' = IF queue[h.app] = "queued" /\ h.to = "rejected"
                    THEN [queue EXCEPT ![h.app] = "removed"] ELSE queue
        /\ GoTo(r, IF h.to = "assessment_scheduled" THEN "assess"
                   ELSE IF h.to = "rejected" THEN "stale" ELSE h.after)
        /\ UNCHANGED <<cand, review, invited, assess>>

\* Anywhere but to the interview: the wait for it is over.
Unqueue(r) ==
    LET h == req[r]
    IN  /\ At(r, "unqueue")
        /\ queue' = IF queue[h.app] = "queued" THEN [queue EXCEPT ![h.app] = "removed"] ELSE queue
        /\ GoTo(r, IF h.to = "assessment_scheduled" THEN "assess"
                   ELSE IF h.to = "rejected" THEN "stale" ELSE h.after)
        /\ UNCHANGED <<cand, review, invited, assess>>

\* ensureInterviewInvite, and the same two writes of advanceAfterAtsPass.
Enqueue(r) ==
    /\ At(r, "enqueue")
    /\ queue' = [queue EXCEPT ![req[r].app] = "queued"]
    /\ GoTo(r, "invite")
    /\ UNCHANGED <<cand, review, invited, assess>>

Invite(r) ==
    /\ At(r, "invite")
    /\ invited' = invited \cup {req[r].app}
    /\ GoTo(r, IF req[r].to = None THEN "record" ELSE "stale")
    /\ UNCHANGED <<cand, review, queue, assess>>

\* ensureAssessmentInvite: a missing paper is an error that is only logged.
AssessInvite(r) ==
    /\ At(r, "assess")
    /\ assess' = IF assess[req[r].app] \notin LiveSessions /\ PaperReady
                 THEN [assess EXCEPT ![req[r].app] = "scheduled"] ELSE assess
    /\ GoTo(r, req[r].after)
    /\ UNCHANGED <<cand, review, queue, invited>>

\* cancelStaleAssessment, found and cancelled in one step here: AssessmentSession
\* has the two of them.
CancelStale(r) ==
    /\ At(r, "stale")
    /\ assess' = IF assess[req[r].app] = "scheduled"
                 THEN [assess EXCEPT ![req[r].app] = "cancelled"] ELSE assess
    /\ GoTo(r, req[r].after)
    /\ UNCHANGED <<cand, review, queue, invited>>

-----------------------------------------------------------------------------
(* sendAssessment                                                          *)

LoadSend(r, a) ==
    /\ Policy[a] # "off" /\ PaperReady
    /\ Begin(r, "send", a, "send")
    /\ OnlyRequest

\* An application before the assessment moves to it; any other keeps its stage.
Send(r) ==
    LET h == req[r]
        fresh == assess[h.app] \notin LiveSessions
    IN  /\ At(r, "send")
        /\ assess' = IF fresh THEN [assess EXCEPT ![h.app] = "scheduled"] ELSE assess
        /\ IF fresh /\ h.copy.stage \in {"applied", "ats_passed"}
           THEN Go(r, Moving(r, h.copy, "assessment_scheduled", h.after))
           ELSE GoTo(r, h.after)
        /\ UNCHANGED <<cand, review, queue, invited>>

-----------------------------------------------------------------------------
(* The screening, first or repeated: it runs for minutes on its copy       *)

LoadScreen(r, a) ==
    /\ Rescore \/ (cand[a].stage = "applied" /\ cand[a].exit = None /\ review[a].n = 0)
    /\ Begin(r, "screen", a, "score")
    /\ OnlyRequest

\* advanceAfterAtsPass on the copy r holds: the recruiter gate engages on the
\* job's policy alone; without it an applied copy is set to the interview.
PassOn(r) ==
    IF Policy[req[r].app] # "off" THEN GoTo(r, "park")
    ELSE Go(r, [req[r] EXCEPT !.step = "enqueue",
                   !.unsaved = IF req[r].copy.stage = "applied" THEN "interview_scheduled" ELSE None])

\* A pass goes on; a doubt, or a fail where no machine may reject, is opened
\* for review; an automatic rejection is only set on the copy so far.
Score(r) ==
    /\ At(r, "score")
    /\ \/ PassOn(r)
       \/ GoTo(r, "open")
       \/ /\ AutoReject
          /\ Go(r, [req[r] EXCEPT !.step = "record",
                       !.unsaved = IF req[r].copy.stage = "rejected" THEN None ELSE "rejected"])
    /\ OnlyRequest

\* One item is open per application: a repeated doubt updates it.
OpenItem(r) ==
    LET a == req[r].app
    IN  /\ At(r, "open")
        /\ review[a].open \/ review[a].n < MaxItems
        /\ review' = IF review[a].open THEN review
                     ELSE [review EXCEPT ![a] = [n |-> @.n + 1, open |-> TRUE, decision |-> None]]
        /\ GoTo(r, "record")
        /\ UNCHANGED <<cand, queue, invited, assess>>

\* The gate: an applied candidate waits at ats_passed for the recruiter, or is
\* assigned the assessment right away.
Park(r) ==
    LET h == req[r]
        parks == h.copy.stage = "applied"
    IN  /\ At(r, "park")
        /\ cand' = IF parks THEN [cand EXCEPT ![h.app].stage = "ats_passed"] ELSE cand
        /\ Go(r, [h EXCEPT !.copy.stage = IF parks THEN "ats_passed" ELSE @,
                           !.step = IF Policy[h.app] = "auto" /\ PaperReady THEN "send" ELSE "record",
                           !.after = "record"])
        /\ UNCHANGED <<review, queue, invited, assess>>

\* The last save of a screening, or of a review advanced.
Record(r) ==
    LET h == req[r]
    IN  /\ At(r, "record")
        /\ cand' = IF h.unsaved = None THEN cand ELSE [cand EXCEPT ![h.app].stage = h.unsaved]
        /\ GoTo(r, IF h.kind = "resolve" THEN "settle" ELSE "idle")
        /\ UNCHANGED <<review, queue, invited, assess>>

-----------------------------------------------------------------------------
(* The review queue                                                        *)

\* A decline is an ordinary move; one that is not allowed leaves the item open
\* and changes nothing.
LoadResolve(r, a, decision) ==
    LET h == [Idle EXCEPT !.kind = "resolve", !.app = a, !.copy = cand[a], !.item = review[a].n]
    IN  /\ At(r, "idle") /\ "resolve" \in Kinds
        /\ review[a].open
        /\ \/ decision = "advance" /\ Go(r, [h EXCEPT !.step = "advance"])
           \/ /\ decision = "decline" /\ canTransition(cand[a].stage, "rejected")
              /\ Go(r, [h EXCEPT !.step = "move", !.to = "rejected", !.after = "settle"])
        /\ OnlyRequest

\* "Exactly the machine-pass pathway."
ResolveAdvance(r) == At(r, "advance") /\ PassOn(r) /\ OnlyRequest

\* The item is resolved last.
Settle(r) ==
    /\ At(r, "settle")
    /\ Decide(req[r].app, req[r].item, IF req[r].to = "rejected" THEN "decline" ELSE "advance")
    /\ GoTo(r, "idle")
    /\ UNCHANGED <<cand, queue, invited, assess>>

-----------------------------------------------------------------------------
(* What the assessment and the interview report                            *)

CandidateBegins(a) ==
    /\ assess[a] = "scheduled"
    /\ assess' = [assess EXCEPT ![a] = "in_progress"]
    /\ UNCHANGED <<cand, review, queue, invited, req>>

\* finalizeSession saves the session and then loads the application.
LoadAssessed(r, a) ==
    /\ assess[a] = "in_progress"
    /\ assess' = [assess EXCEPT ![a] = "completed"]
    /\ Begin(r, "assessed", a, "finished")
    /\ UNCHANGED <<cand, review, queue, invited>>

\* Mutant of Assessed: an application that was moved on is taken back.
AssessedAlways(r) ==
    /\ At(r, "finished")
    /\ Go(r, Moving(r, cand[req[r].app], "assessment_completed", "second"))
    /\ OnlyRequest

\* Two moves, each only from the stage the assessment put the application in.
Assessed(r) ==
    LET a == req[r].app
    IN  /\ At(r, "finished")
        /\ CASE cand[a].stage = "assessment_scheduled" ->
                   Go(r, Moving(r, cand[a], "assessment_completed", "second"))
             [] cand[a].stage = "assessment_completed" ->
                   Go(r, Moving(r, cand[a], "interview_scheduled", "idle"))
             [] OTHER -> GoTo(r, "idle")
        /\ OnlyRequest

AssessedSecond(r) ==
    /\ At(r, "second")
    /\ Go(r, Moving(r, req[r].copy, "interview_scheduled", "idle"))
    /\ OnlyRequest

\* runFinalization, once the interview is over: only an application that still
\* waits for it moves.
LoadInterviewed(r, a) ==
    /\ a \in invited /\ cand[a].stage = "interview_scheduled"
    /\ At(r, "idle") /\ "interviewed" \in Kinds
    /\ Go(r, [Idle EXCEPT !.step = "move", !.kind = "interviewed", !.app = a, !.copy = cand[a],
                           !.to = "ai_interview_completed"])
    /\ OnlyRequest

\* updateQueueEntry: one atomic update, whatever the stage.
Requeue(a, status) ==
    /\ "requeue" \in Kinds
    /\ queue[a] # "none"
    /\ queue' = [queue EXCEPT ![a] = status]
    /\ UNCHANGED <<cand, review, invited, assess, req>>

-----------------------------------------------------------------------------

\* The process dies between two awaits, or an await in between throws.
Fail(r) ==
    /\ Failures /\ ~At(r, "idle")
    /\ GoTo(r, "idle")
    /\ OnlyRequest

Load(r) ==
    \E a \in Apps :
        \/ \E to \in Targets : LoadMove(r, a, to)
        \/ \E d \in Decisions : LoadResolve(r, a, d)
        \/ LoadScreen(r, a) \/ LoadSend(r, a) \/ LoadAssessed(r, a) \/ LoadInterviewed(r, a)

Proceed(r) ==
    \/ MoveSave(r) \/ FindSiblings(r) \/ CloseSibling(r) \/ FindItem(r) \/ CloseItem(r)
    \/ Unqueue(r) \/ Enqueue(r) \/ Invite(r) \/ AssessInvite(r) \/ CancelStale(r)
    \/ Send(r) \/ Score(r) \/ OpenItem(r) \/ Park(r) \/ Record(r)
    \/ ResolveAdvance(r) \/ Settle(r) \/ Assessed(r) \/ AssessedSecond(r)

Elsewhere ==
    \E a \in Apps : CandidateBegins(a) \/ \E s \in {"queued", "removed"} : Requeue(a, s)

Next == Elsewhere \/ \E r \in Requests : Load(r) \/ Proceed(r) \/ Fail(r)

Spec == Init /\ [][Next]_vars

-----------------------------------------------------------------------------
(* What the pipeline promises while requests do not overlap                *)

AtRest == \A r \in Requests : At(r, "idle")

\* "No transitions are allowed out of" a terminal stage, and a stage only moves
\* as canTransition says: whoever moves it, on whatever copy.
StageMovesAreLegal ==
    [][\A a \in Apps : cand'[a].stage # cand[a].stage => canTransition(cand[a].stage, cand'[a].stage)]_vars

\* "Keeps the offer sub-document coherent with the pipeline stage."
OfferMatchesStage ==
    \A a \in Apps :
        /\ cand[a].stage = "offer_sent" => cand[a].offer = "sent"
        /\ cand[a].stage = "offer_accepted" => cand[a].offer = "accepted"
        /\ cand[a].stage = "rejected" => cand[a].offer # "sent"

\* "A candidate is only ever awaiting the AI interview while parked at
\* interview_scheduled": a queue entry outlives no stage move.
AwaitingMeansScheduled ==
    AtRest => \A a \in Apps : queue[a] = "queued" => cand[a].stage = "interview_scheduled"

\* However an application got to the interview - by hand, by a screening, by a
\* review, by an assessment - the interview was queued and a link was sent.
ScheduledMeansInvited ==
    AtRest => \A a \in Apps :
        cand[a].stage = "interview_scheduled" => queue[a] = "queued" /\ a \in invited

\* An open review item asks for a decision nobody made yet: a move made outside
\* the review queue resolves it.
OpenItemsAreUndecided ==
    AtRest => \A a \in Apps : review[a].open => cand[a].stage = "applied"

\* Closing the siblings of a hire skips "applications already terminal".
DecidedKeepTheirPlace ==
    \A a \in Apps : cand[a].stage \in TERMINAL_STAGES => cand[a].exit = None

\* What one save decides stays coherent, wherever a handler dies: the offer is
\* that of the stage, and nobody decided on leaves the board (syncOffer,
\* closeSiblingApplicationsOnHire).
DecisionsCohere == OfferMatchesStage /\ DecidedKeepTheirPlace

\* A person hired for one role leaves the other pipelines there: an application
\* of theirs is still active only if it was moved again since.
HireClosesSiblings ==
    [][\A r \in Requests :
        (req[r].step = "siblings" /\ req'[r].step = "review") =>
            \A b \in Apps \ {req[r].app} : cand'[b].stage \in TERMINAL_STAGES \/ cand'[b].exit # None]_vars

\* The decision recorded on the newest item, the label calibration learns from,
\* agrees with what became of the application.
LabelsAreTrue ==
    AtRest => \A a \in Apps : review[a].decision = "decline" => cand[a].stage = "rejected"

\* While no handler dies and nobody edits the interview queue by hand, every
\* satellite follows the stage: whoever is queued for an interview is scheduled
\* for it and invited to it, an open review item is of an undecided application
\* and a label says what was decided (pipelineService.js, atsService.js,
\* reviewQueueController.js).
SatellitesCohere ==
    AwaitingMeansScheduled /\ ScheduledMeansInvited /\ OpenItemsAreUndecided /\ LabelsAreTrue

=============================================================================
