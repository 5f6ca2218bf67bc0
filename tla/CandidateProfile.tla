-------------------------- MODULE CandidateProfile --------------------------
(* A candidate's profile and the hourly sweep that applies for them: the
   handlers of candidateDashboardController and candidateProfileFullController
   read the document, change it and save it, and jobs/autoApplyJob works from
   the copy its query returned.  A save writes the paths that changed; one that
   sets an array goes through only if the version it read is still there.     *)
EXTENDS Integers, FiniteSets

CONSTANTS Jobs, Skills,
          Required,    \* requiredSkills of each job
          Says,        \* the other words of its title and description
          Requests, Sweeps,
          Limit,       \* STRONG_MATCH_LIMIT: applications of one sweep
          MaxOps       \* bound on the requests

VARIABLES profile,     \* CandidateProfile
          archived,    \* the chosen resume version was archived
          published,   \* the jobs that are public
          applied,     \* jobs with an application, and which the sweep made
          request,     \* what each request is doing, with its copy
          sweep,
          kept,        \* what answered requests said was saved and dismissed
          sinceOff,    \* applications the sweep made since it was turned off
          ops

vars == <<profile, archived, published, applied, request, sweep, kept, sinceOff, ops>>

Profile == [v : Nat, skills : SUBSET Skills, saved : [Jobs -> Nat], dismissed : SUBSET Jobs,
            auto : BOOLEAN, education : BOOLEAN, emailVerified : BOOLEAN, strength : 0 .. 20]
Handlers == {"save", "dismiss", "auto", "skills", "education", "verify", "full"}
Idle == [at |-> "idle"]

TypeOK ==
    /\ profile \in Profile /\ archived \in BOOLEAN /\ published \subseteq Jobs
    /\ applied \in [Jobs -> {"none", "self", "auto"}]
    /\ \A r \in Requests : request[r] = Idle
                           \/ (request[r].at \in Handlers /\ request[r].copy \in Profile)
    /\ \A s \in Sweeps : sweep[s] = Idle \/ (sweep[s].copy \in Profile /\ sweep[s].ranked \subseteq Jobs)
    /\ kept \in [saved : SUBSET Jobs, dismissed : SUBSET Jobs]
    /\ sinceOff \in Nat /\ ops \in 0 .. MaxOps

Init ==
    /\ profile = [v |-> 0, skills |-> {}, saved |-> [j \in Jobs |-> 0], dismissed |-> {}, auto |-> FALSE,
                  education |-> FALSE, emailVerified |-> FALSE, strength |-> 0]
    /\ archived = FALSE /\ published = Jobs /\ applied = [j \in Jobs |-> "none"]
    /\ request = [r \in Requests |-> Idle] /\ sweep = [s \in Sweeps |-> Idle]
    /\ kept = [saved |-> {}, dismissed |-> {}] /\ sinceOff = 0 /\ ops = 0

(* computeProfileStrength, on the two of its parts that are modelled.        *)
Strength(p) == (IF p.education THEN 10 ELSE 0) + (IF p.emailVerified THEN 10 ELSE 0)

-----------------------------------------------------------------------------
(* Each handler reads the profile, which getOrCreateProfile has made; a job to
   save has been found public before that.                                   *)
Read(r, h, j) ==
    /\ request[r] = Idle /\ ops < MaxOps /\ ops' = ops + 1
    /\ h = "save" => j \in published
    /\ request' = [request EXCEPT ![r] = IF h \in {"save", "dismiss"}
                                         THEN [at |-> h, copy |-> profile, job |-> j]
                                         ELSE [at |-> h, copy |-> profile]]
    /\ UNCHANGED <<profile, archived, published, applied, sweep, kept, sinceOff>>

\* As if a save wrote its arrays over whatever version was there.
AnyVersion(c) == TRUE
(* Mongoose's where clause on __v, for the saves that set a whole array.     *)
SameVersion(c) == profile.v = c.v

(* A save of the fields of new that differ from the copy.                    *)
Merged(c, new) ==
    [f \in DOMAIN profile |-> IF f = "v" THEN profile.v
                              ELSE IF new[f] # c[f] THEN new[f] ELSE profile[f]]
Bumped(p) == [p EXCEPT !.v = @ + 1]
Answered(r, k, off) ==
    /\ request' = [request EXCEPT ![r] = Idle] /\ kept' = k /\ sinceOff' = off
    /\ UNCHANGED <<published, applied, sweep, ops>>
VersionError(r, c) ==
    /\ ~SameVersion(c) /\ UNCHANGED profile /\ Answered(r, kept, sinceOff)

(* toggleSavedJob: a job already in the copy is spliced out of the array, any
   other is pushed, and a push needs no version.                             *)
ToggleSavedJob(r) ==
    LET c == request[r].copy  j == request[r].job IN
    /\ request[r].at = "save" /\ UNCHANGED archived
    /\ \/ /\ c.saved[j] > 0 /\ SameVersion(c)
          /\ profile' = Bumped([profile EXCEPT !.saved[j] = c.saved[j] - 1])
          /\ Answered(r, [kept EXCEPT !.saved = @ \ {j}], sinceOff)
       \/ c.saved[j] > 0 /\ VersionError(r, c)
       \/ /\ c.saved[j] = 0
          /\ profile' = Bumped([profile EXCEPT !.saved[j] = @ + 1])
          /\ Answered(r, [kept EXCEPT !.saved = @ \cup {j}], sinceOff)

(* dismissRecommendedJob                                                     *)
DismissRecommendedJob(r) ==
    LET c == request[r].copy  j == request[r].job IN
    /\ request[r].at = "dismiss" /\ UNCHANGED archived
    /\ \/ /\ j \in c.dismissed /\ UNCHANGED profile
          /\ Answered(r, [kept EXCEPT !.dismissed = @ \cup {j}], sinceOff)
       \/ /\ j \notin c.dismissed /\ SameVersion(c)
          /\ profile' = Bumped([profile EXCEPT !.dismissed = c.dismissed \cup {j}])
          /\ Answered(r, [kept EXCEPT !.dismissed = @ \cup {j}], sinceOff)
       \/ j \notin c.dismissed /\ VersionError(r, c)

(* updateAutoApplySettings: turning it on names a resume of the candidate's
   own that is not archived, the same as before or another.                  *)
UpdateAutoApplySettings(r, on, other) ==
    LET c == request[r].copy IN
    /\ request[r].at = "auto"
    /\ IF on /\ archived /\ ~other
       THEN UNCHANGED <<profile, archived>>
       ELSE /\ profile' = Merged(c, [c EXCEPT !.auto = on])
            /\ archived' = (archived /\ ~(on /\ other))
    /\ Answered(r, kept, IF on THEN sinceOff ELSE 0)

(* updateProfile                                                             *)
UpdateProfile(r, new) ==
    LET c == request[r].copy IN
    /\ request[r].at = "skills" /\ UNCHANGED archived
    /\ \/ SameVersion(c) /\ profile' = Bumped([profile EXCEPT !.skills = new]) /\ Answered(r, kept, sinceOff)
       \/ VersionError(r, c)

(* updateEducation and updateExperience; verifyOtp; getFullProfile.          *)
UpdateEducation(r, new) ==
    LET c == request[r].copy  n == [c EXCEPT !.education = new] IN
    /\ request[r].at = "education" /\ UNCHANGED archived
    /\ \/ SameVersion(c) /\ profile' = Bumped(Merged(c, [n EXCEPT !.strength = Strength(n)]))
          /\ Answered(r, kept, sinceOff)
       \/ VersionError(r, c)

VerifyOtp(r) ==
    LET c == request[r].copy  n == [c EXCEPT !.emailVerified = TRUE] IN
    /\ request[r].at = "verify" /\ UNCHANGED archived
    /\ profile' = Merged(c, [n EXCEPT !.strength = Strength(n)])
    /\ Answered(r, kept, sinceOff)

GetFullProfile(r) ==
    LET c == request[r].copy IN
    /\ request[r].at = "full" /\ UNCHANGED archived
    /\ profile' = Merged(c, [c EXCEPT !.strength = Strength(c)])
    /\ Answered(r, kept, sinceOff)

-----------------------------------------------------------------------------
(* rankRecommendedJobs.  A required skill counts as matched if the candidate
   has it or if the job's own text has it - and the text includes the list of
   required skills.                                                          *)
JobText(j) == Says[j] \cup Required[j]
MatchedRequired(j, p) == {x \in Required[j] : x \in p.skills \/ x \in JobText(j)}
HasProfileMatch(j, p) == MatchedRequired(j, p) # {} \/ p.skills \cap JobText(j) # {}

(* The sweep: the profiles that have it on are read at once, and come up one
   after another; the resume, the applications and the pool are read then.   *)
SweepFind(s) ==
    /\ sweep[s] = Idle /\ profile.auto
    /\ sweep' = [sweep EXCEPT ![s] = [at |-> "found", copy |-> profile, ranked |-> {}]]
    /\ UNCHANGED <<profile, archived, published, applied, request, kept, sinceOff, ops>>

SweepRank(s) ==
    LET c == sweep[s].copy
        pool == {j \in published : applied[j] = "none" /\ j \notin c.dismissed /\ HasProfileMatch(j, c)} IN
    /\ sweep[s].at = "found"
    /\ IF archived
       THEN sweep' = [sweep EXCEPT ![s] = Idle]
       ELSE \E top \in SUBSET pool :
               /\ Cardinality(top) = IF Cardinality(pool) < Limit THEN Cardinality(pool) ELSE Limit
               /\ sweep' = [sweep EXCEPT ![s] = [@ EXCEPT !.at = "apply", !.ranked = top]]
    /\ UNCHANGED <<profile, archived, published, applied, request, kept, sinceOff, ops>>

(* One ranked job: read again, skipped if it is no longer public, and applied
   to; an application that is already there is a conflict, and skipped.      *)
SweepApply(s, j) ==
    LET goes == j \in published /\ applied[j] = "none" IN
    /\ sweep[s].at = "apply" /\ j \in sweep[s].ranked
    /\ sweep' = [sweep EXCEPT ![s].ranked = @ \ {j}]
    /\ applied' = IF goes THEN [applied EXCEPT ![j] = "auto"] ELSE applied
    /\ sinceOff' = IF goes THEN sinceOff + 1 ELSE sinceOff
    /\ UNCHANGED <<profile, archived, published, request, kept, ops>>

SweepEnd(s) ==
    /\ sweep[s].at = "apply" /\ sweep[s].ranked = {}
    /\ sweep' = [sweep EXCEPT ![s] = Idle]
    /\ UNCHANGED <<profile, archived, published, applied, request, kept, sinceOff, ops>>

-----------------------------------------------------------------------------
Elsewhere == <<profile, request, sweep, kept, sinceOff, ops>>
Archive == ~archived /\ archived' = TRUE /\ UNCHANGED <<published, applied, Elsewhere>>
CloseJob(j) == j \in published /\ published' = published \ {j} /\ UNCHANGED <<archived, applied, Elsewhere>>
Apply(j) ==
    /\ j \in published /\ applied[j] = "none"
    /\ applied' = [applied EXCEPT ![j] = "self"] /\ UNCHANGED <<archived, published, Elsewhere>>

Next ==
    \/ \E r \in Requests, h \in Handlers, j \in Jobs : Read(r, h, j)
    \/ \E r \in Requests, b \in BOOLEAN : UpdateEducation(r, b) \/ \E other \in BOOLEAN : UpdateAutoApplySettings(r, b, other)
    \/ \E r \in Requests : \/ ToggleSavedJob(r) \/ DismissRecommendedJob(r) \/ VerifyOtp(r) \/ GetFullProfile(r)
                          \/ \E new \in SUBSET Skills : UpdateProfile(r, new)
    \/ \E s \in Sweeps : SweepFind(s) \/ SweepRank(s) \/ (\E j \in Jobs : SweepApply(s, j)) \/ SweepEnd(s)
    \/ Archive \/ \E j \in Jobs : CloseJob(j) \/ Apply(j)

Spec == Init /\ [][Next]_vars

-----------------------------------------------------------------------------
(* Two tabs of one candidate do not undo each other: a job a request answered
   was dismissed stays dismissed, one it answered was saved stays saved until
   a request answers that it is not.                                         *)
AnswersAreKept ==
    /\ kept.dismissed \subseteq profile.dismissed
    /\ \A j \in kept.saved : profile.saved[j] > 0

(* Turned off, the sweep that is under way still applies, and no other: each
   makes its Limit at most.                                                  *)
OffMeansOff == ~profile.auto => sinceOff <= Limit * Cardinality(Sweeps)

ProfileHolds == AnswersAreKept /\ OffMeansOff

(* candidateRecommendations.js:55-58: "recommended" means profile- or resume-
   matched, so a job the sweep is to apply to asks for something they have.  *)
RankedJobsMatch ==
    \A s \in Sweeps : sweep[s].at = "apply" =>
        \A j \in sweep[s].ranked : sweep[s].copy.skills \cap JobText(j) # {}
=============================================================================
