---------------------------- MODULE InterviewSession ----------------------------
(***************************************************************************)
(* The interview sessions of one application: one document per attempt.    *)
(* Whoever may write them is here: the candidate's portal behind           *)
(* src/middleware/candidateAuth.js, the ways an interview ends in          *)
(* src/services/aiInterviewService.js, the recruiter's resend and          *)
(* reschedule in src/services/interviewInvitationService.js, the two       *)
(* abandonment sweeps of src/jobs/interviewReminderJob.js, and the worker  *)
(* that finalizes an interview some time after it ended.                   *)
(*                                                                         *)
(* A handler loads a document, decides on its copy and saves.  Saves are   *)
(* Mongoose saves (external): they write the paths the handler changed, a  *)
(* plain push moves the document's version, rewriting an array or one of   *)
(* its elements is refused when the version moved since the load, and      *)
(* other saves are never refused.  As in AssessmentSession the version is  *)
(* one bit per slot, stale.  What is asked and answered is abstracted to   *)
(* the number of answers on record.                                        *)
(***************************************************************************)
EXTENDS Integers, FiniteSets

CONSTANTS
    Requests,       \* slots for handlers and sweeps in flight
    Workers,        \* finalization jobs run at a time
    Kinds,          \* the operations this instance exercises
    MaxTries,       \* runs of one finalization job (attempts: 3)
    MaxAttempts,    \* bound: sessions of one application
    MaxEpoch,       \* bound: links issued per session
    MaxAnswers,     \* bound: answers on record per session
    None            \* no document, no copy, no token

Portal == {"begin", "answer", "withdraw", "halt", "flags", "presence"}
Resends == {"resend", "forceResend", "ownResend"}
Reschedules == {"reschedule", "forceReschedule"}
Rotations == Resends \cup Reschedules
Sweeps == {"sweepExpired", "sweepAway"}
AllKinds == Portal \cup Rotations \cup Sweeps

ASSUME SlotAssumption == Requests \cap Workers = {}
ASSUME KindAssumption == Kinds \subseteq AllKinds
ASSUME BoundAssumption ==
    /\ MaxTries \in Nat \ {0} /\ MaxAttempts \in Nat \ {0}
    /\ MaxEpoch \in Nat /\ MaxAnswers \in Nat
ASSUME NoneAssumption == None \notin Nat

VARIABLES
    docs,   \* the stored InterviewSession documents, by attempt
    stage,  \* the candidate's pipeline stage
    tab,    \* the portal token the candidate's browser holds
    queue,  \* finalization jobs waiting, by attempt
    tries,  \* how often a worker has started the job it holds
    pc,     \* where each slot is
    call,   \* what each slot does, and on which attempt
    local,  \* the copy of the document each slot works on
    stale,  \* whether the stored version moved since that copy was loaded
    lost    \* history: "report" or "move" of an attempt, gone in a crash

vars == <<docs, stage, tab, queue, tries, pc, call, local, stale, lost>>

Slots == Requests \cup Workers
AttemptNos == 1..MaxAttempts

Statuses == {"scheduled", "in_progress", "completed", "expired", "cancelled"}
Ended == {"completed", "ended_early", "halted", "integrity_terminated", "abandoned"}
AiStatuses == {"not_started", "in_progress"} \cup Ended

\* valid: expiresAt is ahead.  covers: the answers the evaluation was made of,
\* None without evaluation.generatedAt.  away: the last presence event is "left".
Documents ==
    [status : Statuses, ai : AiStatuses, epoch : Nat, valid : BOOLEAN,
     started : BOOLEAN, away : BOOLEAN, answers : Nat, scored : Nat, covers : Nat \cup {None}]

ASSUME AbsenceAssumption == None \notin Documents

Tokens == [at : AttemptNos, epoch : Nat]
Calls == [kind : AllKinds \cup {"finalize"}, at : AttemptNos]
Steps == {"idle", "expire", "handle", "begin", "schedule", "create", "evaluate", "advance"}

TypeOK ==
    /\ docs \in [AttemptNos -> Documents \cup {None}]
    /\ stage \in {"interview_scheduled", "ai_interview_completed"}
    /\ tab \in Tokens \cup {None}
    /\ queue \in [AttemptNos -> Nat]
    /\ tries \in [Workers -> 0..MaxTries]
    /\ pc \in [Slots -> Steps]
    /\ call \in [Slots -> Calls \cup {None}]
    /\ local \in [Slots -> Documents \cup {None}]
    /\ stale \in [Slots -> BOOLEAN]
    /\ lost \subseteq AttemptNos \X {"report", "move"}

\* A session as createInterviewSessionIfNeeded and a reschedule create it.
NewSession ==
    [status |-> "scheduled", ai |-> "not_started", epoch |-> 0, valid |-> TRUE,
     started |-> FALSE, away |-> FALSE, answers |-> 0, scored |-> 0, covers |-> None]

Init ==
    /\ docs = [a \in AttemptNos |-> IF a = 1 THEN NewSession ELSE None]
    /\ stage = "interview_scheduled"
    /\ tab = None
    /\ queue = [a \in AttemptNos |-> 0]
    /\ tries = [w \in Workers |-> 0]
    /\ pc = [s \in Slots |-> "idle"]
    /\ call = [s \in Slots |-> None]
    /\ local = [s \in Slots |-> None]
    /\ stale = [s \in Slots |-> FALSE]
    /\ lost = {}

Issued == {a \in AttemptNos : docs[a] # None}

\* findLatestSession: the session of the highest attempt.
Latest == CHOOSE a \in Issued : \A b \in Issued : b <= a

At(s, step, kinds) == pc[s] = step /\ call[s].kind \in kinds

-----------------------------------------------------------------------------
(* Loading and saving                                                      *)

Load(s, kind, a, step) ==
    /\ pc' = [pc EXCEPT ![s] = step]
    /\ call' = [call EXCEPT ![s] = [kind |-> kind, at |-> a]]
    /\ local' = [local EXCEPT ![s] = docs[a]]
    /\ stale' = [stale EXCEPT ![s] = FALSE]

\* s is done with its copy, or goes on at step next with the copy kept.
Leave(s, next, kept) ==
    /\ pc' = [pc EXCEPT ![s] = next]
    /\ call' = IF next = "idle" THEN [call EXCEPT ![s] = None] ELSE call
    /\ local' = [local EXCEPT ![s] = kept]

Drop(s) == Leave(s, "idle", None) /\ stale' = [stale EXCEPT ![s] = FALSE] /\ UNCHANGED docs

\* Store d under the attempt s works on.
Save(s, d, bumps, next, kept) ==
    LET a == call[s].at
    IN  /\ docs' = [docs EXCEPT ![a] = d]
        /\ Leave(s, next, kept)
        /\ stale' = [q \in Slots |->
                        IF q = s THEN stale[s] /\ next # "idle"
                        ELSE stale[q] \/ (bumps /\ pc[q] # "idle" /\ call[q].at = a)]

Stored(s) == docs[call[s].at]

-----------------------------------------------------------------------------
(* The candidate                                                           *)

\* The emailed link, or the candidate's dashboard: openSessionForOwner.
Login(r, a) ==
    /\ pc[r] = "idle"
    /\ docs[a].status # "cancelled"
    /\ IF docs[a].valid
       THEN /\ tab' = [at |-> a, epoch |-> docs[a].epoch]
            /\ UNCHANGED <<pc, call, local, stale>>
       ELSE /\ docs[a].status # "expired"
            /\ Load(r, "begin", a, "expire")
            /\ UNCHANGED tab
    /\ UNCHANGED <<docs, stage, queue, tries, lost>>

\* requireCandidateAuth: the token's epoch, a cancelled session, the link's age.
\* What it turns away without a write is left out.
Authenticate(r, kind) ==
    /\ pc[r] = "idle" /\ kind \in Kinds \cap Portal
    /\ tab # None
    /\ docs[tab.at].epoch = tab.epoch
    /\ docs[tab.at].status # "cancelled"
    /\ docs[tab.at].valid \/ docs[tab.at].status # "expired"
    /\ Load(r, kind, tab.at, IF docs[tab.at].valid THEN "handle" ELSE "expire")
    /\ UNCHANGED <<docs, stage, tab, queue, tries, lost>>

\* Mutant of MarkExpired: the interview is marked, with the session's word for it.
MarkInterviewExpired(r) ==
    /\ pc[r] = "expire"
    /\ Save(r, [Stored(r) EXCEPT !.ai = "expired"], FALSE, "idle", None)
    /\ UNCHANGED <<stage, tab, queue, tries, lost>>

\* A link found expired is marked so, whatever the session's status was.
MarkExpired(r) ==
    /\ pc[r] = "expire"
    /\ Save(r, [Stored(r) EXCEPT !.status = "expired"], FALSE, "idle", None)
    /\ UNCHANGED <<stage, tab, queue, tries, lost>>

\* startInterview saves the session's own status first.
StartSession(r) ==
    /\ At(r, "handle", {"begin"})
    /\ IF local[r].status = "scheduled"
       THEN Save(r, [Stored(r) EXCEPT !.status = "in_progress", !.started = TRUE], FALSE, "begin",
                 [local[r] EXCEPT !.status = "in_progress", !.started = TRUE])
       ELSE Leave(r, "begin", local[r]) /\ UNCHANGED <<docs, stale>>
    /\ UNCHANGED <<stage, tab, queue, tries, lost>>

\* beginInterview on a swept interview: back in progress, evaluation cleared.
Reopen(r) ==
    /\ pc[r] = "begin" /\ local[r].ai = "abandoned"
    /\ Save(r, [Stored(r) EXCEPT !.ai = "in_progress", !.covers = None], FALSE, "idle", None)
    /\ UNCHANGED <<stage, tab, queue, tries, lost>>

\* beginInterview on a new one: the plan, the required questions and the opening
\* replace whole arrays, so of two starts one is refused.
Plan(r) ==
    /\ pc[r] = "begin" /\ local[r].ai = "not_started"
    /\ IF stale[r]
       THEN Drop(r)
       ELSE Save(r, [Stored(r) EXCEPT !.ai = "in_progress", !.started = TRUE], TRUE, "idle", None)
    /\ UNCHANGED <<stage, tab, queue, tries, lost>>

\* Anything else is resumed as it stands.
Resume(r) ==
    /\ pc[r] = "begin" /\ local[r].ai \notin {"abandoned", "not_started"}
    /\ Drop(r)
    /\ UNCHANGED <<stage, tab, queue, tries, lost>>

\* submitAnswer, handleDecline and handleNoResponse up to advance's save: one
\* turn is pushed, an answer to the instrument or not (gain), which the next
\* question's model call may have scored already (inline).  Delivering an
\* approved question or a probe also writes inside an array element, and then
\* the save is the guarded kind.
Answer(r) ==
    /\ At(r, "handle", {"answer"})
    /\ IF local[r].ai # "in_progress"
       THEN Drop(r)
       ELSE \E gain \in {0, 1}, inline \in {0, 1}, marks \in BOOLEAN :
                /\ inline <= gain
                /\ Stored(r).answers + gain <= MaxAnswers
                /\ IF marks /\ stale[r]
                   THEN Drop(r)
                   ELSE Save(r, [Stored(r) EXCEPT !.answers = @ + gain, !.scored = @ + inline],
                             ~marks, "idle", None)
    /\ UNCHANGED <<stage, tab, queue, tries, lost>>

\* An interview in progress is over as ai: every ending writes both statuses,
\* and schedules the finalization only after that save.
EndAs(r, ai, gain, bumps) ==
    /\ local[r].ai = "in_progress"
    /\ Save(r, [Stored(r) EXCEPT !.ai = ai, !.status = "completed", !.answers = @ + gain],
            bumps, "schedule", None)
    /\ UNCHANGED <<stage, tab, queue, tries, lost>>

\* deliverClosingOrComplete, after the last answer.
Complete(r) ==
    \E gain \in {0, 1} :
        /\ At(r, "handle", {"answer"})
        /\ Stored(r).answers + gain <= MaxAnswers
        /\ EndAs(r, "completed", gain, TRUE)

Withdraw(r) == At(r, "handle", {"withdraw"}) /\ EndAs(r, "ended_early", 0, TRUE)

Halt(r) == At(r, "handle", {"halt"}) /\ EndAs(r, "halted", 0, FALSE)

Terminate(r) == At(r, "handle", {"flags"}) /\ EndAs(r, "integrity_terminated", 0, FALSE)

\* Withdrawing, halting or flagging an interview that is not in progress.
NothingToEnd(r) ==
    /\ At(r, "handle", {"withdraw", "halt", "flags"})
    /\ local[r].ai # "in_progress"
    /\ Drop(r)
    /\ UNCHANGED <<stage, tab, queue, tries, lost>>

\* recordPresence, whatever the interview's status.
RecordPresence(r) ==
    /\ At(r, "handle", {"presence"})
    /\ \E left \in BOOLEAN : Save(r, [Stored(r) EXCEPT !.away = left], TRUE, "idle", None)
    /\ UNCHANGED <<stage, tab, queue, tries, lost>>

-----------------------------------------------------------------------------
(* The abandonment sweeps                                                  *)

\* Nobody has written the session for ten minutes or an hour: no handler on it
\* is in flight.
Quiet(a) == \A r \in Requests : pc[r] # "idle" => call[r].at # a

\* Mutant of SweepExpired: only sessions still marked in progress are found.
SweepExpiredMarked(r, a) ==
    /\ pc[r] = "idle" /\ "sweepExpired" \in Kinds
    /\ docs[a].ai = "in_progress" /\ docs[a].status = "in_progress" /\ ~docs[a].valid /\ Quiet(a)
    /\ Load(r, "sweepExpired", a, "handle")
    /\ UNCHANGED <<docs, stage, tab, queue, tries, lost>>

SweepExpired(r, a) ==
    /\ pc[r] = "idle" /\ "sweepExpired" \in Kinds
    /\ docs[a].ai = "in_progress" /\ ~docs[a].valid /\ Quiet(a)
    /\ Load(r, "sweepExpired", a, "handle")
    /\ UNCHANGED <<docs, stage, tab, queue, tries, lost>>

SweepAway(r, a) ==
    /\ pc[r] = "idle" /\ "sweepAway" \in Kinds
    /\ docs[a].ai = "in_progress" /\ docs[a].away /\ Quiet(a)
    /\ Load(r, "sweepAway", a, "handle")
    /\ UNCHANGED <<docs, stage, tab, queue, tries, lost>>

\* finalizeAbandoned decides on the copy the sweep's query returned.
Abandon(r) ==
    /\ At(r, "handle", Sweeps)
    /\ Save(r, [Stored(r) EXCEPT
                    !.ai = "abandoned",
                    !.status = IF local[r].status = "expired" THEN @ ELSE "expired",
                    !.valid = @ /\ ~local[r].valid],
            FALSE, "schedule", None)
    /\ UNCHANGED <<stage, tab, queue, tries, lost>>

-----------------------------------------------------------------------------
(* The recruiter, and the candidate asking for a fresh link                *)

\* The recruiter's verbs find the latest attempt; the dashboard names its own.
LoadRotation(r, kind, a) ==
    /\ pc[r] = "idle" /\ kind \in Kinds \cap Rotations
    /\ kind # "ownResend" => a = Latest
    /\ docs[a].epoch < MaxEpoch
    /\ kind \in Reschedules => a < MaxAttempts
    /\ Load(r, kind, a, "handle")
    /\ UNCHANGED <<docs, stage, tab, queue, tries, lost>>

HasProgress(d) == d.started \/ d.status = "in_progress" \/ d.ai = "in_progress"

\* A completed interview is final; a live one is not cut off unless forced.
Refused(d, kind) ==
    \/ d.status = "completed" \/ d.ai = "completed"
    \/ /\ d.status = "in_progress" \/ d.ai = "in_progress"
       /\ d.status # "expired" /\ d.valid
       /\ kind \notin {"forceResend", "forceReschedule"}

RefuseRotation(r) ==
    /\ At(r, "handle", Rotations)
    /\ Refused(local[r], call[r].kind)
    /\ Drop(r)
    /\ UNCHANGED <<stage, tab, queue, tries, lost>>

FreshStart(r) == call[r].kind \in Reschedules /\ HasProgress(local[r])

\* The same session on a new link: the transcript resumes.
Reissue(r) ==
    /\ At(r, "handle", Rotations)
    /\ ~Refused(local[r], call[r].kind) /\ ~FreshStart(r)
    /\ Save(r, [Stored(r) EXCEPT !.epoch = local[r].epoch + 1, !.valid = TRUE,
                    !.status = IF local[r].status = "scheduled" THEN @ ELSE "scheduled"],
            FALSE, "idle", None)
    /\ UNCHANGED <<stage, tab, queue, tries, lost>>

\* Mutant of Retire: only the portal tokens of the old attempt are killed.
RetireTokens(r) ==
    /\ At(r, "handle", Reschedules)
    /\ ~Refused(local[r], call[r].kind) /\ FreshStart(r)
    /\ Save(r, [Stored(r) EXCEPT !.epoch = local[r].epoch + 1], FALSE, "create", None)
    /\ UNCHANGED <<stage, tab, queue, tries, lost>>

\* A reschedule of an interview with progress retires it first.
Retire(r) ==
    /\ At(r, "handle", Reschedules)
    /\ ~Refused(local[r], call[r].kind) /\ FreshStart(r)
    /\ Save(r, [Stored(r) EXCEPT !.epoch = local[r].epoch + 1, !.valid = FALSE,
                    !.status = IF local[r].status = "cancelled" THEN @ ELSE "cancelled"],
            FALSE, "create", None)
    /\ UNCHANGED <<stage, tab, queue, tries, lost>>

\* Then the next attempt is created; (candidate, attempt) is a unique index.
CreateAttempt(r) ==
    /\ pc[r] = "create"
    /\ Leave(r, "idle", None)
    /\ docs' = IF docs[call[r].at + 1] = None
               THEN [docs EXCEPT ![call[r].at + 1] = NewSession]
               ELSE docs
    /\ UNCHANGED <<stage, tab, queue, tries, stale, lost>>

-----------------------------------------------------------------------------
(* Finalization                                                            *)

\* scheduleFinalization: the job is on the queue.
Schedule(r) ==
    /\ pc[r] = "schedule"
    /\ queue' = [queue EXCEPT ![call[r].at] = @ + 1]
    /\ Leave(r, "idle", None)
    /\ UNCHANGED <<docs, stage, tab, tries, stale, lost>>

\* The process dies before it schedules, or the queue refuses the job, which
\* is only logged.
FailToSchedule(r) ==
    /\ pc[r] = "schedule"
    /\ lost' = lost \cup {<<call[r].at, "report">>}
    /\ Leave(r, "idle", None)
    /\ UNCHANGED <<docs, stage, tab, queue, tries, stale>>

\* runFinalization loads the session and stops if it has an evaluation.
TakeJob(w, a) ==
    /\ pc[w] = "idle" /\ queue[a] > 0
    /\ queue' = [queue EXCEPT ![a] = @ - 1]
    /\ IF docs[a].covers = None
       THEN Load(w, "finalize", a, "evaluate") /\ tries' = [tries EXCEPT ![w] = 1]
       ELSE UNCHANGED <<pc, call, local, stale, tries>>
    /\ UNCHANGED <<docs, stage, tab, lost>>

\* The job ran into a version conflict or died with its process: it starts
\* again from the load, MaxTries times in all.
Retry(w) ==
    /\ IF Stored(w).covers = None /\ tries[w] < MaxTries
       THEN /\ local' = [local EXCEPT ![w] = Stored(w)]
            /\ stale' = [stale EXCEPT ![w] = FALSE]
            /\ tries' = [tries EXCEPT ![w] = @ + 1]
            /\ UNCHANGED <<docs, pc, call, lost>>
       ELSE /\ Drop(w)
            /\ tries' = [tries EXCEPT ![w] = 0]
            /\ lost' = IF Stored(w).covers = None THEN lost \cup {<<call[w].at, "report">>} ELSE lost
    /\ UNCHANGED <<stage, tab, queue>>

\* Store the evaluation of the answers on the copy, and their scores.
StoreEvaluation(w, scored) ==
    /\ Save(w, [Stored(w) EXCEPT !.covers = local[w].answers, !.scored = scored],
            FALSE, "advance", None)
    /\ UNCHANGED <<stage, tab, queue, tries, lost>>

\* scoreUnscoredAnswers and makeEvaluation take minutes.  Some answer may be
\* scored now; that writes inside the turns, so the save is the guarded kind.
Evaluate(w) ==
    /\ pc[w] = "evaluate"
    /\ \E some \in BOOLEAN :
            /\ some => local[w].scored < local[w].answers
            /\ IF some /\ stale[w]
               THEN Retry(w)
               ELSE StoreEvaluation(w, IF some THEN local[w].answers ELSE Stored(w).scored)

\* The candidate moves on, if still waiting for this interview.
Advance(w) ==
    /\ pc[w] = "advance"
    /\ stage' = "ai_interview_completed"
    /\ Drop(w)
    /\ tries' = [tries EXCEPT ![w] = 0]
    /\ UNCHANGED <<tab, queue, lost>>

\* The worker dies and its job is delivered again; once the evaluation is
\* stored, the second run stops at it.
Die(w) ==
    \/ pc[w] = "evaluate" /\ Retry(w)
    \/ /\ pc[w] = "advance"
       /\ lost' = lost \cup {<<call[w].at, "move">>}
       /\ Drop(w)
       /\ tries' = [tries EXCEPT ![w] = 0]
       /\ UNCHANGED <<stage, tab, queue>>

-----------------------------------------------------------------------------

\* Time runs out for a link.
Lapse(a) ==
    /\ docs[a].valid
    /\ docs' = [docs EXCEPT ![a].valid = FALSE]
    /\ UNCHANGED <<stage, tab, queue, tries, pc, call, local, stale, lost>>

Arrive(r) ==
    \/ \E kind \in Portal : Authenticate(r, kind)
    \/ \E a \in Issued :
        \/ Login(r, a) \/ SweepExpired(r, a) \/ SweepAway(r, a)
        \/ \E kind \in Rotations : LoadRotation(r, kind, a)

Proceed(r) ==
    \/ MarkExpired(r) \/ StartSession(r) \/ Reopen(r) \/ Plan(r) \/ Resume(r)
    \/ Answer(r) \/ Complete(r) \/ Withdraw(r) \/ Halt(r) \/ Terminate(r) \/ NothingToEnd(r)
    \/ RecordPresence(r) \/ Abandon(r) \/ RefuseRotation(r) \/ Reissue(r) \/ Retire(r)
    \/ CreateAttempt(r) \/ Schedule(r) \/ FailToSchedule(r)

Work(w) == (\E a \in AttemptNos : TakeJob(w, a)) \/ Evaluate(w) \/ Advance(w)

Next ==
    \/ \E r \in Requests : Arrive(r) \/ Proceed(r)
    \/ \E w \in Workers : Work(w) \/ Die(w)
    \/ \E a \in Issued : Lapse(a)

Spec == Init /\ [][Next]_vars

\* Handlers in flight run on, workers take jobs, and the sweep, a cron run of
\* its own, gets its turn however busy the slots are.
Fairness ==
    /\ \A r \in Requests : WF_vars(Proceed(r))
    /\ \A w \in Workers : WF_vars(Work(w))
    /\ SF_vars(\E r \in Requests, a \in Issued : SweepExpired(r, a))

FairSpec == Spec /\ Fairness

-----------------------------------------------------------------------------

Enterable(d) == d.valid /\ d.status # "cancelled"

\* Rescheduling hands the candidate a clean sitting: once attempt n + 1 exists
\* no earlier attempt can be entered again, though resendOrRescheduleInterview
\* retires it in one save and creates its successor in another, and the sweep
\* later overwrites the "cancelled" it was retired with.
OnlyLatestIsOpen == \A a, b \in Issued : a < b => ~Enterable(docs[a])

\* No step opens a retired attempt, and "a completed interview is final - never
\* re-issue a link for it, forced or not", even after the portal marked the
\* completed session expired.  The candidate's own resend breaks the first:
\* README.md, section 5.
AttemptsAreFinal ==
    [][/\ OnlyLatestIsOpen'
       /\ \A a \in Issued : docs[a].ai = "completed" => docs'[a].epoch = docs[a].epoch]_vars

Running == {a \in Issued : docs[a].ai = "in_progress"}
Over == {a \in Issued : docs[a].ai \in Ended}
Evaluated == {a \in Issued : docs[a].covers # None}
Stranded == {a \in Running : ~docs[a].valid}

\* "A deploy or crash mid-finalization no longer loses the report": an ended
\* interview is evaluated, or reopened, unless its job never reached the queue
\* or failed every try.
EndedIsEvaluated ==
    \A a \in AttemptNos : a \in Over ~> (a \in Evaluated \cup Running \/ <<a, "report">> \in lost)

\* An evaluated interview moves the candidate on, unless the worker died
\* between the two saves.
EvaluatedMovesOn ==
    \A a \in AttemptNos :
        a \in Evaluated ~> (stage # "interview_scheduled" \/ <<a, "move">> \in lost)

\* An interview in progress on a dead link does not "rot at in_progress"
\* (sweepAbandoned): it is closed, or the link is issued again.
LapsedIsClosed == \A a \in AttemptNos : a \in Stranded ~> a \notin Stranded

\* Once an interview ended and all finalization is done, its evaluation covers
\* every answer: clearing the snapshot of a swept run is what "lets
\* runFinalization run again at the real end" (beginInterview).
ReportIsComplete ==
    \A a \in Issued :
        (/\ docs[a].ai \in Ended /\ queue[a] = 0 /\ <<a, "report">> \notin lost
         /\ \A s \in Slots : pc[s] # "idle" => call[s].at # a)
        => docs[a].covers = docs[a].answers

=============================================================================
