-------------------------- MODULE MCInterviewEndings --------------------------
(* InterviewSession with its fairness, in two instances a behaviour chooses
   from: one attempt that ends in every way it can, whose operations the
   configuration gives, and an attempt that is retired for another.           *)
EXTENDS InterviewSession

CONSTANT Parts   \* the instances this run takes

VARIABLE part    \* the instance this behaviour is of

\* One attempt, every way it can end or be reopened.
EndingKinds == AllKinds \ (Reschedules \cup {"ownResend"})

\* The overlaps README.md names: a reopened interview, a retired attempt, two
\* handlers at once.
ReopenKinds == {"begin", "answer", "presence", "resend", "sweepAway"}
RetiredKinds == {"begin", "forceReschedule", "ownResend"}
OverlapKinds == {"begin", "answer", "resend", "forceReschedule"}

Retiring == INSTANCE InterviewSession WITH Kinds <- {"begin", "resend", "reschedule", "forceReschedule", "sweepExpired"}

all == <<part, vars>>

EndingsInit == part \in Parts /\ Init

Of(p, A) == part = p /\ A /\ UNCHANGED part

EndingsNext == Of("endings", Next) \/ Of("retiring", Retiring!Next)

(* The fairness of InterviewSession, for either instance.                     *)
EndingsFairness ==
    /\ \A r \in Requests : WF_all(Of("endings", Proceed(r)) \/ Of("retiring", Retiring!Proceed(r)))
    /\ \A w \in Workers : WF_all(Of("endings", Work(w)) \/ Of("retiring", Retiring!Work(w)))
    /\ SF_all(\E r \in Requests, a \in Issued :
                  Of("endings", SweepExpired(r, a)) \/ Of("retiring", Retiring!SweepExpired(r, a)))

EndingsSpec == EndingsInit /\ [][EndingsNext]_all /\ EndingsFairness

-----------------------------------------------------------------------------
(* An interview on a dead link is closed, every interview that ended is
   evaluated, and every evaluation moves its candidate on, though the worker
   dies, the queue refuses and a recruiter retires the attempt: under the
   fairness of cron and queue (sweepAbandoned, scheduleFinalization,
   runFinalization).                                                         *)
EndingIsReported == EndedIsEvaluated /\ EvaluatedMovesOn /\ LapsedIsClosed

=============================================================================
