------------------------- MODULE MCAssessmentSerial -------------------------
(* AssessmentSession with one request at a time, in two instances a behaviour
   chooses from: the candidate's, with a longer paper and clock, whose constants
   the configuration gives, and the recruiter's, with every operation, stage
   moves and handlers that die half-way.                                      *)
EXTENDS MCAssessmentSession

VARIABLE part   \* the instance this behaviour is of

Managed == INSTANCE AssessmentSession WITH
    Items <- OneItem, SectionOf <- OneSectionOf,
    Kinds <- AllKinds, Targets <- {"rejected"}, Validity <- 1, StartWindow <- 1,
    AutoResume <- 1, SoftLock <- "pause", Threshold <- 1, Failures <- TRUE, MaxTime <- 4, MaxResponses <- 2

Sitting == part = "candidate"
all == <<part, vars>>

SerialInit ==
    \/ part = "candidate" /\ Init
    \/ part = "recruiter" /\ Managed!Init

SerialNext ==
    /\ UNCHANGED part
    /\ \/ Sitting /\ Next
       \/ part = "recruiter" /\ Managed!Next

(* The fairness of AssessmentSession, for the candidate's instance.           *)
SerialFairness ==
    /\ WF_all(Sitting /\ UNCHANGED part /\ Tick)
    /\ \A r \in Requests : WF_all(Sitting /\ UNCHANGED part /\ Proceed(r))
    /\ SF_all(Sitting /\ UNCHANGED part /\ \E r \in Requests : LoadExpire(r))

SerialSpec == SerialInit /\ [][SerialNext]_all /\ SerialFairness

-----------------------------------------------------------------------------
(* Without a recruiter the clock of a running section is exactly the time the
   candidate could work in it.  What was begun ends scored, a soft-lock pause
   ends, and a completed session moves its candidate on, under the fairness of
   the clock and of the cron.                                                 *)
SittingRunsItsCourse ==
    /\ [](Sitting => SectionClockIsExact)
    /\ (Sitting /\ doc.started) ~> doc.status \in {"completed", "cancelled"}
    /\ (Sitting /\ doc.status = "paused") ~> doc.status # "paused"
    /\ (Sitting /\ doc.status = "completed") ~> stage \notin {"assessment_scheduled", "assessment_completed"}

=============================================================================
