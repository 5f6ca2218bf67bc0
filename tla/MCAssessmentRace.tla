--------------------------- MODULE MCAssessmentRace ---------------------------
(* AssessmentSession with requests that overlap at every await, in two instances
   a behaviour chooses from: the candidate's work and what may score it, whose
   constants the configuration gives, and a session that is paused, resumed,
   resent and cancelled while the candidate's requests are under way.         *)
EXTENDS MCAssessmentSession

VARIABLE part   \* the instance this behaviour is of

Handled == INSTANCE AssessmentSession WITH Kinds <- HandlingKinds, Validity <- 0, SoftLock <- "pause", MaxTime <- 1

all == <<part, vars>>

RaceInit ==
    \/ part = "working" /\ Init
    \/ part = "handled" /\ Handled!Init

RaceNext ==
    /\ UNCHANGED part
    /\ \/ part = "working" /\ Next
       \/ part = "handled" /\ Handled!Next

RaceSpec == RaceInit /\ [][RaceNext]_all

=============================================================================
