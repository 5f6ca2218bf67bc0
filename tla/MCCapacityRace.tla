---------------------------- MODULE MCCapacityRace ----------------------------
(* JobCapacity with requests that overlap at every await, in two instances a
   behaviour chooses from: every operation while no handler dies, whose
   constants the configuration gives, and handlers that may die at any await
   while no recruiter edits the job.                                          *)
EXTENDS MCJobCapacity

VARIABLE part   \* the instance this behaviour is of

Dying == INSTANCE JobCapacity WITH Kinds <- AllKinds \ {"edit"}, Failures <- TRUE

all == <<part, vars>>

RaceInit == part \in {"overlapping", "dying"} /\ Init

RaceNext ==
    /\ UNCHANGED part
    /\ \/ part = "overlapping" /\ Next
       \/ part = "dying" /\ Dying!Next

RaceSpec == RaceInit /\ [][RaceNext]_all

=============================================================================
