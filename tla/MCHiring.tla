------------------------------ MODULE MCHiring ------------------------------
(* HiringPipeline with one request at a time, in two instances a behaviour
   chooses from: one of every move and no failure, whose constants the
   configuration gives, and one in which any handler may die at any await, with
   a recruiter's gate and edits of the interview queue.                      *)
EXTENDS MCHiringPipeline

VARIABLE part   \* the instance this behaviour is of

Failing == INSTANCE HiringPipeline WITH Kinds <- AllKinds, Targets <- HireTargets, Policy <- GatedPolicy, Failures <- TRUE

all == <<part, vars>>

HiringInit ==
    \/ part = "serial" /\ Init
    \/ part = "failing" /\ Failing!Init

HiringNext ==
    /\ UNCHANGED part
    /\ \/ part = "serial" /\ Next
       \/ part = "failing" /\ Failing!Next

HiringSpec == HiringInit /\ [][HiringNext]_all

-----------------------------------------------------------------------------
(* Every satellite follows the stage while no handler dies (pipelineService.js,
   atsService.js, reviewQueueController.js).                                 *)
SatellitesFollow == part = "serial" => SatellitesCohere

=============================================================================
