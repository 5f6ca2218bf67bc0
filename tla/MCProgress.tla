----------------------------- MODULE MCProgress -----------------------------
(* What must happen in the end, under the fairness of queues, crons and the
   event loop: the filling of a job, billing and the publishing of a job, one at
   a time.  The registers hold the variables of the part that is taken.       *)
EXTENDS Integers

CONSTANT None

VARIABLES part, v1, v2, v3, v4, v5, v6, v7, v8, v9, v10, v11

registers == <<v1, v2, v3, v4, v5, v6, v7, v8, v9, v10, v11>>
all == <<part, registers>>

(* A job of one opening and one application, with two requests that overlap at
   every await and do not die.                                                *)
Filling == INSTANCE JobCapacity WITH
    Requests <- {"r1", "r2"}, Candidates <- {"a"}, MaxOpenings <- 1, MaxTerms <- 1, Kinds <- {"move", "publish"},
    Failures <- FALSE, job <- v1, cand <- v2, req <- v3, term <- v4, announced <- v5

(* One order, paid by a browser and reported by webhooks, two workers that may
   die, and the subscription it buys.                                         *)
Bill == INSTANCE Billing WITH
    Orders <- {"o1"}, NoOrder <- None, Workers <- {"w1", "w2"}, Period <- 1, Grace <- 0, Window <- 1, LastDay <- 2, MaxFaults <- 1,
    payment <- v1, captured <- v2, reports <- v3, invoices <- v4, company <- v5, subscription <- v6, day <- v7,
    reminded <- v8, work <- v9, faults <- v10, waived <- v11

(* One board, one queue worker, a fault, and a job closed and opened again.   *)
Board == INSTANCE Publishing WITH
    Boards <- {"b1"}, Workers <- {"w1"}, MaxAttempts <- 2, Threshold <- 1, MaxFaults <- 1, MaxEdits <- 2,
    job <- v1, edits <- v2, rows <- v3, listings <- v4, asked <- v5, closing <- v6, queue <- v7, worker <- v8,
    breaker <- v9, faults <- v10

Rest == <<v6, v7, v8, v9, v10, v11>>

Init ==
    \/ part = "filling" /\ Filling!Init /\ v6 = 0 /\ v7 = 0 /\ v8 = 0 /\ v9 = 0 /\ v10 = 0 /\ v11 = 0
    \/ part = "billing" /\ Bill!Init
    \/ part = "publishing" /\ Board!Init /\ v11 = 0

Step(p, A) == part = p /\ A /\ UNCHANGED part

Next ==
    \/ Step("filling", Filling!Next /\ UNCHANGED Rest)
    \/ Step("billing", Bill!Next)
    \/ Step("publishing", Board!Next /\ UNCHANGED v11)

(* The fairness of each part, as its module states it.  A behaviour is of one
   part, so fairness of a disjunction over the parts is fairness of each.     *)
First ==
    \/ Step("filling", Filling!Proceed("r1") /\ UNCHANGED Rest)
    \/ Step("billing", Bill!Handle("w1"))
    \/ Step("publishing", (Board!BoardAnswers("w1") \/ Board!CircuitOpen("w1") \/ Board!SaveRow("w1")) /\ UNCHANGED v11)
Second ==
    \/ Step("filling", Filling!Proceed("r2") /\ UNCHANGED Rest)
    \/ Step("billing", Bill!Handle("w2"))
    \/ Step("publishing", Board!Dispatch("b1") /\ UNCHANGED v11)
Again ==
    \/ Step("billing", \E w \in {"w1", "w2"} : Bill!Webhook(w, "o1"))
    \/ Step("publishing", Board!Reconcile("b1") /\ UNCHANGED v11)
CoolOff == Step("publishing", Board!CoolOff("b1") /\ UNCHANGED v11)
Served == Step("publishing", \E t \in v7 : t.action = "withdraw" /\ Board!Take("w1", t) /\ UNCHANGED v11)

Fairness ==
    WF_all(First) /\ WF_all(Second) /\ SF_all(Again) /\ SF_all(CoolOff) /\ SF_all(Served)

Spec == Init /\ [][Next]_all /\ Fairness

-----------------------------------------------------------------------------
(* Each time a job fills up, boards are withdrawn and the recruiter is told,
   whichever of the overlapping reconciles closed it (jobCapacityService.js). *)
FillingIsAnnounced ==
    \A t \in 1 .. 1 :
        (part = "filling" /\ \E r \in {"r1", "r2"} : v3[r].closing = t) ~> (part = "filling" /\ v5[t] = 1)

(* An invoice stands only for a charge, and no cron overlap reminds a company
   twice in a day (paymentController.js, subscriptionExpiryJob.js).           *)
BillingIsExact ==
    /\ part = "billing" => Bill!TypeOK /\ Bill!BillingIsExact
    /\ part = "publishing" => Board!TypeOK

(* However the browser's answer and the gateway's reports overlap, and wherever
   a handler dies, a charge ends in an invoice and an open company
   (paymentController.js, workspaceProvisioningService.js).                   *)
ChargeOpensWorkspace ==
    (part = "billing" /\ "o1" \in v2) ~> (part = "billing" /\ "o1" \in v4 /\ v5 # "pending_payment")

(* A row that says a closed job is published does not say so for good: whatever
   was late, failed, retried or cut off by a crash, the night's reconcile finds
   it (jobPublishService.js).                                                 *)
ClosedJobsComeDown ==
    (part = "publishing" /\ v3["b1"].status = "published" /\ v1 = "closed")
        ~> (part = "publishing" /\ (v3["b1"].status # "published" \/ v1 = "published"))

=============================================================================
