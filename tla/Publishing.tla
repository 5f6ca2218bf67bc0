------------------------------ MODULE Publishing -----------------------------
(* One job on its boards: services/jobPublishService.js with the queue worker,
   the drivers, the nightly reconcile and the job handlers that start it.  A
   worker reads the row, calls the board and saves the fields it changed; the
   queue delivers a failed publication again, after whatever came meanwhile. *)
EXTENDS Integers, FiniteSets

CONSTANTS Boards, Workers,
          MaxAttempts,  \* MAX_ATTEMPTS of the queue
          Threshold,    \* BREAKER_THRESHOLD
          MaxFaults,    \* bound on board errors and worker crashes
          MaxEdits      \* bound on closings and reopenings of the job

VARIABLES job,       \* Job.status: "published" or not ("closed", or deleted)
          edits,
          rows,      \* PublishedJob: status and externalRef of each board
          listings,  \* the live listings of each board
          asked,     \* boards a request has validated and not yet upserted
          closing,   \* withdrawAllForJob is under way
          queue,     \* job-publish: the actions waiting
          worker,    \* the action each worker holds, with its copy of the row
          breaker,   \* consecutive failures of each board
          faults

vars == <<job, edits, rows, listings, asked, closing, queue, worker, breaker, faults>>

PublishedJob == [status : {"none", "pending", "published", "failed", "expired", "withdrawn"}, ref : BOOLEAN]
Action == [board : Boards, action : {"publish", "withdraw", "sync"}, left : 1 .. MaxAttempts]
Idle == [at |-> "idle"]
Row(s, r) == [status |-> s, ref |-> r]

TypeOK ==
    /\ job \in {"published", "closed"} /\ edits \in 0 .. MaxEdits
    /\ rows \in [Boards -> PublishedJob] /\ listings \in [Boards -> Nat]
    /\ asked \subseteq Boards /\ closing \in BOOLEAN
    /\ queue \subseteq Action
    /\ \A w \in Workers : worker[w] = Idle \/ worker[w].task \in Action
    /\ breaker \in [Boards -> 0 .. Threshold] /\ faults \in 0 .. MaxFaults

Init ==
    /\ job = "published" /\ edits = 0
    /\ rows = [b \in Boards |-> Row("none", FALSE)]
    /\ listings = [b \in Boards |-> 0]
    /\ asked = {} /\ closing = FALSE /\ queue = {}
    /\ worker = [w \in Workers |-> Idle]
    /\ breaker = [b \in Boards |-> 0] /\ faults = 0

Task(b, a) == [board |-> b, action |-> a, left |-> IF a = "publish" THEN MaxAttempts ELSE 1]
Outside == <<listings, worker, breaker, faults>>

-----------------------------------------------------------------------------
(* publishBoards reads a published job, publishToBoards upserts its row and
   dispatches; the job may close between the two.                            *)
PublishBoards(b) ==
    /\ job = "published" /\ asked' = asked \cup {b}
    /\ UNCHANGED <<job, edits, rows, closing, queue, Outside>>

Dispatch(b) ==
    /\ b \in asked /\ asked' = asked \ {b}
    /\ rows' = [rows EXCEPT ![b].status = "pending"]
    /\ queue' = queue \cup {Task(b, "publish")}
    /\ UNCHANGED <<job, edits, closing, Outside>>

(* updateJob, and the job filling up, withdraw it from every board; deleteJob
   throws before it comes to that, and publishJob only saves.                *)
CloseJob ==
    /\ job = "published" /\ edits < MaxEdits
    /\ job' = "closed" /\ edits' = edits + 1
    /\ closing' \in {closing, TRUE}
    /\ UNCHANGED <<rows, asked, queue, Outside>>

ReopenJob ==
    /\ job = "closed" /\ edits < MaxEdits
    /\ job' = "published" /\ edits' = edits + 1
    /\ UNCHANGED <<rows, asked, closing, queue, Outside>>

WithdrawAll ==
    /\ closing /\ closing' = FALSE
    /\ queue' = queue \cup {Task(b, "withdraw") : b \in {c \in Boards : rows[c].status \in {"pending", "published", "failed"}}}
    /\ UNCHANGED <<job, edits, rows, asked, Outside>>

(* withdrawBoard: the recruiter takes one listing down.                      *)
WithdrawBoard(b) ==
    /\ rows[b].status # "none"
    /\ queue' = queue \cup {Task(b, "withdraw")}
    /\ UNCHANGED <<job, edits, rows, asked, closing, Outside>>

-----------------------------------------------------------------------------
(* processPublication                                                        *)
Take(w, t) ==
    /\ worker[w] = Idle /\ t \in queue
    /\ queue' = queue \ {t}
    /\ worker' = [worker EXCEPT ![w] = [at |-> "call", task |-> t, copy |-> rows[t.board]]]
    /\ UNCHANGED <<job, edits, rows, asked, closing, listings, breaker, faults>>

Called(w, ok, status, ref) ==
    worker' = [worker EXCEPT ![w] = [at |-> "save", task |-> @.task, copy |-> @.copy,
                                     new |-> Row(status, ref), ok |-> ok]]

(* The board answers: it lists the job, or updates the listing it is told of;
   it takes down a listing only if it is told which.                         *)
BoardAnswers(w) ==
    LET t == worker[w].task  old == worker[w].copy IN
    /\ worker[w].at = "call" /\ breaker[t.board] < Threshold
    /\ \/ /\ t.action = "publish"
          /\ listings' = [listings EXCEPT ![t.board] = IF old.ref THEN @ ELSE @ + 1]
          /\ Called(w, TRUE, "published", TRUE)
       \/ /\ t.action = "withdraw"
          /\ listings' = [listings EXCEPT ![t.board] = IF old.ref THEN 0 ELSE @]
          /\ Called(w, TRUE, "withdrawn", old.ref)
       \/ /\ t.action = "sync" /\ old.ref
          /\ \E out \in {"published", "expired", "withdrawn"} :
                Called(w, TRUE, IF old.status = "withdrawn" THEN old.status ELSE out, TRUE)
          /\ UNCHANGED listings
       \/ /\ t.action = "sync" /\ ~old.ref
          /\ Called(w, TRUE, old.status, FALSE) /\ UNCHANGED listings
    /\ breaker' = [breaker EXCEPT ![t.board] = 0]
    /\ UNCHANGED <<job, edits, rows, asked, closing, queue, faults>>

Failed(w) == Called(w, FALSE, IF worker[w].task.action = "publish" THEN "failed" ELSE worker[w].copy.status,
                    worker[w].copy.ref)

BoardFails(w) ==
    /\ worker[w].at = "call" /\ breaker[worker[w].task.board] < Threshold
    /\ faults < MaxFaults /\ faults' = faults + 1
    /\ breaker' = [breaker EXCEPT ![worker[w].task.board] = @ + 1]
    /\ Failed(w)
    /\ UNCHANGED <<job, edits, rows, asked, closing, queue, listings>>

(* breakerOpen: a board that keeps failing is not called until it cools off. *)
CircuitOpen(w) ==
    /\ worker[w].at = "call" /\ breaker[worker[w].task.board] = Threshold
    /\ Failed(w)
    /\ UNCHANGED <<job, edits, rows, asked, closing, queue, listings, breaker, faults>>

CoolOff(b) ==
    /\ breaker[b] = Threshold /\ breaker' = [breaker EXCEPT ![b] = 0]
    /\ UNCHANGED <<job, edits, rows, asked, closing, queue, listings, worker, faults>>

(* row.save() writes what changed since it was read; a failed publication
   fails the queue's job, which comes back until its attempts are used up.   *)
SaveRow(w) ==
    LET t == worker[w].task  old == worker[w].copy  new == worker[w].new IN
    /\ worker[w].at = "save"
    /\ rows' = [rows EXCEPT ![t.board] = Row(IF new.status # old.status THEN new.status ELSE @.status,
                                             IF new.ref # old.ref THEN new.ref ELSE @.ref)]
    /\ queue' = IF ~worker[w].ok /\ t.action = "publish" /\ t.left > 1
                THEN queue \cup {[t EXCEPT !.left = @ - 1]} ELSE queue
    /\ worker' = [worker EXCEPT ![w] = Idle]
    /\ UNCHANGED <<job, edits, asked, closing, listings, breaker, faults>>

(* A worker that dies lets go of its job, which the queue hands out again.   *)
Crash(w) ==
    /\ worker[w] # Idle /\ faults < MaxFaults
    /\ faults' = faults + 1
    /\ queue' = queue \cup {worker[w].task}
    /\ worker' = [worker EXCEPT ![w] = Idle]
    /\ UNCHANGED <<job, edits, rows, asked, closing, listings, breaker>>

-----------------------------------------------------------------------------
\* As if the reconcile left the jobs that are not public to their closing.
ReconcilePublic(b) ==
    /\ rows[b].status = "published" /\ job = "published"
    /\ queue' = queue \cup {Task(b, "sync")}
    /\ UNCHANGED <<job, edits, rows, asked, closing, Outside>>

(* reconcileAll, once a night: a listing whose job is not public comes down,
   one past validThrough expires, any other is compared with its board.      *)
Reconcile(b) ==
    /\ rows[b].status = "published"
    /\ \/ /\ queue' = queue \cup {Task(b, IF job # "published" THEN "withdraw" ELSE "sync")}
          /\ UNCHANGED rows
       \/ /\ job = "published" /\ rows' = [rows EXCEPT ![b].status = "expired"]
          /\ UNCHANGED queue
    /\ UNCHANGED <<job, edits, asked, closing, Outside>>

Work(w) == (\E t \in queue : Take(w, t)) \/ BoardAnswers(w) \/ CircuitOpen(w) \/ SaveRow(w)

Next ==
    \/ \E b \in Boards : PublishBoards(b) \/ Dispatch(b) \/ WithdrawBoard(b) \/ Reconcile(b) \/ CoolOff(b)
    \/ CloseJob \/ ReopenJob \/ WithdrawAll
    \/ \E w \in Workers : Work(w) \/ BoardFails(w) \/ Crash(w)

(* Fairness: queues are served, nights come, a breaker cools off in minutes. *)
Fairness == /\ \A w \in Workers : WF_vars(BoardAnswers(w) \/ CircuitOpen(w) \/ SaveRow(w))
            /\ \A b \in Boards, a \in {"publish", "withdraw", "sync"} :
                  SF_vars(\E w \in Workers, t \in queue : t.board = b /\ t.action = a /\ Take(w, t))
            /\ \A b \in Boards : WF_vars(Dispatch(b)) /\ SF_vars(Reconcile(b)) /\ SF_vars(CoolOff(b))

Spec == Init /\ [][Next]_vars /\ Fairness

(* A row that says a closed job is published does not say so for good:
   whatever publication was late, failed, retried or cut off by a crash, the
   night's reconcile finds it (jobPublishService.js:217-226).                *)
ClosedJobsComeDown ==
    \A b \in Boards : (rows[b].status = "published" /\ job = "closed")
                      ~> (rows[b].status # "published" \/ job = "published")
=============================================================================
