-------------------------------- MODULE Mail --------------------------------
(* Mail on its way out: the reminder jobs, which claim before they send, an
   interviewer's scorecard link, dispatchEmail with its log, and the two ways a
   mail leaves - the queue's worker with its retries, or inline without Redis.
   The provider and the database may fail, and either process may die.       *)
EXTENDS Integers, FiniteSets

CONSTANTS Sweeps,      \* instances running the reminder job
          QueueTries, InlineTries,   \* attempts: 3, and sendInline's 2
          MaxMails,    \* bound on the mails ever logged
          MaxFaults    \* bound on lost writes and dead processes together

VARIABLES queued,      \* REDIS_URL is set, so mails go through the queue
          flag,        \* reminder24hSent
          sweep,       \* where each instance of the job is, and its mail
          log,         \* EmailLog: status and attempts of each mail logged
          job,         \* the queue's job for each mail
          copies,      \* times the provider took each mail
          owned,       \* the mails logged with a company
          alerts,      \* the mails whose failure its admins were told of
          claims, giveBacks, faults, crashes

vars == <<queued, flag, sweep, log, job, copies, owned, alerts, claims, giveBacks, faults, crashes>>

Mails == 1 .. MaxMails
Tries == QueueTries + MaxFaults
EmailLog == [status : {"none", "queued", "sent", "retrying", "failed"}, attempts : 0 .. Tries]
NoJob == [at |-> "none", made |-> 0]
Idle == [at |-> "idle", mail |-> 0, try |-> 0]
Logged == {x \in Mails : log[x].status # "none"}

TypeOK ==
    /\ queued \in BOOLEAN /\ flag \in BOOLEAN /\ owned \subseteq Mails /\ alerts \subseteq owned
    /\ \A s \in Sweeps : sweep[s].at \in {"idle", "found", "claimed", "logged", "send", "sent", "failed"}
                         /\ sweep[s].mail \in 0 .. MaxMails /\ sweep[s].try \in 0 .. InlineTries
    /\ log \in [Mails -> EmailLog]
    /\ \A x \in Mails : job[x].at \in {"none", "waiting", "active", "taken", "failing", "done"}
                        /\ job[x].made \in 0 .. QueueTries
    /\ copies \in [Mails -> 0 .. Tries]
    /\ claims \in 0 .. MaxMails /\ giveBacks \in 0 .. MaxFaults
    /\ faults \in 0 .. MaxFaults /\ crashes \subseteq Mails

Init ==
    /\ queued \in BOOLEAN /\ owned = {} /\ alerts = {}
    /\ flag = FALSE /\ sweep = [s \in Sweeps |-> Idle]
    /\ log = [x \in Mails |-> [status |-> "none", attempts |-> 0]]
    /\ job = [x \in Mails |-> NoJob] /\ copies = [x \in Mails |-> 0]
    /\ claims = 0 /\ giveBacks = 0 /\ faults = 0 /\ crashes = {}

At(s, where) == sweep' = [sweep EXCEPT ![s].at = where]
Status(x, status, attempts) == log' = [log EXCEPT ![x] = [status |-> status, attempts |-> attempts]]
Fault == faults < MaxFaults /\ faults' = faults + 1
Mailing == <<log, job, copies, owned, alerts>>
Reminding == <<queued, flag, claims, giveBacks>>

-----------------------------------------------------------------------------
(* sendDueReminders: the sessions due are listed, then each is claimed by the
   update that finds its flag still down; a claim comes with a notification. *)
Find(s) ==
    /\ sweep[s] = Idle /\ ~flag /\ claims < MaxMails
    /\ At(s, "found")
    /\ UNCHANGED <<Mailing, Reminding, faults, crashes>>

\* As if the job sent what it had listed without claiming it.
ClaimListed(s) ==
    /\ sweep[s].at = "found" /\ claims < MaxMails
    /\ flag' = TRUE /\ claims' = claims + 1 /\ At(s, "claimed")
    /\ UNCHANGED <<queued, Mailing, giveBacks, faults, crashes>>

Claim(s) ==
    /\ sweep[s].at = "found"
    /\ IF flag \/ claims = MaxMails
       THEN At(s, "idle") /\ UNCHANGED <<flag, claims>>
       ELSE flag' = TRUE /\ claims' = claims + 1 /\ At(s, "claimed")
    /\ UNCHANGED <<queued, Mailing, giveBacks, faults, crashes>>

(* A notification that throws gives the claim back, for the next sweep.      *)
GiveBack(s) ==
    /\ flag' = FALSE /\ giveBacks' = giveBacks + 1
    /\ sweep' = [sweep EXCEPT ![s] = Idle] /\ UNCHANGED claims

(* resendAssessment and its interview twin put the flag down for a new date. *)
Resent ==
    /\ flag /\ claims < MaxMails /\ \A s \in Sweeps : sweep[s] = Idle
    /\ \A x \in Logged : log[x].status \in {"sent", "failed"}
    /\ Fault /\ flag' = FALSE /\ giveBacks' = giveBacks + 1
    /\ UNCHANGED <<queued, sweep, Mailing, claims, crashes>>

(* dispatchEmail creates the log, then queues the mail or sends it inline.   *)
NewLog(s) ==
    \E x \in Mails \ Logged :
        /\ \A y \in Mails \ Logged : x <= y
        /\ Status(x, "queued", 0)
        /\ sweep' = [sweep EXCEPT ![s] = [at |-> "logged", mail |-> x, try |-> 1]]
        /\ owned' = IF sweep[s] = Idle THEN owned \cup {x} ELSE owned

CreateLog(s) ==
    /\ sweep[s].at = "claimed"
    /\ \/ NewLog(s) /\ UNCHANGED <<Reminding, faults>>
       \/ Fault /\ GiveBack(s) /\ UNCHANGED <<queued, log, owned>>
    /\ UNCHANGED <<job, copies, alerts, crashes>>

(* sendInvite of a scorecard: the one sender that names its company to the
   log; what notificationService sends never does.                           *)
Assign(s) ==
    /\ sweep[s] = Idle /\ NewLog(s)
    /\ UNCHANGED <<Reminding, job, copies, alerts, faults, crashes>>

(* A request that ends in an exception: a reminder's claim is given back, the
   assignment's mail stays where its log says.                               *)
Throws(s) ==
    IF sweep[s].mail \in owned
    THEN /\ crashes' = crashes \cup {sweep[s].mail}
         /\ sweep' = [sweep EXCEPT ![s] = Idle] /\ UNCHANGED <<flag, claims, giveBacks>>
    ELSE GiveBack(s) /\ UNCHANGED crashes

Enqueue(s) ==
    /\ sweep[s].at = "logged" /\ queued
    /\ \/ /\ job' = [job EXCEPT ![sweep[s].mail] = [at |-> "waiting", made |-> 0]]
          /\ sweep' = [sweep EXCEPT ![s] = Idle] /\ UNCHANGED <<Reminding, faults, crashes>>
       \/ Fault /\ Throws(s) /\ UNCHANGED <<queued, job>>
    /\ UNCHANGED <<log, copies, owned, alerts>>

SendInline(s) ==
    /\ sweep[s].at = "logged" /\ ~queued
    /\ \/ copies' = [copies EXCEPT ![sweep[s].mail] = @ + 1] /\ At(s, "sent")
       \/ /\ sweep[s].try < InlineTries
          /\ sweep' = [sweep EXCEPT ![s].try = @ + 1] /\ UNCHANGED copies
       \/ sweep[s].try = InlineTries /\ At(s, "failed") /\ UNCHANGED copies
    /\ UNCHANGED <<Reminding, log, job, owned, alerts, faults, crashes>>

(* The log's save is inside the try: if it fails, the mail goes out again, or
   at the last attempt is called failed.                                     *)
SaveSent(s) ==
    /\ sweep[s].at = "sent"
    /\ \/ /\ Status(sweep[s].mail, "sent", sweep[s].try)
          /\ sweep' = [sweep EXCEPT ![s] = Idle] /\ UNCHANGED faults
       \/ /\ Fault /\ UNCHANGED log
          /\ IF sweep[s].try < InlineTries
             THEN sweep' = [sweep EXCEPT ![s].at = "logged", ![s].try = @ + 1]
             ELSE At(s, "failed")
    /\ UNCHANGED <<Reminding, job, copies, owned, alerts, crashes>>

(* alertEmailFailure                                                         *)
Alert(x) == alerts' = IF x \in owned THEN alerts \cup {x} ELSE alerts

SaveFailed(s) ==
    /\ sweep[s].at = "failed"
    /\ \/ /\ Status(sweep[s].mail, "failed", sweep[s].try) /\ Alert(sweep[s].mail)
          /\ sweep' = [sweep EXCEPT ![s] = Idle] /\ UNCHANGED <<Reminding, faults, crashes>>
       \/ Fault /\ Throws(s) /\ UNCHANGED <<queued, log, alerts>>
    /\ UNCHANGED <<job, copies, owned>>

(* The process dies between two of its steps: the claim stays.               *)
Die(s) ==
    /\ sweep[s].at \notin {"idle", "found"} /\ Fault
    /\ crashes' = crashes \cup IF sweep[s].mail = 0 THEN {} ELSE {sweep[s].mail}
    /\ sweep' = [sweep EXCEPT ![s] = Idle]
    /\ UNCHANGED <<Reminding, Mailing>>

-----------------------------------------------------------------------------
(* The queue's worker: sendMail, then the log; either may fail the job.      *)
Send(x) ==
    /\ job[x].at = "waiting"
    /\ \/ /\ copies' = [copies EXCEPT ![x] = @ + 1]
          /\ job' = [job EXCEPT ![x].at = "taken"]
       \/ /\ job' = [job EXCEPT ![x] = [at |-> "failing", made |-> @.made + 1]]
          /\ UNCHANGED copies
    /\ UNCHANGED <<Reminding, sweep, log, owned, alerts, faults, crashes>>

LogSent(x) ==
    /\ job[x].at = "taken"
    /\ \/ /\ Status(x, "sent", log[x].attempts + 1)
          /\ job' = [job EXCEPT ![x].at = "done"] /\ UNCHANGED faults
       \/ /\ Fault /\ UNCHANGED log
          /\ job' = [job EXCEPT ![x] = [at |-> "failing", made |-> @.made + 1]]
    /\ UNCHANGED <<Reminding, sweep, copies, owned, alerts, crashes>>

Final(made) == made >= QueueTries
\* As if the handler took every failure but the one after the last for a retry.
FinalLater(made) == made > QueueTries

(* The failed event writes the log before the backoff, of five seconds or
   more, is over; a write that fails is not made again.                      *)
OnFailed(x) ==
    /\ job[x].at = "failing"
    /\ \/ /\ Status(x, IF Final(job[x].made) THEN "failed" ELSE "retrying", log[x].attempts + 1)
          /\ IF Final(job[x].made) THEN Alert(x) ELSE UNCHANGED alerts
          /\ UNCHANGED <<faults, crashes>>
       \/ Fault /\ crashes' = crashes \cup {x} /\ UNCHANGED <<log, alerts>>
    /\ job' = [job EXCEPT ![x].at = IF job[x].made < QueueTries THEN "waiting" ELSE "done"]
    /\ UNCHANGED <<Reminding, sweep, copies, owned>>

(* A worker that dies with the mail taken: the queue finds the job stalled
   and hands it out again.                                                   *)
Stall(x) ==
    /\ job[x].at = "taken" /\ Fault
    /\ job' = [job EXCEPT ![x].at = "waiting"]
    /\ UNCHANGED <<Reminding, sweep, log, copies, owned, alerts, crashes>>

Next ==
    \/ \E s \in Sweeps : Find(s) \/ Claim(s) \/ CreateLog(s) \/ Assign(s) \/ Enqueue(s) \/ SendInline(s)
                         \/ SaveSent(s) \/ SaveFailed(s) \/ Die(s)
    \/ \E x \in Mails : Send(x) \/ LogSent(x) \/ OnFailed(x) \/ Stall(x)
    \/ Resent

Spec == Init /\ [][Next]_vars

-----------------------------------------------------------------------------
(* However many instances run the job, a reminder is claimed once for each
   time its flag was put down (interviewReminderJob.js:29-36).               *)
RemindedOnce == claims <= 1 + giveBacks

(* A log says "sent" only of a mail the provider took; each copy beyond that
   one, or of a mail called failed, was taken before a lost write of the log
   or a dead worker, and never comes of the retries themselves.              *)
LogIsTrue ==
    \A x \in Mails : /\ log[x].status = "sent" => copies[x] >= 1
                     /\ log[x].status = "failed" => copies[x] <= faults
                     /\ copies[x] <= 1 + faults

(* "A failed send must never be silent" (emailDispatchService.js:5-9), kept
   for the mails logged with their company.                                  *)
FailuresAreTold == \A x \in owned : log[x].status = "failed" => x \in alerts

(* A mail logged and not settled is on its way - in a request, or in the
   queue - unless a process died with it or the failure handler's write was
   lost; nothing in the code looks for those again.                          *)
Carried(x) == \/ \E s \in Sweeps : sweep[s].mail = x
              \/ job[x].at \in {"waiting", "taken", "failing"}
NothingIsForgotten ==
    \A x \in Logged : log[x].status \in {"queued", "retrying"} =>
        Carried(x) \/ x \in crashes \/ (log[x].status = "queued" /\ giveBacks > 0)

(* The same comment for every mail: no mail of notificationService keeps it. *)
EveryFailureIsTold == \A x \in Logged : log[x].status = "failed" => x \in alerts

MailIsAccountedFor == RemindedOnce /\ LogIsTrue /\ FailuresAreTold /\ NothingIsForgotten
=============================================================================
