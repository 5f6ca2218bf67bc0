------------------------------- MODULE MailProofs -------------------------------
(* Type correctness of Mail, and that every mail is accounted for, for any
   number of mails, of instances of the reminder job, of attempts and of faults;
   and that the badge of the notifications of Inbox, the last part, is right.   *)
EXTENDS Mail, FiniteSetTheorems, TLAPS

\* What the bounds of the model are; a log of an inline mail counts its attempts
\* in the same field as the queue's.
Bounds ==
    /\ QueueTries \in Nat \ {0} /\ InlineTries \in Nat \ {0}
    /\ MaxMails \in Nat /\ MaxFaults \in Nat /\ InlineTries <= QueueTries + MaxFaults

Slot == [at : {"idle", "found", "claimed", "logged", "sent", "failed"}, mail : 0 .. MaxMails, try : 0 .. InlineTries]
Job == [at : {"none", "waiting", "active", "taken", "failing", "done"}, made : 0 .. QueueTries]

\* A request has a mail from the log's creation on, and no longer.
Slotted(h) ==
    IF h.at \in {"idle", "found", "claimed"} THEN h.mail = 0 /\ h.try = 0 ELSE h.mail # 0

\* A request h that holds a mail: of its log l, the queue's job j, the copies c
\* the provider took and the faults f there were.
Holding(h, l, j, c, f) ==
    /\ h.at \in {"logged", "sent", "failed"} /\ h.try \in 1 .. InlineTries
    /\ l = [status |-> "queued", attempts |-> 0] /\ j.at = "none"
    /\ h.at = "sent" => c >= 1
    /\ h.at # "sent" => c <= f

\* What the queue knows of a mail.
Worked(l, j, c, f) ==
    /\ j.at # "none" => l.status # "none"
    /\ j.at \in {"waiting", "taken", "failing"} => l.status \in {"queued", "retrying"}
    /\ j.at \in {"waiting", "taken"} => j.made < QueueTries /\ l.attempts <= j.made
    /\ j.at = "failing" => l.attempts < j.made
    /\ j.at = "taken" => c >= 1
    /\ j.at \in {"waiting", "failing"} => c <= f

\* What the log says of a mail, and what became of it.
Logs(l, c, f) ==
    /\ l.status = "none" => l.attempts = 0 /\ c = 0
    /\ l.status = "sent" => c >= 1
    /\ l.status = "failed" => c <= f
    /\ c <= 1 + f

Told(x) == log[x].status = "failed" /\ x \in owned => x \in alerts

Tracked(x) ==
    log[x].status \in {"queued", "retrying"} =>
        Carried(x) \/ x \in crashes \/ (log[x].status = "queued" /\ giveBacks > 0)

TypeInv ==
    /\ queued \in BOOLEAN /\ flag \in BOOLEAN
    /\ owned \subseteq Mails /\ alerts \subseteq owned /\ crashes \subseteq Mails
    /\ sweep \in [Sweeps -> Slot]
    /\ log \in [Mails -> EmailLog] /\ job \in [Mails -> Job] /\ copies \in [Mails -> 0 .. Tries]
    /\ claims \in 0 .. MaxMails /\ faults \in 0 .. MaxFaults
    /\ giveBacks \in Nat /\ giveBacks <= faults

MailInv ==
    /\ \A s \in Sweeps : Slotted(sweep[s])
    /\ \A s, t \in Sweeps : sweep[s].mail = sweep[t].mail /\ sweep[s].mail # 0 => s = t
    /\ \A s \in Sweeps, x \in Mails : sweep[s].mail = x => Holding(sweep[s], log[x], job[x], copies[x], faults)
    /\ \A x \in Mails : Worked(log[x], job[x], copies[x], faults) /\ Logs(log[x], copies[x], faults)
    /\ \A x \in Mails : Told(x) /\ Tracked(x)
    /\ claims <= giveBacks + 1 /\ (~flag => claims <= giveBacks)

IInv == TypeInv /\ MailInv

-----------------------------------------------------------------------------
(* The invariant, for a step that is about one mail, or about none.          *)

LEMMA MoreFaults ==
    ASSUME NEW f \in Nat, NEW g \in Nat, f <= g, NEW c \in Nat, NEW h, NEW l, NEW j
    PROVE  /\ Holding(h, l, j, c, f) => Holding(h, l, j, c, g)
           /\ Worked(l, j, c, f) => Worked(l, j, c, g)
           /\ Logs(l, c, f) => Logs(l, c, g)
BY DEF Holding, Worked, Logs

LEMMA Counts ==
    ASSUME Bounds, IInv
    PROVE  faults \in Nat /\ \A x \in Mails : copies[x] \in Nat /\ x \in Nat /\ x # 0
<1>1. Tries \in Nat
  BY DEF Tries, Bounds
<1>2. faults \in Nat /\ \A x \in Mails : copies[x] \in Nat
  BY <1>1 DEF IInv, TypeInv, Bounds
<1>3. \A x \in Mails : x \in Nat /\ x # 0
  BY DEF Mails, Bounds
<1> QED
  BY <1>2, <1>3

\* What no step takes back.
Grows ==
    /\ queued' = queued /\ flag' \in BOOLEAN
    /\ faults \in Nat /\ faults' \in 0 .. MaxFaults /\ faults <= faults'
    /\ claims' \in 0 .. MaxMails /\ giveBacks' \in Nat /\ giveBacks <= giveBacks' /\ giveBacks' <= faults'
    /\ crashes \subseteq crashes' /\ crashes' \subseteq Mails
    /\ claims' <= giveBacks' + 1 /\ (~flag' => claims' <= giveBacks')

\* Requests that have no mail, before or after, and the mails left alone.
LEMMA Unmailed ==
    ASSUME Bounds, IInv, Grows, UNCHANGED Mailing, sweep' \in [Sweeps -> Slot],
           \A t \in Sweeps : sweep'[t] = sweep[t] \/ (sweep[t].mail = 0 /\ sweep'[t].mail = 0 /\ Slotted(sweep'[t]))
    PROVE  IInv'
<1>1. \A t \in Sweeps : sweep'[t].mail = sweep[t].mail /\ Slotted(sweep'[t])
  BY DEF IInv, MailInv
<1>2. log' = log /\ job' = job /\ copies' = copies /\ owned' = owned /\ alerts' = alerts
  BY DEF Mailing
<1>3. TypeInv'
  BY <1>1, <1>2 DEF IInv, TypeInv, Grows
<1>4. faults \in Nat /\ faults' \in Nat /\ faults <= faults' /\ \A x \in Mails : copies[x] \in Nat /\ x # 0
  BY Counts DEF Grows
<1>5. ASSUME NEW x \in Mails
      PROVE  Worked(log[x], job[x], copies[x], faults') /\ Logs(log[x], copies[x], faults')
  <2>1. Worked(log[x], job[x], copies[x], faults) /\ Logs(log[x], copies[x], faults)
    BY DEF IInv, MailInv
  <2> QED
    BY <1>4, <2>1, MoreFaults
<1>6. ASSUME NEW t \in Sweeps, NEW x \in Mails, sweep'[t].mail = x
      PROVE  Holding(sweep'[t], log[x], job[x], copies[x], faults')
  <2>1. sweep'[t] = sweep[t]
    BY <1>4, <1>6
  <2>2. Holding(sweep[t], log[x], job[x], copies[x], faults)
    BY <1>6, <2>1 DEF IInv, MailInv
  <2> QED
    BY <1>4, <2>1, <2>2, MoreFaults
<1>7. \A x \in Mails : Told(x)' /\ Tracked(x)'
  BY <1>1, <1>2 DEF IInv, MailInv, Told, Tracked, Carried, Grows, TypeInv
<1>8. \A t, u \in Sweeps : sweep'[t].mail = sweep'[u].mail /\ sweep'[t].mail # 0 => t = u
  BY <1>1 DEF IInv, MailInv
<1> QED
  BY <1>1, <1>2, <1>3, <1>5, <1>6, <1>7, <1>8 DEF IInv, MailInv, Grows

\* The requests but one, and the mails but one, are where they were.
LEMMA Elsewhere ==
    ASSUME Bounds, IInv, Grows, NEW x \in Mails,
           NEW l \in EmailLog, log' = [log EXCEPT ![x] = l],
           NEW j \in Job, job' = [job EXCEPT ![x] = j],
           NEW c \in 0 .. Tries, copies' = [copies EXCEPT ![x] = c],
           owned \subseteq owned', owned' \subseteq owned \cup {x}, alerts \subseteq alerts', alerts' \subseteq owned',
           NEW S \in SUBSET Sweeps, sweep' \in [Sweeps -> Slot],
           \A t \in Sweeps : t \notin S => sweep'[t] = sweep[t] /\ sweep[t].mail # x,
           \A s, t \in S : s = t,
           \A s \in S : /\ sweep[s].mail \in {0, x} /\ sweep'[s].mail \in {0, x}
                        /\ Slotted(sweep'[s])
                        /\ sweep'[s].mail = x => Holding(sweep'[s], l, j, c, faults'),
           Worked(l, j, c, faults'), Logs(l, c, faults'), Told(x)', Tracked(x)'
    PROVE  IInv'
<1>1. /\ log' \in [Mails -> EmailLog] /\ job' \in [Mails -> Job] /\ copies' \in [Mails -> 0 .. Tries]
      /\ log'[x] = l /\ job'[x] = j /\ copies'[x] = c
      /\ \A y \in Mails : y # x => log'[y] = log[y] /\ job'[y] = job[y] /\ copies'[y] = copies[y]
  BY DEF IInv, TypeInv
<1>2. TypeInv'
  BY <1>1 DEF IInv, TypeInv, Grows
<1>3. faults \in Nat /\ faults' \in Nat /\ faults <= faults' /\ \A y \in Mails : copies[y] \in Nat /\ y # 0
  BY Counts DEF Grows
<1>4. ASSUME NEW y \in Mails
      PROVE  Worked(log'[y], job'[y], copies'[y], faults') /\ Logs(log'[y], copies'[y], faults')
  <2>1. Worked(log[y], job[y], copies[y], faults) /\ Logs(log[y], copies[y], faults)
    BY DEF IInv, MailInv
  <2>2. Worked(log[y], job[y], copies[y], faults') /\ Logs(log[y], copies[y], faults')
    BY <1>3, <2>1, MoreFaults
  <2> QED
    BY <1>1, <2>2
<1>5. \A t \in Sweeps : Slotted(sweep'[t])
  BY DEF IInv, MailInv
<1>6. \A t, u \in Sweeps : sweep'[t].mail = sweep'[u].mail /\ sweep'[t].mail # 0 => t = u
  BY DEF IInv, MailInv
<1>7. ASSUME NEW t \in Sweeps, NEW y \in Mails, sweep'[t].mail = y
      PROVE  Holding(sweep'[t], log'[y], job'[y], copies'[y], faults')
  <2>1. CASE t \in S
    BY <1>1, <1>3, <1>7, <2>1
  <2>2. CASE t \notin S
    <3>1. sweep'[t] = sweep[t] /\ y # x
      BY <1>7, <2>2
    <3>2. Holding(sweep[t], log[y], job[y], copies[y], faults)
      BY <1>7, <3>1 DEF IInv, MailInv
    <3>3. Holding(sweep[t], log[y], job[y], copies[y], faults')
      BY <1>3, <3>2, MoreFaults
    <3> QED
      BY <1>1, <3>1, <3>3
  <2> QED
    BY <2>1, <2>2
<1>8. ASSUME NEW y \in Mails, y # x PROVE Told(y)' /\ Tracked(y)'
  <2>1. Told(y)'
    BY <1>1, <1>8 DEF IInv, MailInv, Told
  <2>2. \A t \in Sweeps : sweep[t].mail = y => sweep'[t].mail = y
    BY <1>3, <1>8
  <2>3. Carried(y) => Carried(y)'
    BY <1>1, <1>8, <2>2 DEF Carried
  <2>4. giveBacks > 0 => giveBacks' > 0
    BY DEF Grows, IInv, TypeInv
  <2>5. Tracked(y)'
    BY <1>1, <1>8, <2>3, <2>4 DEF IInv, MailInv, Tracked, Grows
  <2> QED
    BY <2>1, <2>5
<1> QED
  BY <1>2, <1>4, <1>5, <1>6, <1>7, <1>8 DEF IInv, MailInv, Grows

\* What a step of request s does to its mail, to one it has just logged, or to
\* one it lets go of.
LEMMA Handled ==
    ASSUME Bounds, IInv, Grows, NEW s \in Sweeps, NEW x \in Mails,
           sweep[s].mail = x \/ (sweep[s].mail = 0 /\ log[x].status = "none"),
           NEW h \in Slot, sweep' = [sweep EXCEPT ![s] = h], h.mail \in {0, x}, Slotted(h),
           NEW l \in EmailLog, log' = [log EXCEPT ![x] = l],
           NEW j \in Job, job' = [job EXCEPT ![x] = j],
           NEW c \in 0 .. Tries, copies' = [copies EXCEPT ![x] = c],
           owned \subseteq owned', owned' \subseteq owned \cup {x}, alerts \subseteq alerts', alerts' \subseteq owned',
           h.mail = x => Holding(h, l, j, c, faults'),
           Worked(l, j, c, faults'), Logs(l, c, faults'), Told(x)', Tracked(x)'
    PROVE  IInv'
<1>1. sweep' \in [Sweeps -> Slot] /\ sweep'[s] = h /\ \A t \in Sweeps : t # s => sweep'[t] = sweep[t]
  BY DEF IInv, TypeInv
<1>2. x # 0
  BY Counts
<1>3. ASSUME NEW t \in Sweeps, t # s PROVE sweep[t].mail # x
  <2>1. CASE sweep[s].mail = x
    BY <1>2, <1>3, <2>1 DEF IInv, MailInv
  <2>2. CASE log[x].status = "none"
    BY <2>2 DEF IInv, MailInv, Holding
  <2> QED
    BY <2>1, <2>2
<1> DEFINE S == {s}
<1>4. S \in SUBSET Sweeps /\ (\A t \in Sweeps : t \notin S => t # s) /\ (\A t, u \in S : t = u) /\ (\A t \in S : t = s)
  OBVIOUS
<1> HIDE DEF S
<1>5. \A t \in Sweeps : t \notin S => sweep'[t] = sweep[t] /\ sweep[t].mail # x
  BY <1>1, <1>3, <1>4
<1>6. \A t \in S : /\ sweep[t].mail \in {0, x} /\ sweep'[t].mail \in {0, x}
                   /\ Slotted(sweep'[t])
                   /\ sweep'[t].mail = x => Holding(sweep'[t], l, j, c, faults')
  BY <1>1, <1>4
<1> QED
  BY <1>1, <1>4, <1>5, <1>6, Elsewhere

\* What a step of the queue does to a mail.
LEMMA Delivered ==
    ASSUME Bounds, IInv, Grows, NEW x \in Mails, job[x].at # "none", sweep' = sweep,
           NEW l \in EmailLog, log' = [log EXCEPT ![x] = l],
           NEW j \in Job, job' = [job EXCEPT ![x] = j],
           NEW c \in 0 .. Tries, copies' = [copies EXCEPT ![x] = c],
           owned' = owned, alerts \subseteq alerts', alerts' \subseteq owned,
           Worked(l, j, c, faults'), Logs(l, c, faults'), Told(x)', Tracked(x)'
    PROVE  IInv'
<1>1. \A t \in Sweeps : sweep[t].mail # x
  BY DEF IInv, MailInv, Holding
<1> DEFINE S == {}
<1>2. S \in SUBSET Sweeps /\ \A t \in S : FALSE
  OBVIOUS
<1> HIDE DEF S
<1>3. sweep' \in [Sweeps -> Slot]
  BY DEF IInv, TypeInv
<1> QED
  BY <1>1, <1>2, <1>3, Elsewhere

\* What is left alone is written back as it was.
LEMMA Same ==
    ASSUME IInv, NEW x \in Mails
    PROVE  /\ log = [log EXCEPT ![x] = log[x]] /\ log[x] \in EmailLog
           /\ job = [job EXCEPT ![x] = job[x]] /\ job[x] \in Job
           /\ copies = [copies EXCEPT ![x] = copies[x]] /\ copies[x] \in 0 .. Tries
BY DEF IInv, TypeInv

\* A request with a mail.
LEMMA Mailed ==
    ASSUME Bounds, IInv, NEW s \in Sweeps, sweep[s].at \in {"logged", "sent", "failed"}
    PROVE  /\ sweep[s].mail \in Mails /\ sweep[s] \in Slot
           /\ Holding(sweep[s], log[sweep[s].mail], job[sweep[s].mail], copies[sweep[s].mail], faults)
           /\ Logs(log[sweep[s].mail], copies[sweep[s].mail], faults)
<1>1. sweep[s] \in Slot /\ sweep[s].mail # 0
  BY DEF IInv, TypeInv, MailInv, Slotted
<1>2. sweep[s].mail \in Mails
  BY <1>1 DEF Slot, Mails, Bounds
<1> QED
  BY <1>1, <1>2 DEF IInv, MailInv

LEMMA IdleSlot ==
    ASSUME Bounds
    PROVE  Idle \in Slot /\ Slotted(Idle) /\ Idle.mail = 0 /\ Idle.at = "idle"
BY DEF Idle, Slot, Slotted, Bounds

-----------------------------------------------------------------------------
(* The reminder job and the requests                                       *)

LEMMA MailBegins ==
    ASSUME Bounds, IInv, NEW s \in Sweeps, Find(s) \/ Claim(s)
    PROVE  IInv'
<1>1. sweep[s].at \in {"idle", "found"} /\ UNCHANGED Mailing
  BY DEF Find, Claim, Idle
<1>2. sweep[s] \in Slot /\ sweep[s].mail = 0 /\ sweep[s].try = 0
  BY <1>1 DEF IInv, TypeInv, MailInv, Slotted
<1>3. PICK at \in {"idle", "found", "claimed"} : sweep' = [sweep EXCEPT ![s].at = at]
  BY DEF Find, Claim, At
<1> DEFINE h == [sweep[s] EXCEPT !.at = at]
<1>4. h \in Slot /\ h.mail = 0 /\ h.try = 0 /\ h.at = at
  BY <1>2 DEF Slot
<1>5. sweep' = [sweep EXCEPT ![s] = h]
  BY <1>3
<1> HIDE DEF h
<1>6. Slotted(h)
  BY <1>4 DEF Slotted
<1>7. Grows
  <2>1. /\ queued' = queued /\ faults' = faults /\ crashes' = crashes /\ giveBacks' = giveBacks
        /\ flag' \in BOOLEAN /\ claims' \in 0 .. MaxMails
        /\ claims' <= giveBacks' + 1 /\ (~flag' => claims' <= giveBacks')
    <3>1. CASE flag' = flag /\ claims' = claims
      BY <3>1 DEF Find, Claim, Reminding, IInv, TypeInv, MailInv
    <3>2. CASE ~flag /\ flag' = TRUE /\ claims' = claims + 1 /\ claims # MaxMails /\ Claim(s)
      BY <3>2 DEF Claim, IInv, TypeInv, MailInv, Bounds
    <3> QED
      BY <3>1, <3>2 DEF Find, Claim, Reminding
  <2> QED
    BY <2>1 DEF Grows, IInv, TypeInv, Bounds
<1>8. sweep' \in [Sweeps -> Slot]
  BY <1>4, <1>5 DEF IInv, TypeInv
<1>9. \A t \in Sweeps : sweep'[t] = sweep[t] \/ (sweep[t].mail = 0 /\ sweep'[t].mail = 0 /\ Slotted(sweep'[t]))
  BY <1>2, <1>4, <1>5, <1>6 DEF IInv, TypeInv
<1> QED
  BY <1>1, <1>7, <1>8, <1>9, Unmailed

\* The log is created: the mail is new to everyone.
LEMMA MailLogged ==
    ASSUME Bounds, IInv, Grows, NEW s \in Sweeps, sweep[s].mail = 0, NewLog(s),
           job' = job, copies' = copies, alerts' = alerts
    PROVE  IInv'
<1>1. PICK x \in Mails \ Logged :
        /\ log' = [log EXCEPT ![x] = [status |-> "queued", attempts |-> 0]]
        /\ sweep' = [sweep EXCEPT ![s] = [at |-> "logged", mail |-> x, try |-> 1]]
        /\ owned' = IF sweep[s] = Idle THEN owned \cup {x} ELSE owned
  BY DEF NewLog, Status
<1> DEFINE h == [at |-> "logged", mail |-> x, try |-> 1]
           l == [status |-> "queued", attempts |-> 0]
<1>2. h \in Slot /\ h.mail = x /\ h.at = "logged" /\ h.try = 1 /\ Slotted(h)
  BY Counts DEF Slot, Mails, Bounds, Slotted
<1>3. l \in EmailLog /\ l.status = "queued" /\ l.attempts = 0
  BY DEF EmailLog, Tries, Bounds
<1>4. log[x].status = "none" /\ job[x].at = "none" /\ copies[x] = 0
  BY <1>1 DEF Logged, IInv, MailInv, Worked, Logs
<1>5. sweep' = [sweep EXCEPT ![s] = h] /\ log' = [log EXCEPT ![x] = l]
  BY <1>1
<1>f. faults' \in Nat /\ 0 <= faults' /\ 0 <= 1 + faults'
  BY DEF Grows, Bounds
<1>6. Holding(h, l, job[x], copies[x], faults')
  BY <1>2, <1>4, <1>f DEF Holding, Bounds
<1> HIDE DEF h, l
<1>7. sweep'[s] = h /\ log'[x] = l
  BY <1>1, <1>5 DEF IInv, TypeInv
<1>8. Worked(l, job[x], copies[x], faults') /\ Logs(l, copies[x], faults')
  BY <1>3, <1>4, <1>f DEF Worked, Logs
<1>9. Told(x)' /\ Tracked(x)'
  BY <1>2, <1>3, <1>7 DEF Told, Tracked, Carried
<1>10. /\ owned \subseteq owned' /\ owned' \subseteq owned \cup {x} /\ alerts \subseteq alerts' /\ alerts' \subseteq owned'
  BY <1>1 DEF IInv, TypeInv
<1>11. /\ job' = [job EXCEPT ![x] = job[x]] /\ job[x] \in Job
       /\ copies' = [copies EXCEPT ![x] = copies[x]] /\ copies[x] \in 0 .. Tries
  BY <1>1, Same
<1> QED
  BY <1>1, <1>2, <1>3, <1>4, <1>5, <1>6, <1>8, <1>9, <1>10, <1>11, Handled

\* A fault on the way, whoever counts it.
LEMMA FaultGrows ==
    ASSUME Bounds, IInv, Fault, queued' = queued, crashes \subseteq crashes', crashes' \subseteq Mails,
           \/ UNCHANGED <<flag, claims, giveBacks>>
           \/ flag' = FALSE /\ giveBacks' = giveBacks + 1 /\ claims' = claims
    PROVE  Grows
<1>1. faults \in Nat /\ faults' \in 0 .. MaxFaults /\ faults' = faults + 1
  BY DEF Fault, IInv, TypeInv, Bounds
<1>a. /\ flag \in BOOLEAN /\ claims \in 0 .. MaxMails /\ giveBacks \in Nat /\ giveBacks <= faults
      /\ claims <= giveBacks + 1 /\ (~flag => claims <= giveBacks)
  BY DEF IInv, TypeInv, MailInv
<1>2. CASE UNCHANGED <<flag, claims, giveBacks>>
  BY <1>1, <1>2, <1>a DEF Grows
<1>3. CASE flag' = FALSE /\ giveBacks' = giveBacks + 1 /\ claims' = claims
  <2>1. giveBacks' \in Nat /\ giveBacks <= giveBacks' /\ giveBacks' <= faults'
    BY <1>1, <1>3, <1>a
  <2>2. claims' \in 0 .. MaxMails /\ claims' <= giveBacks'
    BY <1>3, <1>a DEF Bounds
  <2>3. claims' \in Int /\ giveBacks' \in Int
    BY <2>1, <2>2 DEF Bounds
  <2>4. \A a, b \in Int : a <= b => a <= b + 1
    OBVIOUS
  <2>5. claims' <= giveBacks' + 1
    BY <2>2, <2>3, <2>4
  <2>6. faults <= faults'
    BY <1>1
  <2> QED
    BY <1>1, <1>3, <2>1, <2>2, <2>5, <2>6 DEF Grows
<1> QED
  BY <1>2, <1>3

LEMMA QuietGrows ==
    ASSUME Bounds, IInv, UNCHANGED Reminding, faults' = faults, crashes' = crashes
    PROVE  Grows
BY DEF Grows, Reminding, IInv, TypeInv, MailInv, Bounds

\* The request ends in an exception and its mail stays as it is.
LEMMA MailThrown ==
    ASSUME Bounds, IInv, NEW s \in Sweeps, sweep[s].at \in {"logged", "failed"}, Fault, Throws(s),
           UNCHANGED <<queued, log, job, copies, owned, alerts>>
    PROVE  IInv'
<1>0. PICK x \in Mails : x = sweep[s].mail
  BY Mailed
<1>1. /\ x \in Mails /\ Holding(sweep[s], log[x], job[x], copies[x], faults)
      /\ Logs(log[x], copies[x], faults)
  BY <1>0, Mailed
<1>2. /\ sweep' = [sweep EXCEPT ![s] = Idle] /\ crashes \subseteq crashes' /\ crashes' \subseteq Mails
      /\ \/ UNCHANGED <<flag, claims, giveBacks>> /\ x \in crashes'
         \/ flag' = FALSE /\ giveBacks' = giveBacks + 1 /\ claims' = claims
  BY <1>0, <1>1 DEF Throws, GiveBack, IInv, TypeInv
<1>3. Grows
  BY <1>2, FaultGrows
<1>4. copies[x] \in Nat /\ faults \in Nat /\ faults' \in Nat /\ faults <= faults'
  BY <1>1, <1>3, Counts DEF Grows
<1>5. Worked(log[x], job[x], copies[x], faults') /\ Logs(log[x], copies[x], faults')
  BY <1>1, <1>4, MoreFaults DEF IInv, MailInv
<1>6. log[x].status = "queued"
  BY <1>1 DEF Holding
<1>a. log' = log /\ giveBacks \in Nat
  BY DEF IInv, TypeInv
<1>b. x \in crashes' \/ (giveBacks' > 0 /\ log'[x].status = "queued")
  BY <1>2, <1>6, <1>a
<1>7. Told(x)' /\ Tracked(x)'
  BY <1>6, <1>a, <1>b DEF Told, Tracked
<1>8. x # 0 /\ sweep[s].mail = x
  BY <1>0, Counts
<1>9. owned' = owned /\ alerts' = alerts /\ alerts \subseteq owned
  BY DEF IInv, TypeInv
<1>10. /\ log' = [log EXCEPT ![x] = log[x]] /\ log[x] \in EmailLog
       /\ job' = [job EXCEPT ![x] = job[x]] /\ job[x] \in Job
       /\ copies' = [copies EXCEPT ![x] = copies[x]] /\ copies[x] \in 0 .. Tries
  BY <1>1, Same
<1>11. /\ owned \subseteq owned' /\ owned' \subseteq owned \cup {x} /\ alerts \subseteq alerts' /\ alerts' \subseteq owned'
       /\ Idle \in Slot /\ Slotted(Idle) /\ Idle.mail = 0
  BY <1>9, IdleSlot
<1> QED
  BY <1>1, <1>2, <1>3, <1>5, <1>7, <1>8, <1>10, <1>11, Handled

LEMMA MailCreated ==
    ASSUME Bounds, IInv, NEW s \in Sweeps, CreateLog(s) \/ Assign(s)
    PROVE  IInv'
<1>1. sweep[s].mail = 0 /\ job' = job /\ copies' = copies /\ alerts' = alerts /\ crashes' = crashes
  BY DEF CreateLog, Assign, Idle, IInv, MailInv, Slotted
<1>2. CASE NewLog(s) /\ UNCHANGED Reminding /\ faults' = faults
  BY <1>1, <1>2, QuietGrows, MailLogged
<1>3. CASE Fault /\ GiveBack(s) /\ UNCHANGED <<queued, log, owned>>
  <2>1. Grows
    BY <1>1, <1>3, FaultGrows DEF GiveBack, IInv, TypeInv
  <2>2. sweep' = [sweep EXCEPT ![s] = Idle] /\ UNCHANGED Mailing
    BY <1>1, <1>3 DEF GiveBack, Mailing
  <2>3. sweep' \in [Sweeps -> Slot] /\ sweep'[s] = Idle /\ \A t \in Sweeps : t # s => sweep'[t] = sweep[t]
    BY <2>2, IdleSlot DEF IInv, TypeInv
  <2>4. \A t \in Sweeps : sweep'[t] = sweep[t] \/ (sweep[t].mail = 0 /\ sweep'[t].mail = 0 /\ Slotted(sweep'[t]))
    BY <1>1, <2>3, IdleSlot
  <2> QED
    BY <2>1, <2>2, <2>3, <2>4, Unmailed
<1> QED
  BY <1>2, <1>3 DEF CreateLog, Assign

LEMMA MailEnqueued ==
    ASSUME Bounds, IInv, NEW s \in Sweeps, Enqueue(s)
    PROVE  IInv'
<1>1. PICK x \in Mails : x = sweep[s].mail
  BY Mailed DEF Enqueue
<1>2. Holding(sweep[s], log[x], job[x], copies[x], faults) /\ Logs(log[x], copies[x], faults)
  BY <1>1, Mailed DEF Enqueue
<1>3. UNCHANGED <<queued, log, copies, owned, alerts>>
  BY DEF Enqueue, Reminding
<1>4. CASE Fault /\ Throws(s) /\ job' = job
  BY <1>3, <1>4, MailThrown DEF Enqueue
<1>5. CASE /\ job' = [job EXCEPT ![x] = [at |-> "waiting", made |-> 0]]
           /\ sweep' = [sweep EXCEPT ![s] = Idle] /\ UNCHANGED <<Reminding, faults, crashes>>
  <2> DEFINE j == [at |-> "waiting", made |-> 0]
  <2>1. j \in Job /\ j.at = "waiting" /\ j.made = 0
    BY DEF Job, Bounds
  <2>2. job' = [job EXCEPT ![x] = j]
    BY <1>5
  <2> HIDE DEF j
  <2>3. Grows
    BY <1>5, QuietGrows
  <2>4. log[x].status = "queued" /\ log[x].attempts = 0 /\ copies[x] <= faults /\ faults' = faults
    BY <1>2, <1>5 DEF Holding, Enqueue
  <2>5. Worked(log[x], j, copies[x], faults')
    BY <2>1, <2>4 DEF Worked, Bounds
  <2>6. job'[x] = j
    BY <2>2 DEF IInv, TypeInv
  <2>7. Told(x)' /\ Tracked(x)'
    BY <1>3, <2>1, <2>4, <2>6 DEF Told, Tracked, Carried
  <2>8. /\ owned \subseteq owned' /\ owned' \subseteq owned \cup {x} /\ alerts \subseteq alerts' /\ alerts' \subseteq owned'
        /\ Idle \in Slot /\ Slotted(Idle) /\ Idle.mail = 0 /\ x # 0 /\ Logs(log[x], copies[x], faults')
    BY <1>2, <1>3, <2>4, IdleSlot, Counts DEF IInv, TypeInv
  <2>9. /\ log' = [log EXCEPT ![x] = log[x]] /\ log[x] \in EmailLog
        /\ copies' = [copies EXCEPT ![x] = copies[x]] /\ copies[x] \in 0 .. Tries
    BY <1>3, Same
  <2> QED
    BY <1>1, <1>5, <2>1, <2>2, <2>3, <2>5, <2>7, <2>8, <2>9, Handled, ZenonT(60)
<1> QED
  BY <1>1, <1>4, <1>5 DEF Enqueue

\* An attempt without the queue: the provider took the mail, or refused it.
LEMMA MailInline ==
    ASSUME Bounds, IInv, NEW s \in Sweeps, SendInline(s)
    PROVE  IInv'
<1>1. PICK x \in Mails : x = sweep[s].mail
  BY Mailed DEF SendInline
<1>2. /\ Holding(sweep[s], log[x], job[x], copies[x], faults) /\ Logs(log[x], copies[x], faults)
      /\ sweep[s] \in Slot /\ sweep[s].at = "logged" /\ sweep \in [Sweeps -> Slot] /\ copies \in [Mails -> 0 .. Tries]
  BY <1>1, Mailed DEF SendInline, IInv, TypeInv
<1>3. log[x].status = "queued" /\ log[x].attempts = 0 /\ job[x].at = "none" /\ copies[x] <= faults
      /\ sweep[s].try \in 1 .. InlineTries
  BY <1>2 DEF Holding
<1>4. Grows /\ faults' = faults
  BY QuietGrows DEF SendInline
<1>5. log' = log /\ job' = job /\ owned' = owned /\ alerts' = alerts
  BY DEF SendInline
<1>6. copies[x] \in Nat /\ copies[x] + 1 \in 0 .. Tries /\ faults \in Nat /\ x # 0
  <2>1. copies[x] \in Nat /\ faults \in 0 .. MaxFaults /\ x # 0
    BY Counts DEF IInv, TypeInv
  <2> QED
    BY <1>3, <2>1 DEF Tries, Bounds
<1>7. \E h \in Slot, c \in 0 .. Tries :
        /\ sweep' = [sweep EXCEPT ![s] = h] /\ h.mail = x /\ h.at \in {"logged", "sent", "failed"}
        /\ h.try \in 1 .. InlineTries
        /\ copies' = [copies EXCEPT ![x] = c] /\ c <= 1 + faults
        /\ IF h.at = "sent" THEN c >= 1 ELSE c <= faults
  <2>1. CASE copies' = [copies EXCEPT ![x] = @ + 1] /\ At(s, "sent")
    <3> DEFINE h == [sweep[s] EXCEPT !.at = "sent"]
    <3>1. h \in Slot /\ h.mail = x /\ h.at = "sent" /\ h.try = sweep[s].try
      BY <1>1, <1>2 DEF Slot
    <3>2. sweep' = [sweep EXCEPT ![s] = h]
      BY <2>1 DEF At
    <3> HIDE DEF h
    <3>3. PICK c : c = copies[x] + 1
      OBVIOUS
    <3>4. copies' = [copies EXCEPT ![x] = c] /\ c \in 0 .. Tries /\ c >= 1 /\ c <= 1 + faults
      BY <1>3, <1>6, <2>1, <3>3
    <3> QED
      BY <1>3, <3>1, <3>2, <3>4
  <2>2. CASE sweep[s].try < InlineTries /\ sweep' = [sweep EXCEPT ![s].try = @ + 1] /\ copies' = copies
    <3>1. PICK n : n = sweep[s].try + 1
      OBVIOUS
    <3>2. n \in 1 .. InlineTries /\ n \in 0 .. InlineTries
      BY <1>3, <2>2, <3>1 DEF Bounds
    <3> DEFINE h == [sweep[s] EXCEPT !.try = n]
    <3>3. h \in Slot /\ h.mail = x /\ h.at = "logged" /\ h.try = n
      BY <1>1, <1>2, <3>2 DEF Slot
    <3>4. sweep' = [sweep EXCEPT ![s] = h]
      BY <2>2, <3>1
    <3> HIDE DEF h
    <3>5. copies' = [copies EXCEPT ![x] = copies[x]] /\ copies[x] \in 0 .. Tries /\ copies[x] <= 1 + faults
      BY <1>2, <1>3, <1>6, <2>2
    <3> QED
      BY <1>3, <3>2, <3>3, <3>4, <3>5
  <2>3. CASE At(s, "failed") /\ copies' = copies
    <3> DEFINE h == [sweep[s] EXCEPT !.at = "failed"]
    <3>1. h \in Slot /\ h.mail = x /\ h.at = "failed" /\ h.try = sweep[s].try
      BY <1>1, <1>2 DEF Slot
    <3>2. sweep' = [sweep EXCEPT ![s] = h]
      BY <2>3 DEF At
    <3> HIDE DEF h
    <3>3. copies' = [copies EXCEPT ![x] = copies[x]] /\ copies[x] \in 0 .. Tries /\ copies[x] <= 1 + faults
      BY <1>2, <1>3, <1>6, <2>3
    <3> QED
      BY <1>3, <3>1, <3>2, <3>3
  <2> QED
    BY <1>1, <2>1, <2>2, <2>3 DEF SendInline
<1>8. PICK h \in Slot, c \in 0 .. Tries :
        /\ sweep' = [sweep EXCEPT ![s] = h] /\ h.mail = x /\ h.at \in {"logged", "sent", "failed"}
        /\ h.try \in 1 .. InlineTries
        /\ copies' = [copies EXCEPT ![x] = c] /\ c <= 1 + faults
        /\ IF h.at = "sent" THEN c >= 1 ELSE c <= faults
  BY <1>7
<1>9. Holding(h, log[x], job[x], c, faults') /\ Worked(log[x], job[x], c, faults') /\ Logs(log[x], c, faults')
  BY <1>2, <1>3, <1>4, <1>8 DEF Holding, Worked, Logs
<1>10. Slotted(h) /\ sweep'[s] = h
  BY <1>2, <1>6, <1>8 DEF Slotted
<1>11. Told(x)' /\ Tracked(x)'
  BY <1>3, <1>5, <1>8, <1>10 DEF Told, Tracked, Carried
<1>12. /\ log' = [log EXCEPT ![x] = log[x]] /\ log[x] \in EmailLog
       /\ job' = [job EXCEPT ![x] = job[x]] /\ job[x] \in Job
  BY <1>5, Same
<1>13. owned \subseteq owned' /\ owned' \subseteq owned \cup {x} /\ alerts \subseteq alerts' /\ alerts' \subseteq owned'
  BY <1>5 DEF IInv, TypeInv
<1> QED
  BY <1>1, <1>4, <1>8, <1>9, <1>10, <1>11, <1>12, <1>13, Handled

\* The log's save after an inline mail, made or lost.
LEMMA MailSaved ==
    ASSUME Bounds, IInv, NEW s \in Sweeps, SaveSent(s)
    PROVE  IInv'
<1>1. PICK x \in Mails : x = sweep[s].mail
  BY Mailed DEF SaveSent
<1>2. /\ Holding(sweep[s], log[x], job[x], copies[x], faults) /\ Logs(log[x], copies[x], faults)
      /\ sweep[s] \in Slot /\ sweep[s].at = "sent"
  BY <1>1, Mailed DEF SaveSent
<1>3. /\ log[x].status = "queued" /\ log[x].attempts = 0 /\ job[x].at = "none" /\ sweep[s].try \in 1 .. InlineTries
      /\ copies[x] >= 1 /\ copies[x] <= 1 + faults
  BY <1>2 DEF Holding, Logs
<1>4. job' = job /\ copies' = copies /\ owned' = owned /\ alerts' = alerts /\ crashes' = crashes /\ UNCHANGED Reminding
  BY DEF SaveSent
<1>5. x # 0 /\ copies[x] \in Nat /\ faults \in Nat
  BY Counts
<1>6. /\ job' = [job EXCEPT ![x] = job[x]] /\ job[x] \in Job
      /\ copies' = [copies EXCEPT ![x] = copies[x]] /\ copies[x] \in 0 .. Tries
      /\ owned \subseteq owned' /\ owned' \subseteq owned \cup {x} /\ alerts \subseteq alerts' /\ alerts' \subseteq owned'
  BY <1>4, Same DEF IInv, TypeInv
<1>7. CASE Status(x, "sent", sweep[s].try) /\ sweep' = [sweep EXCEPT ![s] = Idle] /\ faults' = faults
  <2> DEFINE l == [status |-> "sent", attempts |-> sweep[s].try]
  <2>1. l \in EmailLog /\ l.status = "sent"
    BY <1>3 DEF EmailLog, Tries, Bounds
  <2>2. log' = [log EXCEPT ![x] = l]
    BY <1>7 DEF Status
  <2> HIDE DEF l
  <2>3. Grows
    BY <1>4, <1>7, QuietGrows
  <2>4. Worked(l, job[x], copies[x], faults') /\ Logs(l, copies[x], faults')
    BY <1>3, <1>7, <2>1 DEF Worked, Logs
  <2>5. log'[x] = l
    BY <2>2 DEF IInv, TypeInv
  <2>6. Told(x)' /\ Tracked(x)'
    BY <2>1, <2>5 DEF Told, Tracked
  <2>7. Idle \in Slot /\ Slotted(Idle) /\ Idle.mail = 0
    BY IdleSlot
  <2> QED
    BY <1>1, <1>5, <1>6, <1>7, <2>1, <2>2, <2>3, <2>4, <2>6, <2>7, Handled
<1>8. CASE /\ Fault /\ log' = log
           /\ IF sweep[s].try < InlineTries
              THEN sweep' = [sweep EXCEPT ![s].at = "logged", ![s].try = @ + 1]
              ELSE At(s, "failed")
  <2>1. Grows
    BY <1>4, <1>8, FaultGrows DEF Reminding, IInv, TypeInv
  <2>2. faults' = faults + 1 /\ faults' \in Nat
    BY <1>5, <1>8 DEF Fault
  <2>3. PICK h \in Slot : /\ sweep' = [sweep EXCEPT ![s] = h] /\ h.mail = x
                          /\ h.at \in {"logged", "failed"} /\ h.try \in 1 .. InlineTries
    <3>1. CASE sweep[s].try < InlineTries
      <4>1. PICK n : n = sweep[s].try + 1
        OBVIOUS
      <4>2. n \in 1 .. InlineTries /\ n \in 0 .. InlineTries
        BY <1>3, <3>1, <4>1 DEF Bounds
      <4> DEFINE h == [sweep[s] EXCEPT !.at = "logged", !.try = n]
      <4>3. h \in Slot /\ h.mail = x /\ h.at = "logged" /\ h.try = n
        BY <1>1, <1>2, <4>2 DEF Slot
      <4>4. sweep' = [sweep EXCEPT ![s] = h]
        BY <1>2, <1>8, <3>1, <4>1 DEF IInv, TypeInv, Slot
      <4> HIDE DEF h
      <4> QED
        BY <4>2, <4>3, <4>4
    <3>2. CASE ~(sweep[s].try < InlineTries)
      <4> DEFINE h == [sweep[s] EXCEPT !.at = "failed"]
      <4>1. h \in Slot /\ h.mail = x /\ h.at = "failed" /\ h.try = sweep[s].try
        BY <1>1, <1>2 DEF Slot
      <4>2. sweep' = [sweep EXCEPT ![s] = h]
        BY <1>8, <3>2 DEF At
      <4> HIDE DEF h
      <4> QED
        BY <1>3, <4>1, <4>2
    <3> QED
      BY <3>1, <3>2
  <2>4. /\ Holding(h, log[x], job[x], copies[x], faults') /\ Worked(log[x], job[x], copies[x], faults')
        /\ Logs(log[x], copies[x], faults')
    BY <1>2, <1>3, <1>5, <2>2, <2>3 DEF Holding, Worked, Logs
  <2>5. Slotted(h) /\ sweep'[s] = h
    BY <1>5, <2>3 DEF Slotted, IInv, TypeInv
  <2>6. Told(x)' /\ Tracked(x)'
    BY <1>3, <1>8, <2>3, <2>5 DEF Told, Tracked, Carried
  <2>7. log' = [log EXCEPT ![x] = log[x]] /\ log[x] \in EmailLog
    BY <1>8, Same
  <2> QED
    BY <1>1, <1>6, <2>1, <2>3, <2>4, <2>5, <2>6, <2>7, Handled
<1> QED
  BY <1>1, <1>7, <1>8 DEF SaveSent

\* The last inline attempt failed, and the log's save may fail as well.
LEMMA MailFailed ==
    ASSUME Bounds, IInv, NEW s \in Sweeps, SaveFailed(s)
    PROVE  IInv'
<1>1. PICK x \in Mails : x = sweep[s].mail
  BY Mailed DEF SaveFailed
<1>2. /\ Holding(sweep[s], log[x], job[x], copies[x], faults) /\ Logs(log[x], copies[x], faults)
      /\ sweep[s] \in Slot /\ sweep[s].at = "failed"
  BY <1>1, Mailed DEF SaveFailed
<1>3. job[x].at = "none" /\ sweep[s].try \in 1 .. InlineTries /\ copies[x] <= faults /\ copies[x] <= 1 + faults
  BY <1>2 DEF Holding, Logs
<1>4. job' = job /\ copies' = copies /\ owned' = owned
  BY DEF SaveFailed
<1>5. CASE Fault /\ Throws(s) /\ UNCHANGED <<queued, log, alerts>>
  BY <1>2, <1>4, <1>5, MailThrown
<1>6. CASE /\ Status(x, "failed", sweep[s].try) /\ Alert(x)
           /\ sweep' = [sweep EXCEPT ![s] = Idle] /\ UNCHANGED <<Reminding, faults, crashes>>
  <2> DEFINE l == [status |-> "failed", attempts |-> sweep[s].try]
  <2>1. l \in EmailLog /\ l.status = "failed"
    BY <1>3 DEF EmailLog, Tries, Bounds
  <2>2. log' = [log EXCEPT ![x] = l]
    BY <1>6 DEF Status
  <2> HIDE DEF l
  <2>3. Grows
    BY <1>6, QuietGrows
  <2>4. Worked(l, job[x], copies[x], faults') /\ Logs(l, copies[x], faults')
    BY <1>3, <1>6, <2>1 DEF Worked, Logs
  <2>5. log'[x] = l /\ (x \in owned => x \in alerts') /\ alerts \subseteq alerts' /\ alerts' \subseteq owned
    BY <1>6, <2>2 DEF IInv, TypeInv, Alert
  <2>6. Told(x)' /\ Tracked(x)'
    BY <1>4, <2>1, <2>5 DEF Told, Tracked
  <2>7. Idle \in Slot /\ Slotted(Idle) /\ Idle.mail = 0 /\ x # 0
    BY IdleSlot, Counts
  <2>8. /\ job' = [job EXCEPT ![x] = job[x]] /\ job[x] \in Job
        /\ copies' = [copies EXCEPT ![x] = copies[x]] /\ copies[x] \in 0 .. Tries
        /\ owned \subseteq owned' /\ owned' \subseteq owned \cup {x} /\ alerts' \subseteq owned'
    BY <1>4, <2>5, Same
  <2> QED
    BY <1>1, <1>6, <2>1, <2>2, <2>3, <2>4, <2>5, <2>6, <2>7, <2>8, Handled
<1> QED
  BY <1>1, <1>5, <1>6 DEF SaveFailed

LEMMA MailDies ==
    ASSUME Bounds, IInv, NEW s \in Sweeps, Die(s)
    PROVE  IInv'
<1>1. sweep' = [sweep EXCEPT ![s] = Idle] /\ UNCHANGED <<Reminding, Mailing>> /\ Fault
  BY DEF Die
<1>2. sweep' \in [Sweeps -> Slot] /\ sweep'[s] = Idle /\ \A t \in Sweeps : t # s => sweep'[t] = sweep[t]
  BY <1>1, IdleSlot DEF IInv, TypeInv
<1>3. CASE sweep[s].mail = 0
  <2>1. Grows
    BY <1>1, <1>3, FaultGrows DEF Die, Reminding, IInv, TypeInv
  <2>2. \A t \in Sweeps : sweep'[t] = sweep[t] \/ (sweep[t].mail = 0 /\ sweep'[t].mail = 0 /\ Slotted(sweep'[t]))
    BY <1>2, <1>3, IdleSlot
  <2> QED
    BY <1>1, <1>2, <2>1, <2>2, Unmailed
<1>4. CASE sweep[s].mail # 0
  <2>1. PICK x \in Mails : x = sweep[s].mail
    BY <1>4 DEF IInv, TypeInv, Slot, Mails, Bounds
  <2>2. /\ Holding(sweep[s], log[x], job[x], copies[x], faults) /\ Logs(log[x], copies[x], faults)
        /\ Worked(log[x], job[x], copies[x], faults)
    BY <2>1 DEF IInv, MailInv
  <2>3. crashes' = crashes \cup {x}
    BY <1>4, <2>1 DEF Die
  <2>4. Grows
    BY <1>1, <2>3, FaultGrows DEF Reminding, IInv, TypeInv
  <2>5. Worked(log[x], job[x], copies[x], faults') /\ Logs(log[x], copies[x], faults')
    BY <2>2, <2>4, Counts, MoreFaults DEF Grows
  <2>6. log[x].status = "queued" /\ log' = log
    BY <1>1, <2>2 DEF Holding, Mailing
  <2>7. Told(x)' /\ Tracked(x)'
    BY <2>3, <2>6 DEF Told, Tracked
  <2>8. /\ log' = [log EXCEPT ![x] = log[x]] /\ log[x] \in EmailLog
        /\ job' = [job EXCEPT ![x] = job[x]] /\ job[x] \in Job
        /\ copies' = [copies EXCEPT ![x] = copies[x]] /\ copies[x] \in 0 .. Tries
    BY <1>1, Same DEF Mailing
  <2>9. /\ owned \subseteq owned' /\ owned' \subseteq owned \cup {x} /\ alerts \subseteq alerts' /\ alerts' \subseteq owned'
        /\ Idle \in Slot /\ Slotted(Idle) /\ Idle.mail = 0 /\ x # 0
    BY <1>1, IdleSlot, Counts DEF Mailing, IInv, TypeInv
  <2> QED
    BY <1>1, <2>1, <2>4, <2>5, <2>7, <2>8, <2>9, Handled
<1> QED
  BY <1>3, <1>4

-----------------------------------------------------------------------------
(* The queue                                                                 *)

\* A mail the queue has, in numbers.
LEMMA Queueing ==
    ASSUME Bounds, IInv, NEW x \in Mails, job[x].at \in {"waiting", "taken", "failing"}
    PROVE  /\ log[x] \in EmailLog /\ log[x].status \in {"queued", "retrying"} /\ log[x].attempts \in Nat
           /\ job[x] \in Job /\ job[x].made \in Nat /\ job[x].made <= QueueTries
           /\ copies[x] \in Nat /\ faults \in Nat /\ faults <= MaxFaults /\ copies[x] <= 1 + faults
           /\ Worked(log[x], job[x], copies[x], faults)
           /\ alerts \subseteq owned /\ crashes \subseteq Mails
<1>1. log[x] \in EmailLog /\ job[x] \in Job /\ faults \in 0 .. MaxFaults /\ alerts \subseteq owned /\ crashes \subseteq Mails
  BY DEF IInv, TypeInv
<1>2. Tries \in Nat
  BY DEF Tries, Bounds
<1>3. log[x].attempts \in Nat /\ job[x].made \in Nat /\ job[x].made <= QueueTries /\ faults \in Nat /\ faults <= MaxFaults
  BY <1>1, <1>2 DEF EmailLog, Job, Bounds
<1>4. Worked(log[x], job[x], copies[x], faults) /\ Logs(log[x], copies[x], faults)
  BY DEF IInv, MailInv
<1> QED
  BY <1>1, <1>3, <1>4, Counts DEF Worked, Logs

LEMMA MailSent ==
    ASSUME Bounds, IInv, NEW x \in Mails, Send(x)
    PROVE  IInv'
<1>1. job[x].at = "waiting" /\ sweep' = sweep /\ log' = log /\ owned' = owned /\ alerts' = alerts /\ faults' = faults
      /\ UNCHANGED Reminding /\ crashes' = crashes
  BY DEF Send
<1>2. /\ log[x] \in EmailLog /\ log[x].status \in {"queued", "retrying"} /\ log[x].attempts \in Nat
      /\ job[x] \in Job /\ job[x].made \in Nat /\ job[x].made < QueueTries /\ log[x].attempts <= job[x].made
      /\ copies[x] \in Nat /\ faults \in Nat /\ faults <= MaxFaults /\ copies[x] <= faults
      /\ alerts \subseteq owned
  BY <1>1, Queueing DEF Worked
<1>3. Grows
  BY <1>1, QuietGrows
<1>4. PICK j \in Job, c \in 0 .. Tries :
        /\ job' = [job EXCEPT ![x] = j] /\ copies' = [copies EXCEPT ![x] = c]
        /\ j.at \in {"taken", "failing"} /\ c <= 1 + faults
        /\ j.at = "taken" => c >= 1 /\ j.made = job[x].made
        /\ j.at = "failing" => c <= faults /\ j.made = job[x].made + 1
  <2>1. CASE copies' = [copies EXCEPT ![x] = @ + 1] /\ job' = [job EXCEPT ![x].at = "taken"]
    <3>1. PICK c : c = copies[x] + 1
      OBVIOUS
    <3>2. c \in 0 .. Tries /\ c >= 1 /\ c <= 1 + faults /\ copies' = [copies EXCEPT ![x] = c]
      BY <1>2, <2>1, <3>1 DEF Tries, Bounds
    <3> DEFINE j == [job[x] EXCEPT !.at = "taken"]
    <3>3. j \in Job /\ j.at = "taken" /\ j.made = job[x].made
      BY <1>2 DEF Job
    <3>4. job' = [job EXCEPT ![x] = j]
      BY <2>1
    <3> HIDE DEF j
    <3> QED
      BY <3>2, <3>3, <3>4
  <2>2. CASE job' = [job EXCEPT ![x] = [at |-> "failing", made |-> @.made + 1]] /\ copies' = copies
    <3>1. PICK n : n = job[x].made + 1
      OBVIOUS
    <3> DEFINE j == [at |-> "failing", made |-> n]
    <3>2. j \in Job /\ j.at = "failing" /\ j.made = job[x].made + 1
      BY <1>2, <3>1 DEF Job, Bounds
    <3>3. job' = [job EXCEPT ![x] = j]
      BY <2>2, <3>1
    <3> HIDE DEF j
    <3>4. copies' = [copies EXCEPT ![x] = copies[x]] /\ copies[x] \in 0 .. Tries /\ copies[x] <= 1 + faults
      BY <1>2, <2>2, Same
    <3> QED
      BY <1>2, <3>2, <3>3, <3>4
  <2> QED
    BY <2>1, <2>2 DEF Send
<1>5. Worked(log[x], j, c, faults') /\ Logs(log[x], c, faults')
  BY <1>1, <1>2, <1>4 DEF Worked, Logs, Bounds
<1>6. job'[x] = j
  BY <1>4 DEF IInv, TypeInv
<1>7. Told(x)' /\ Tracked(x)'
  BY <1>1, <1>2, <1>4, <1>6 DEF Told, Tracked, Carried
<1>8. log' = [log EXCEPT ![x] = log[x]] /\ alerts \subseteq alerts' /\ alerts' \subseteq owned
  BY <1>1, <1>2, Same
<1> QED
  BY <1>1, <1>2, <1>3, <1>4, <1>5, <1>7, <1>8, Delivered

\* The worker's log after a mail, made or lost.
LEMMA MailTaken ==
    ASSUME Bounds, IInv, NEW x \in Mails, LogSent(x)
    PROVE  IInv'
<1>1. job[x].at = "taken" /\ sweep' = sweep /\ copies' = copies /\ owned' = owned /\ alerts' = alerts
      /\ UNCHANGED Reminding /\ crashes' = crashes
  BY DEF LogSent
<1>2. /\ log[x] \in EmailLog /\ log[x].status \in {"queued", "retrying"} /\ log[x].attempts \in Nat
      /\ job[x] \in Job /\ job[x].made \in Nat /\ job[x].made < QueueTries /\ log[x].attempts <= job[x].made
      /\ copies[x] \in Nat /\ faults \in Nat /\ faults <= MaxFaults /\ copies[x] <= 1 + faults /\ copies[x] >= 1
      /\ alerts \subseteq owned /\ crashes \subseteq Mails
  BY <1>1, Queueing DEF Worked
<1>3. copies' = [copies EXCEPT ![x] = copies[x]] /\ copies[x] \in 0 .. Tries
  BY <1>1, Same
<1>4. CASE Status(x, "sent", log[x].attempts + 1) /\ job' = [job EXCEPT ![x].at = "done"] /\ faults' = faults
  <2>1. PICK n : n = log[x].attempts + 1
    OBVIOUS
  <2> DEFINE l == [status |-> "sent", attempts |-> n]
             j == [job[x] EXCEPT !.at = "done"]
  <2>2. l \in EmailLog /\ l.status = "sent"
    BY <1>2, <2>1 DEF EmailLog, Tries, Bounds
  <2>3. j \in Job /\ j.at = "done"
    BY <1>2 DEF Job
  <2>4. log' = [log EXCEPT ![x] = l] /\ job' = [job EXCEPT ![x] = j]
    BY <1>4, <2>1 DEF Status
  <2> HIDE DEF l, j
  <2>5. Grows
    BY <1>1, <1>4, QuietGrows
  <2>6. Worked(l, j, copies[x], faults') /\ Logs(l, copies[x], faults')
    BY <1>2, <1>4, <2>2, <2>3 DEF Worked, Logs
  <2>7. log'[x] = l
    BY <2>4 DEF IInv, TypeInv
  <2>8. Told(x)' /\ Tracked(x)'
    BY <2>2, <2>7 DEF Told, Tracked
  <2>9. alerts \subseteq alerts' /\ alerts' \subseteq owned /\ job[x].at # "none"
    BY <1>1, <1>2
  <2> QED
    BY <1>1, <1>3, <2>2, <2>3, <2>4, <2>5, <2>6, <2>8, <2>9, Delivered
<1>5. CASE Fault /\ log' = log /\ job' = [job EXCEPT ![x] = [at |-> "failing", made |-> @.made + 1]]
  <2>1. PICK n : n = job[x].made + 1
    OBVIOUS
  <2> DEFINE j == [at |-> "failing", made |-> n]
  <2>2. j \in Job /\ j.at = "failing" /\ j.made = job[x].made + 1
    BY <1>2, <2>1 DEF Job, Bounds
  <2>3. job' = [job EXCEPT ![x] = j]
    BY <1>5, <2>1
  <2> HIDE DEF j
  <2>4. Grows /\ faults' = faults + 1
    BY <1>1, <1>2, <1>5, FaultGrows DEF Reminding, Fault
  <2>5. Worked(log[x], j, copies[x], faults') /\ Logs(log[x], copies[x], faults')
    BY <1>2, <2>2, <2>4 DEF Worked, Logs
  <2>6. job'[x] = j
    BY <2>3 DEF IInv, TypeInv
  <2>7. Told(x)' /\ Tracked(x)'
    BY <1>2, <1>5, <2>2, <2>6 DEF Told, Tracked, Carried
  <2>8. log' = [log EXCEPT ![x] = log[x]] /\ alerts \subseteq alerts' /\ alerts' \subseteq owned /\ job[x].at # "none"
    BY <1>1, <1>2, <1>5, Same
  <2> QED
    BY <1>1, <1>2, <1>3, <2>2, <2>3, <2>4, <2>5, <2>7, <2>8, Delivered
<1> QED
  BY <1>1, <1>4, <1>5 DEF LogSent

\* The failed event: the log's write, made or lost, and the job's next try.
LEMMA MailRetried ==
    ASSUME Bounds, IInv, NEW x \in Mails, OnFailed(x)
    PROVE  IInv'
<1>1. job[x].at = "failing" /\ sweep' = sweep /\ copies' = copies /\ owned' = owned /\ UNCHANGED Reminding
  BY DEF OnFailed
<1>2. /\ log[x] \in EmailLog /\ log[x].status \in {"queued", "retrying"} /\ log[x].attempts \in Nat
      /\ job[x] \in Job /\ job[x].made \in Nat /\ job[x].made <= QueueTries /\ log[x].attempts < job[x].made
      /\ copies[x] \in Nat /\ faults \in Nat /\ faults <= MaxFaults /\ copies[x] <= faults
      /\ alerts \subseteq owned /\ crashes \subseteq Mails
  BY <1>1, Queueing DEF Worked
<1>3. copies' = [copies EXCEPT ![x] = copies[x]] /\ copies[x] \in 0 .. Tries
  BY <1>1, Same
<1>4. PICK j \in Job : /\ job' = [job EXCEPT ![x] = j] /\ j.made = job[x].made
                       /\ \/ j.at = "waiting" /\ job[x].made < QueueTries
                          \/ j.at = "done" /\ job[x].made = QueueTries
  <2>1. CASE job[x].made < QueueTries
    <3> DEFINE j == [job[x] EXCEPT !.at = "waiting"]
    <3>1. j \in Job /\ j.at = "waiting" /\ j.made = job[x].made
      BY <1>2 DEF Job
    <3>2. job' = [job EXCEPT ![x] = j]
      BY <2>1 DEF OnFailed
    <3> HIDE DEF j
    <3> QED
      BY <2>1, <3>1, <3>2
  <2>2. CASE ~(job[x].made < QueueTries)
    <3> DEFINE j == [job[x] EXCEPT !.at = "done"]
    <3>1. j \in Job /\ j.at = "done" /\ j.made = job[x].made
      BY <1>2 DEF Job
    <3>2. job' = [job EXCEPT ![x] = j]
      BY <2>2 DEF OnFailed
    <3>3. job[x].made = QueueTries
      BY <1>2, <2>2 DEF Bounds
    <3> HIDE DEF j
    <3> QED
      BY <3>1, <3>2, <3>3
  <2> QED
    BY <2>1, <2>2
<1>5. job'[x] = j /\ job[x].at # "none"
  BY <1>1, <1>4 DEF IInv, TypeInv
<1>6. CASE Fault /\ crashes' = crashes \cup {x} /\ log' = log /\ alerts' = alerts
  <2>1. Grows /\ faults' = faults + 1
    BY <1>1, <1>2, <1>6, FaultGrows DEF Reminding, Fault
  <2>2. Worked(log[x], j, copies[x], faults') /\ Logs(log[x], copies[x], faults')
    BY <1>2, <1>4, <2>1 DEF Worked, Logs, Bounds
  <2>3. Told(x)' /\ Tracked(x)'
    BY <1>2, <1>6 DEF Told, Tracked
  <2>4. log' = [log EXCEPT ![x] = log[x]] /\ alerts \subseteq alerts' /\ alerts' \subseteq owned
    BY <1>2, <1>6, Same
  <2> QED
    BY <1>1, <1>2, <1>3, <1>4, <1>5, <2>1, <2>2, <2>3, <2>4, Delivered
<1>7. CASE /\ Status(x, IF Final(job[x].made) THEN "failed" ELSE "retrying", log[x].attempts + 1)
           /\ IF Final(job[x].made) THEN Alert(x) ELSE UNCHANGED alerts
           /\ faults' = faults /\ crashes' = crashes
  <2>1. PICK n : n = log[x].attempts + 1
    OBVIOUS
  <2>2. n \in 0 .. Tries /\ n <= job[x].made
    BY <1>2, <2>1 DEF Tries, Bounds
  <2>3. Grows
    BY <1>1, <1>7, QuietGrows
  <2>4. CASE Final(job[x].made)
    <3> DEFINE l == [status |-> "failed", attempts |-> n]
    <3>1. l \in EmailLog /\ l.status = "failed"
      BY <2>2 DEF EmailLog
    <3>2. log' = [log EXCEPT ![x] = l] /\ Alert(x)
      BY <1>7, <2>1, <2>4 DEF Status
    <3> HIDE DEF l
    <3>3. j.at = "done"
      BY <1>2, <1>4, <2>4 DEF Final, Bounds
    <3>4. Worked(l, j, copies[x], faults') /\ Logs(l, copies[x], faults')
      BY <1>2, <1>7, <3>1, <3>3 DEF Worked, Logs
    <3>5. log'[x] = l /\ (x \in owned => x \in alerts') /\ alerts \subseteq alerts' /\ alerts' \subseteq owned
      BY <1>2, <3>2 DEF IInv, TypeInv, Alert
    <3>6. Told(x)' /\ Tracked(x)'
      BY <1>1, <3>1, <3>5 DEF Told, Tracked
    <3> QED
      BY <1>1, <1>3, <1>4, <1>5, <2>3, <3>1, <3>2, <3>4, <3>5, <3>6, Delivered
  <2>5. CASE ~Final(job[x].made)
    <3> DEFINE l == [status |-> "retrying", attempts |-> n]
    <3>1. l \in EmailLog /\ l.status = "retrying" /\ l.attempts = n
      BY <2>2 DEF EmailLog
    <3>2. log' = [log EXCEPT ![x] = l] /\ alerts' = alerts
      BY <1>7, <2>1, <2>5 DEF Status
    <3> HIDE DEF l
    <3>3. j.at = "waiting" /\ j.made = job[x].made /\ job[x].made < QueueTries
      BY <1>2, <1>4, <2>5 DEF Final, Bounds
    <3>4. Worked(l, j, copies[x], faults') /\ Logs(l, copies[x], faults')
      BY <1>2, <1>7, <2>2, <3>1, <3>3 DEF Worked, Logs
    <3>5. log'[x] = l /\ alerts \subseteq alerts' /\ alerts' \subseteq owned
      BY <1>2, <3>2 DEF IInv, TypeInv
    <3>6. Told(x)' /\ Tracked(x)'
      BY <1>5, <3>1, <3>3, <3>5 DEF Told, Tracked, Carried
    <3> QED
      BY <1>1, <1>3, <1>4, <1>5, <2>3, <3>1, <3>2, <3>4, <3>5, <3>6, Delivered
  <2> QED
    BY <2>4, <2>5
<1> QED
  BY <1>6, <1>7 DEF OnFailed

LEMMA MailStalled ==
    ASSUME Bounds, IInv, NEW x \in Mails, Stall(x)
    PROVE  IInv'
<1>1. job[x].at = "taken" /\ Fault /\ job' = [job EXCEPT ![x].at = "waiting"]
      /\ sweep' = sweep /\ log' = log /\ copies' = copies /\ owned' = owned /\ alerts' = alerts
      /\ UNCHANGED Reminding /\ crashes' = crashes
  BY DEF Stall
<1>2. /\ log[x] \in EmailLog /\ log[x].status \in {"queued", "retrying"} /\ log[x].attempts \in Nat
      /\ job[x] \in Job /\ job[x].made \in Nat /\ job[x].made < QueueTries /\ log[x].attempts <= job[x].made
      /\ copies[x] \in Nat /\ faults \in Nat /\ faults <= MaxFaults /\ copies[x] <= 1 + faults
      /\ alerts \subseteq owned /\ crashes \subseteq Mails
  BY <1>1, Queueing DEF Worked
<1> DEFINE j == [job[x] EXCEPT !.at = "waiting"]
<1>3. j \in Job /\ j.at = "waiting" /\ j.made = job[x].made
  BY <1>2 DEF Job
<1>4. job' = [job EXCEPT ![x] = j]
  BY <1>1
<1> HIDE DEF j
<1>5. Grows /\ faults' = faults + 1
  BY <1>1, <1>2, FaultGrows DEF Reminding, Fault
<1>6. Worked(log[x], j, copies[x], faults') /\ Logs(log[x], copies[x], faults')
  BY <1>2, <1>3, <1>5 DEF Worked, Logs, Bounds
<1>7. job'[x] = j
  BY <1>4 DEF IInv, TypeInv
<1>8. Told(x)' /\ Tracked(x)'
  BY <1>1, <1>2, <1>3, <1>7 DEF Told, Tracked, Carried
<1>9. /\ log' = [log EXCEPT ![x] = log[x]] /\ copies' = [copies EXCEPT ![x] = copies[x]] /\ copies[x] \in 0 .. Tries
      /\ alerts \subseteq alerts' /\ alerts' \subseteq owned /\ job[x].at # "none"
  BY <1>1, <1>2, Same
<1> QED
  BY <1>1, <1>2, <1>3, <1>4, <1>5, <1>6, <1>8, <1>9, Delivered

LEMMA MailResent ==
    ASSUME Bounds, IInv, Resent
    PROVE  IInv'
<1>1. sweep' = sweep /\ UNCHANGED Mailing /\ sweep \in [Sweeps -> Slot]
  BY DEF Resent, IInv, TypeInv
<1>2. Grows
  BY FaultGrows DEF Resent, IInv, TypeInv
<1> QED
  BY <1>1, <1>2, Unmailed

-----------------------------------------------------------------------------

LEMMA MailInit == Bounds /\ Init => IInv
<1> SUFFICES ASSUME Bounds, Init PROVE IInv
  OBVIOUS
<1>1. /\ Idle \in Slot /\ Slotted(Idle) /\ Idle.mail = 0 /\ Idle.at = "idle"
      /\ NoJob \in Job /\ NoJob.at = "none"
  BY IdleSlot DEF NoJob, Job, Bounds
<1> DEFINE l == [status |-> "none", attempts |-> 0]
<1>2. l \in EmailLog /\ l.status = "none" /\ l.attempts = 0 /\ 0 \in 0 .. Tries
  BY DEF EmailLog, Tries, Bounds
<1>3. log = [x \in Mails |-> l]
  BY DEF Init
<1> HIDE DEF l
<1>4. sweep = [s \in Sweeps |-> Idle] /\ job = [x \in Mails |-> NoJob] /\ copies = [x \in Mails |-> 0]
  BY DEF Init
<1>5. TypeInv
  <2>1. sweep \in [Sweeps -> Slot] /\ log \in [Mails -> EmailLog] /\ job \in [Mails -> Job] /\ copies \in [Mails -> 0 .. Tries]
    BY <1>1, <1>2, <1>3, <1>4
  <2>2. queued \in BOOLEAN /\ flag \in BOOLEAN /\ owned \subseteq Mails /\ alerts \subseteq owned /\ crashes \subseteq Mails
    BY DEF Init
  <2>3. claims \in 0 .. MaxMails /\ faults \in 0 .. MaxFaults /\ giveBacks \in Nat /\ giveBacks <= faults
    BY DEF Init, Bounds
  <2> QED
    BY <2>1, <2>2, <2>3 DEF TypeInv
<1>6. \A x \in Mails : x # 0 /\ Worked(log[x], job[x], copies[x], faults) /\ Logs(log[x], copies[x], faults)
  BY <1>1, <1>2, <1>3, <1>4 DEF Init, Worked, Logs, Mails, Bounds
<1>7. \A x \in Mails : Told(x) /\ Tracked(x)
  BY <1>2, <1>3 DEF Told, Tracked
<1>8. \A s \in Sweeps : Slotted(sweep[s]) /\ sweep[s].mail = 0
  BY <1>1, <1>4
<1>9. claims <= giveBacks + 1 /\ (~flag => claims <= giveBacks)
  BY DEF Init
<1> QED
  BY <1>5, <1>6, <1>7, <1>8, <1>9 DEF IInv, MailInv

LEMMA MailStep == Bounds /\ IInv /\ [Next]_vars => IInv'
<1> SUFFICES ASSUME Bounds, IInv, [Next]_vars PROVE IInv'
  OBVIOUS
<1>1. CASE \E s \in Sweeps : Find(s) \/ Claim(s) \/ CreateLog(s) \/ Assign(s) \/ Enqueue(s) \/ SendInline(s)
                             \/ SaveSent(s) \/ SaveFailed(s) \/ Die(s)
  BY <1>1, MailBegins, MailCreated, MailEnqueued, MailInline, MailSaved, MailFailed, MailDies
<1>2. CASE \E x \in Mails : Send(x) \/ LogSent(x) \/ OnFailed(x) \/ Stall(x)
  BY <1>2, MailSent, MailTaken, MailRetried, MailStalled
<1>3. CASE Resent
  BY <1>3, MailResent
<1>4. CASE UNCHANGED vars
  <2>1. sweep' = sweep /\ UNCHANGED Mailing /\ sweep \in [Sweeps -> Slot]
    BY <1>4 DEF vars, Mailing, IInv, TypeInv
  <2>2. Grows
    BY <1>4, QuietGrows DEF vars, Reminding
  <2> QED
    BY <2>1, <2>2, Unmailed
<1> QED
  BY <1>1, <1>2, <1>3, <1>4 DEF Next

LEMMA MailInvariant == ASSUME Bounds PROVE Spec => []IInv
<1>1. Init => IInv
  BY MailInit
<1>2. IInv /\ [Next]_vars => IInv'
  BY MailStep
<1> QED
  BY <1>1, <1>2, PTL DEF Spec

LEMMA IInvTypes == ASSUME Bounds, IInv PROVE TypeOK
<1>1. TypeInv /\ giveBacks \in 0 .. MaxFaults
  BY DEF IInv, TypeInv, Bounds
<1> QED
  BY <1>1 DEF TypeInv, TypeOK, Slot, Job

LEMMA IInvAccounts == ASSUME Bounds, IInv PROVE MailIsAccountedFor
<1>1. RemindedOnce
  <2>1. claims \in Int /\ giveBacks \in Int /\ claims <= giveBacks + 1
    BY DEF IInv, TypeInv, MailInv, Bounds
  <2> QED
    BY <2>1 DEF RemindedOnce
<1>2. LogIsTrue
  BY DEF LogIsTrue, IInv, MailInv, Logs
<1>3. FailuresAreTold
  BY DEF FailuresAreTold, IInv, TypeInv, MailInv, Told
<1>4. NothingIsForgotten
  BY DEF NothingIsForgotten, Logged, IInv, MailInv, Tracked
<1> QED
  BY <1>1, <1>2, <1>3, <1>4 DEF MailIsAccountedFor

\* Type correctness.
THEOREM TypeCorrect ==
    ASSUME Bounds
    PROVE  Spec => []TypeOK
<1>1. IInv => TypeOK
  BY IInvTypes
<1> QED
  BY <1>1, MailInvariant, PTL

\* However many instances sweep and however many writes are lost, no reminder is
\* claimed twice for one date, no log says more than the provider did, and no
\* mail is lost that no fault took (interviewReminderJob.js:29-36,
\* emailDispatchService.js:5-9).
THEOREM MailStaysAccountedFor ==
    ASSUME Bounds
    PROVE  Spec => []MailIsAccountedFor
<1>1. IInv => MailIsAccountedFor
  BY IInvAccounts
<1> QED
  BY <1>1, MailInvariant, PTL

-----------------------------------------------------------------------------
(* A candidate's notifications and their badge.                              *)

CONSTANTS Notes, Workers, NoCache
VARIABLES pref, note, cache, worker, overlapped

Bell == INSTANCE Inbox

InboxBounds == IsFiniteSet(Notes) /\ MaxFaults \in Nat /\ NoCache \notin Nat

InboxTypes ==
    /\ pref \in BOOLEAN /\ note \in [Notes -> {"none", "unread", "read", "gone"}]
    /\ cache \in {NoCache} \cup 0 .. Cardinality(Notes)
    /\ worker \in [Workers -> [at : {"idle", "clear", "miss", "counted"}, n : 0 .. Cardinality(Notes)]]
    /\ overlapped \in BOOLEAN /\ faults \in 0 .. MaxFaults

LEMMA NotesAreCounted ==
    ASSUME InboxBounds
    PROVE  /\ Cardinality(Notes) \in Nat /\ \A S : Bell!Cardinality(S) = Cardinality(S)
           /\ Bell!Unread \in 0 .. Cardinality(Notes)
<1>1. \A S : Bell!Cardinality(S) = Cardinality(S)
  BY DEF Bell!Cardinality, Cardinality
<1>2. Cardinality(Notes) \in Nat
  BY FS_CardinalityType DEF InboxBounds
<1> DEFINE U == {i \in Notes : note[i] = "unread"}
<1>3. U \subseteq Notes /\ IsFiniteSet(U) /\ Cardinality(U) <= Cardinality(Notes) /\ Cardinality(U) \in Nat
  BY FS_Subset, FS_CardinalityType DEF InboxBounds
<1>4. Bell!Unread = Cardinality(U)
  BY <1>1 DEF Bell!Unread
<1> HIDE DEF U
<1> QED
  BY <1>1, <1>2, <1>3, <1>4

LEMMA InboxInit == ASSUME InboxBounds, Bell!Init PROVE InboxTypes /\ Bell!BadgeMatches
<1>1. Bell!Idle \in [at : {"idle", "clear", "miss", "counted"}, n : 0 .. Cardinality(Notes)]
  BY NotesAreCounted DEF Bell!Idle
<1>2. worker \in [Workers -> [at : {"idle", "clear", "miss", "counted"}, n : 0 .. Cardinality(Notes)]]
  BY <1>1 DEF Bell!Init
<1>3. note \in [Notes -> {"none", "unread", "read", "gone"}]
  BY DEF Bell!Init
<1>4. pref \in BOOLEAN /\ overlapped \in BOOLEAN
  BY DEF Bell!Init
<1>7. faults \in 0 .. MaxFaults
  <2>1. faults = 0
    BY DEF Bell!Init
  <2> QED
    BY <2>1 DEF InboxBounds
<1>5. cache = NoCache
  BY DEF Bell!Init
<1>6. Bell!BadgeMatches
  BY <1>5 DEF Bell!BadgeMatches
<1> QED
  BY <1>2, <1>3, <1>4, <1>5, <1>6, <1>7 DEF InboxTypes

LEMMA InboxStep ==
    ASSUME InboxBounds, InboxTypes, Bell!BadgeMatches, [Bell!Next]_(Bell!vars)
    PROVE  InboxTypes' /\ Bell!BadgeMatches'
<1> DEFINE Max == Cardinality(Notes)
<1>0. Max \in Nat /\ Bell!Unread \in 0 .. Max
  BY NotesAreCounted
<1>1. ASSUME NEW w \in Workers, NEW i \in Notes, NEW own \in BOOLEAN, Bell!Notify(w, i, own)
      PROVE  InboxTypes' /\ Bell!BadgeMatches'
  <2>1. PICK at \in {"clear", "idle"} : worker' = [worker EXCEPT ![w] = [at |-> at, n |-> 0]] /\ (at = "clear" <=> own)
    BY <1>1 DEF Bell!Notify, Bell!Step
  <2>2. [at |-> at, n |-> 0] \in [at : {"idle", "clear", "miss", "counted"}, n : 0 .. Max]
    BY <1>0
  <2>3. worker' \in [Workers -> [at : {"idle", "clear", "miss", "counted"}, n : 0 .. Max]] /\ worker'[w].at = at
        /\ \A x \in Workers : x # w => worker'[x] = worker[x]
    BY <2>1, <2>2 DEF InboxTypes
  <2>4. InboxTypes'
    BY <1>1, <2>3 DEF InboxTypes, Bell!Notify
  <2>5. Bell!BadgeMatches'
    <3>1. CASE own
      BY <2>1, <2>3, <3>1 DEF Bell!BadgeMatches
    <3>2. CASE ~own
      BY <1>1, <3>2 DEF Bell!BadgeMatches, Bell!Notify
    <3> QED
      BY <3>1, <3>2
  <2> QED
    BY <2>4, <2>5
<1>2. ASSUME NEW w \in Workers,
             \/ \E i \in Notes : Bell!MarkRead(w, i) \/ Bell!Remove(w, i)
             \/ Bell!MarkAllRead(w)
      PROVE  InboxTypes' /\ Bell!BadgeMatches'
  <2>1. worker' = [worker EXCEPT ![w] = [at |-> "clear", n |-> 0]] /\ UNCHANGED <<pref, cache, overlapped, faults>>
    BY <1>2 DEF Bell!MarkRead, Bell!Remove, Bell!MarkAllRead, Bell!Step
  <2>2. note' \in [Notes -> {"none", "unread", "read", "gone"}]
    BY <1>2 DEF Bell!MarkRead, Bell!Remove, Bell!MarkAllRead, InboxTypes
  <2>3. [at |-> "clear", n |-> 0] \in [at : {"idle", "clear", "miss", "counted"}, n : 0 .. Max]
    BY <1>0
  <2>4. worker' \in [Workers -> [at : {"idle", "clear", "miss", "counted"}, n : 0 .. Max]] /\ worker'[w].at = "clear"
    BY <2>1, <2>3 DEF InboxTypes
  <2> QED
    BY <2>1, <2>2, <2>4 DEF InboxTypes, Bell!BadgeMatches
<1>3. ASSUME NEW w \in Workers, Bell!DeleteKey(w) PROVE InboxTypes' /\ Bell!BadgeMatches'
  <2>1. worker' = [worker EXCEPT ![w] = [at |-> "idle", n |-> 0]] /\ UNCHANGED <<pref, note>>
    BY <1>3 DEF Bell!DeleteKey, Bell!Step
  <2>2. [at |-> "idle", n |-> 0] \in [at : {"idle", "clear", "miss", "counted"}, n : 0 .. Max]
    BY <1>0
  <2>3. worker' \in [Workers -> [at : {"idle", "clear", "miss", "counted"}, n : 0 .. Max]]
    BY <2>1, <2>2 DEF InboxTypes
  <2>4. cache' \in {NoCache} \cup 0 .. Max /\ overlapped' \in BOOLEAN /\ faults' \in 0 .. MaxFaults
    <3>1. CASE cache' = NoCache /\ overlapped' = FALSE /\ UNCHANGED faults
      BY <3>1 DEF InboxTypes
    <3>2. CASE faults < MaxFaults /\ faults' = faults + 1 /\ overlapped' = (overlapped \/ cache # NoCache) /\ UNCHANGED cache
      <4>1. faults' \in 0 .. MaxFaults
        BY <3>2 DEF InboxTypes, InboxBounds
      <4>2. overlapped' \in BOOLEAN
        BY <3>2
      <4>3. cache' \in {NoCache} \cup 0 .. Max
        BY <3>2 DEF InboxTypes
      <4> QED
        BY <4>1, <4>2, <4>3
    <3> QED
      BY <1>3, <3>1, <3>2 DEF Bell!DeleteKey
  <2> QED
    BY <1>3, <2>1, <2>3, <2>4 DEF InboxTypes, Bell!BadgeMatches, Bell!DeleteKey
<1>4. ASSUME NEW w \in Workers, Bell!Miss(w) \/ Bell!Count(w) PROVE InboxTypes' /\ Bell!BadgeMatches'
  <2>1. PICK at \in {"miss", "counted"}, n \in 0 .. Max : worker' = [worker EXCEPT ![w] = [at |-> at, n |-> n]]
    BY <1>0, <1>4 DEF Bell!Miss, Bell!Count, Bell!Step
  <2>2. [at |-> at, n |-> n] \in [at : {"idle", "clear", "miss", "counted"}, n : 0 .. Max]
    BY <1>0
  <2>3. worker' \in [Workers -> [at : {"idle", "clear", "miss", "counted"}, n : 0 .. Max]] /\ worker[w].at # "clear"
        /\ \A x \in Workers : x # w => worker'[x] = worker[x]
    BY <1>4, <2>1, <2>2 DEF InboxTypes, Bell!Miss, Bell!Count, Bell!Idle
  <2>4. UNCHANGED <<pref, note, cache, overlapped, faults>>
    BY <1>4 DEF Bell!Miss, Bell!Count
  <2>5. Bell!Unread' = Bell!Unread
    BY <2>4 DEF Bell!Unread
  <2> QED
    BY <2>3, <2>4, <2>5 DEF InboxTypes, Bell!BadgeMatches
<1>5. ASSUME NEW w \in Workers, Bell!SetCount(w) PROVE InboxTypes' /\ Bell!BadgeMatches'
  <2>1. worker' = [worker EXCEPT ![w] = [at |-> "idle", n |-> 0]] /\ UNCHANGED <<pref, note, faults>>
        /\ cache' = worker[w].n /\ overlapped' = (worker[w].n # Bell!Unread)
    BY <1>5 DEF Bell!SetCount, Bell!Step
  <2>2. [at |-> "idle", n |-> 0] \in [at : {"idle", "clear", "miss", "counted"}, n : 0 .. Max]
    BY <1>0
  <2>3. worker' \in [Workers -> [at : {"idle", "clear", "miss", "counted"}, n : 0 .. Max]] /\ cache' \in 0 .. Max
    BY <2>1, <2>2 DEF InboxTypes
  <2>4. Bell!Unread' = Bell!Unread
    BY <2>1 DEF Bell!Unread
  <2>5. InboxTypes'
    BY <2>1, <2>3 DEF InboxTypes
  <2>6. Bell!BadgeMatches'
    BY <2>1, <2>4 DEF Bell!BadgeMatches
  <2> QED
    BY <2>5, <2>6
<1>6. CASE Bell!Expire \/ Bell!UpdatePreference \/ UNCHANGED Bell!vars
  BY <1>6 DEF Bell!Expire, Bell!UpdatePreference, Bell!vars, InboxTypes, Bell!BadgeMatches, Bell!Unread
<1> QED
  BY <1>1, <1>2, <1>3, <1>4, <1>5, <1>6 DEF Bell!Next

(* The notifications, the cached count and the requests keep their types.    *)
THEOREM InboxIsTyped == ASSUME InboxBounds PROVE Bell!Spec => []Bell!TypeOK
<1>1. Bell!Init => InboxTypes /\ Bell!BadgeMatches
  BY InboxInit
<1>2. InboxTypes /\ Bell!BadgeMatches /\ [Bell!Next]_(Bell!vars) => InboxTypes' /\ Bell!BadgeMatches'
  BY InboxStep
<1>3. InboxTypes => Bell!TypeOK
  BY NotesAreCounted DEF InboxTypes, Bell!TypeOK
<1> QED
  BY <1>1, <1>2, <1>3, PTL DEF Bell!Spec

(* Once every change has dropped the key, a cached badge is the number of
   unread notifications, or a change overlapped the request that cached it
   (notifyCandidate, markRead, unreadCount, deleteKey).                      *)
THEOREM BadgesMatch == ASSUME InboxBounds PROVE Bell!Spec => []Bell!BadgeMatches
<1>1. Bell!Init => InboxTypes /\ Bell!BadgeMatches
  BY InboxInit
<1>2. InboxTypes /\ Bell!BadgeMatches /\ [Bell!Next]_(Bell!vars) => InboxTypes' /\ Bell!BadgeMatches'
  BY InboxStep
<1> QED
  BY <1>1, <1>2, PTL DEF Bell!Spec

=============================================================================
