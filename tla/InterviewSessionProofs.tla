------------------------- MODULE InterviewSessionProofs -------------------------
(***************************************************************************)
(* Type correctness of InterviewSession for any number of handlers and     *)
(* workers, and what it guarantees while the handlers of one application   *)
(* do not overlap: retired and completed attempts are final, and an        *)
(* interview nobody reopens is evaluated on all its answers, however many  *)
(* workers run, die and start again.                                       *)
(* The last part is about InterviewTurns, what is said within one attempt: *)
(* for any number of questions, probes and side exchanges the approved     *)
(* questions are asked and no gap is scored.                               *)
(***************************************************************************)
EXTENDS InterviewSession, Sequences, FiniteSetTheorems, WellFoundedInduction, TLAPS

\* What a slot holds where it is going to use it.
WorkOK(s) ==
    /\ pc[s] # "idle" => call[s] \in Calls /\ docs[call[s].at] # None
    /\ pc[s] \in {"expire", "handle", "begin", "evaluate"} => local[s] \in Documents
    /\ pc[s] = "create" => call[s].at < MaxAttempts
    /\ pc[s] = "handle" /\ call[s].kind \in Reschedules => call[s].at < MaxAttempts

\* A token or a job is of an attempt that exists; attempts are numbered from 1.
Created == \E n \in AttemptNos : Issued = 1..n

TypeInv ==
    /\ TypeOK
    /\ \A s \in Slots : WorkOK(s)
    /\ tab # None => docs[tab.at] # None
    /\ \A a \in AttemptNos : queue[a] > 0 => docs[a] # None
    /\ Created

\* The handlers of one application do not overlap; any number of workers may.
\* With two, a resend loaded before a reschedule revives what that retires.
OneRequest == \A q, r \in Requests : q = r

\* Who decides about a link has the latest attempt, and its word for how the
\* interview stands.
RotationOK(r) ==
    /\ pc[r] = "handle" /\ call[r].kind \in Rotations =>
        /\ \A a \in Issued : a <= call[r].at
        /\ local[r].ai = docs[call[r].at].ai
    /\ pc[r] = "create" => ~docs[call[r].at].valid /\ \A a \in Issued : a <= call[r].at

FinalInv ==
    /\ \A a, b \in Issued : a < b => ~docs[a].valid
    /\ \A r \in Requests : RotationOK(r)

\* A swept interview is only reopened on a link issued again: there are no
\* sweeps, or no link is.
NothingReopens == Kinds \cap Sweeps = {} \/ Kinds \cap Resends = {}

EndingOf(s, a) == pc[s] \in {"schedule", "evaluate"} /\ call[s].at = a

AttemptOK(a) ==
    /\ docs[a].ai # "not_started" => docs[a].started
    /\ docs[a].ai = "abandoned" => ~docs[a].valid /\ Kinds \cap Sweeps # {}
    /\ docs[a].covers # None => docs[a].ai \in Ended /\ docs[a].covers = docs[a].answers
    /\ queue[a] > 0 => docs[a].ai \in Ended
    /\ docs[a].ai \in Ended /\ docs[a].covers = None =>
        \/ queue[a] > 0
        \/ <<a, "report">> \in lost
        \/ \E s \in Slots : EndingOf(s, a)

\* What a handler has read of the interview is still so when it decides on it, ...
RequestOK(r) ==
    /\ pc[r] = "schedule" => docs[call[r].at].ai \in Ended
    /\ pc[r] \in {"handle", "begin"} =>
        /\ local[r].ai = docs[call[r].at].ai /\ local[r].started = docs[call[r].at].started
        /\ docs[call[r].at].valid => local[r].valid
        /\ call[r].kind = "begin" => local[r].ai # "abandoned"
        /\ call[r].kind \in Sweeps => local[r].ai = "in_progress"
        /\ call[r].kind \in Kinds
    /\ pc[r] = "begin" => call[r].kind = "begin"

\* ... and a worker evaluates all the answers there are.
WorkerOK(w) ==
    pc[w] = "evaluate" => docs[call[w].at].ai \in Ended /\ local[w].answers = docs[call[w].at].answers

ReportInv ==
    /\ \A a \in Issued : AttemptOK(a)
    /\ \A r \in Requests : RequestOK(r)
    /\ \A w \in Workers : WorkerOK(w)

USE SlotAssumption, KindAssumption, BoundAssumption, NoneAssumption, AbsenceAssumption

-----------------------------------------------------------------------------
(* Documents                                                               *)

LEMMA FirstAttempt == 1 \in AttemptNos
BY DEF AttemptNos

LEMMA NewSessionTyped == NewSession \in Documents
BY DEF NewSession, Documents, Statuses, AiStatuses, Ended

\* The edits of a document the handlers make.
LEMMA EditsTyped ==
    ASSUME NEW d \in Documents, NEW x \in Nat, NEW y \in Nat, NEW b \in BOOLEAN,
           NEW st \in Statuses, NEW ai \in AiStatuses, NEW n \in Nat \cup {None}
    PROVE  /\ [d EXCEPT !.status = st] \in Documents
           /\ [d EXCEPT !.status = st, !.started = b] \in Documents
           /\ [d EXCEPT !.ai = ai, !.covers = n] \in Documents
           /\ [d EXCEPT !.ai = ai, !.started = b] \in Documents
           /\ [d EXCEPT !.answers = @ + x, !.scored = @ + y] \in Documents
           /\ [d EXCEPT !.ai = ai, !.status = st, !.answers = @ + x] \in Documents
           /\ [d EXCEPT !.away = b] \in Documents
           /\ [d EXCEPT !.ai = ai, !.status = st, !.valid = b] \in Documents
           /\ [d EXCEPT !.epoch = x + 1, !.valid = b, !.status = st] \in Documents
           /\ [d EXCEPT !.covers = n, !.scored = y] \in Documents
           /\ [d EXCEPT !.valid = b] \in Documents
<1>1. [d EXCEPT !.status = st] \in Documents
  BY DEF Documents
<1>2. [d EXCEPT !.status = st, !.started = b] \in Documents
  BY DEF Documents
<1>3. [d EXCEPT !.ai = ai, !.covers = n] \in Documents
  BY DEF Documents
<1>4. [d EXCEPT !.ai = ai, !.started = b] \in Documents
  BY DEF Documents
<1> d.answers \in Nat /\ d.scored \in Nat
  BY DEF Documents
<1> PICK v \in Nat, w \in Nat, u \in Nat : v = d.answers + x /\ w = d.scored + y /\ u = x + 1
  OBVIOUS
<1>5. [d EXCEPT !.answers = v, !.scored = w] \in Documents
  BY DEF Documents
<1>6. [d EXCEPT !.ai = ai, !.status = st, !.answers = v] \in Documents
  BY DEF Documents
<1>7. [d EXCEPT !.away = b] \in Documents
  BY DEF Documents
<1>8. [d EXCEPT !.ai = ai, !.status = st, !.valid = b] \in Documents
  BY DEF Documents
<1>9. [d EXCEPT !.epoch = u, !.valid = b, !.status = st] \in Documents
  BY DEF Documents
<1>10. [d EXCEPT !.covers = n, !.scored = y] \in Documents
  BY DEF Documents
<1>11. [d EXCEPT !.valid = b] \in Documents
  BY DEF Documents
<1> QED
  BY <1>1, <1>2, <1>3, <1>4, <1>5, <1>6, <1>7, <1>8, <1>9, <1>10, <1>11

LEMMA FieldsTyped ==
    ASSUME NEW d \in Documents
    PROVE  /\ d.status \in Statuses /\ d.ai \in AiStatuses /\ d.epoch \in Nat
           /\ d.valid \in BOOLEAN /\ d.started \in BOOLEAN /\ d.away \in BOOLEAN
           /\ d.answers \in Nat /\ d.scored \in Nat /\ d.covers \in Nat \cup {None}
BY DEF Documents

-----------------------------------------------------------------------------
(* What the steps share                                                    *)

\* A slot at work has an attempt that exists.
LEMMA AtWork ==
    ASSUME TypeInv, NEW s \in Slots, pc[s] # "idle"
    PROVE  /\ call[s] \in Calls /\ call[s].at \in AttemptNos /\ call[s].at \in Issued
           /\ docs[call[s].at] \in Documents /\ Stored(s) = docs[call[s].at]
           /\ tries \in [Workers -> 0..MaxTries]
BY DEF TypeInv, TypeOK, WorkOK, Calls, Issued, Stored

LEMMA StaysCreated ==
    ASSUME Created, docs' \in [AttemptNos -> Documents \cup {None}],
           \A a \in AttemptNos : docs[a] # None <=> docs'[a] # None
    PROVE  Created'
<1>1. Issued' = Issued
  BY DEF Issued
<1> QED
  BY <1>1 DEF Created

\* Everything but the document is as it was, or typed.
LEMMA SaveTyped ==
    ASSUME TypeInv, NEW s \in Slots, pc[s] # "idle", NEW d \in Documents, NEW bumps \in BOOLEAN,
           NEW next \in Steps, NEW kept \in Documents \cup {None}, Save(s, d, bumps, next, kept),
           next \in {"idle", "schedule", "advance", "create", "begin"},
           next = "begin" => kept \in Documents,
           next = "create" => call[s].at < MaxAttempts,
           UNCHANGED <<stage, tab, queue, tries, lost>>
    PROVE  TypeInv'
<1> DEFINE a == call[s].at
<1>1. a \in AttemptNos /\ docs[a] # None /\ call[s] \in Calls /\ d # None
  BY AtWork DEF Issued
<1>2. /\ docs' = [docs EXCEPT ![a] = d] /\ pc' = [pc EXCEPT ![s] = next]
      /\ call' = IF next = "idle" THEN [call EXCEPT ![s] = None] ELSE call
      /\ local' = [local EXCEPT ![s] = kept]
  BY DEF Save, Leave
<1>3. stale' \in [Slots -> BOOLEAN]
  BY DEF Save, TypeInv, TypeOK
<1>4. TypeOK'
  BY <1>1, <1>2, <1>3 DEF TypeInv, TypeOK
<1>5. \A b \in AttemptNos : docs[b] # None <=> docs'[b] # None
  BY <1>1, <1>2 DEF TypeInv, TypeOK
<1>6. ASSUME NEW q \in Slots PROVE WorkOK(q)'
  <2>1. CASE q = s
    BY <2>1, <1>1, <1>2, <1>5 DEF TypeInv, TypeOK, WorkOK, Calls
  <2>2. CASE q # s
    <3>1. pc'[q] = pc[q] /\ call'[q] = call[q] /\ local'[q] = local[q]
      BY <2>2, <1>2 DEF TypeInv, TypeOK
    <3> QED
      BY <3>1, <1>5 DEF TypeInv, WorkOK, Calls
  <2> QED
    BY <2>1, <2>2
<1>7. Created'
  BY <1>4, <1>5, StaysCreated DEF TypeInv, TypeOK
<1>8. (tab # None => docs[tab.at] # None)' /\ (\A b \in AttemptNos : queue[b] > 0 => docs[b] # None)'
  BY <1>5 DEF TypeInv, TypeOK, Tokens
<1> QED
  BY <1>4, <1>6, <1>7, <1>8 DEF TypeInv

\* A slot is done, or goes on to a save that needs no copy but the one it has.
LEMMA LeaveTyped ==
    ASSUME TypeInv, NEW s \in Slots, pc[s] # "idle", NEW next \in {"idle", "begin"}, NEW kept \in Documents \cup {None},
           next = "begin" => kept \in Documents,
           Leave(s, next, kept), UNCHANGED <<docs, tab>>, stale' \in [Slots -> BOOLEAN],
           queue' \in [AttemptNos -> Nat], \A b \in AttemptNos : queue'[b] > queue[b] => b = call[s].at,
           tries' \in [Workers -> 0..MaxTries],
           stage' \in {"interview_scheduled", "ai_interview_completed"}, lost' \subseteq AttemptNos \X {"report", "move"}
    PROVE  TypeInv'
<1>1. call[s].at \in AttemptNos /\ docs[call[s].at] # None /\ call[s] \in Calls
  BY AtWork DEF Issued
<1>2. /\ pc' = [pc EXCEPT ![s] = next] /\ local' = [local EXCEPT ![s] = kept]
      /\ call' = IF next = "idle" THEN [call EXCEPT ![s] = None] ELSE call
  BY DEF Leave
<1>3. TypeOK'
  BY <1>1, <1>2 DEF TypeInv, TypeOK, Steps
<1>4. ASSUME NEW q \in Slots PROVE WorkOK(q)'
  <2>1. CASE q = s
    BY <2>1, <1>1, <1>2 DEF TypeInv, TypeOK, WorkOK
  <2>2. CASE q # s
    <3>1. pc'[q] = pc[q] /\ call'[q] = call[q] /\ local'[q] = local[q]
      BY <2>2, <1>2 DEF TypeInv, TypeOK
    <3> QED
      BY <3>1 DEF TypeInv, WorkOK
  <2> QED
    BY <2>1, <2>2
<1>5. Created'
  BY <1>3, StaysCreated DEF TypeInv, TypeOK
<1>6. \A b \in AttemptNos : queue'[b] > 0 => docs'[b] # None
  BY <1>1 DEF TypeInv, TypeOK
<1> QED
  BY <1>3, <1>4, <1>5, <1>6 DEF TypeInv

\* A slot takes a copy of an attempt that exists.
LEMMA LoadTyped ==
    ASSUME TypeInv, NEW s \in Slots, NEW kind \in AllKinds \cup {"finalize"}, NEW a \in Issued,
           NEW step \in {"expire", "handle", "evaluate"}, Load(s, kind, a, step),
           kind \in Reschedules => a < MaxAttempts, UNCHANGED <<docs, tab, stage, lost>>,
           queue' \in [AttemptNos -> Nat], \A b \in AttemptNos : queue'[b] <= queue[b],
           tries' \in [Workers -> 0..MaxTries]
    PROVE  TypeInv'
<1>1. a \in AttemptNos /\ docs[a] # None /\ docs[a] \in Documents
  BY DEF Issued, TypeInv, TypeOK
<1> DEFINE c == [kind |-> kind, at |-> a]
<1>2. c \in Calls /\ c.kind = kind /\ c.at = a
  BY <1>1 DEF Calls
<1>3. /\ pc' = [pc EXCEPT ![s] = step] /\ call' = [call EXCEPT ![s] = c]
      /\ local' = [local EXCEPT ![s] = docs[a]] /\ stale' = [stale EXCEPT ![s] = FALSE]
  BY DEF Load
<1> HIDE DEF c
<1>4. TypeOK'
  <2>1. step \in Steps
    BY DEF Steps
  <2> QED
    BY <2>1, <1>1, <1>2, <1>3 DEF TypeInv, TypeOK
<1>5. ASSUME NEW q \in Slots PROVE WorkOK(q)'
  <2>1. CASE q = s
    BY <2>1, <1>1, <1>2, <1>3 DEF TypeInv, TypeOK, WorkOK
  <2>2. CASE q # s
    <3>1. pc'[q] = pc[q] /\ call'[q] = call[q] /\ local'[q] = local[q]
      BY <2>2, <1>3 DEF TypeInv, TypeOK
    <3> QED
      BY <3>1 DEF TypeInv, WorkOK
  <2> QED
    BY <2>1, <2>2
<1>6. Created'
  BY <1>4, StaysCreated DEF TypeInv, TypeOK
<1>7. \A b \in AttemptNos : queue'[b] > 0 => docs'[b] # None
  BY DEF TypeInv, TypeOK
<1> QED
  BY <1>4, <1>5, <1>6, <1>7 DEF TypeInv

LEMMA DropTyped ==
    ASSUME TypeInv, NEW s \in Slots, pc[s] # "idle", Drop(s), UNCHANGED <<tab, queue>>,
           tries' \in [Workers -> 0..MaxTries],
           stage' \in {"interview_scheduled", "ai_interview_completed"}, lost' \subseteq AttemptNos \X {"report", "move"}
    PROVE  TypeInv'
<1>1. stale' \in [Slots -> BOOLEAN] /\ UNCHANGED docs /\ Leave(s, "idle", None)
  BY DEF Drop, TypeInv, TypeOK
<1>2. queue' \in [AttemptNos -> Nat] /\ \A b \in AttemptNos : ~(queue'[b] > queue[b])
  BY DEF TypeInv, TypeOK
<1> QED
  BY <1>1, <1>2, LeaveTyped

\* The highest attempt, whatever a load asks for.
LEMMA LatestAttempt ==
    ASSUME TypeInv
    PROVE  Latest \in Issued /\ \A b \in Issued : b <= Latest
<1>1. PICK n \in AttemptNos : Issued = 1..n
  BY DEF TypeInv, Created
<1>2. n \in Issued /\ \A b \in Issued : b <= n
  BY <1>1 DEF AttemptNos
<1> QED
  BY <1>2 DEF Latest

-----------------------------------------------------------------------------
(* Type correctness                                                        *)

LEMMA TypeInit == Init => TypeInv
<1> SUFFICES ASSUME Init PROVE TypeInv
  OBVIOUS
<1>1. TypeOK
  BY FirstAttempt, NewSessionTyped DEF Init, TypeOK, Steps
<1>2. Issued = 1..1
  BY FirstAttempt, NewSessionTyped DEF Init, Issued, AttemptNos
<1>3. \A a \in AttemptNos : queue[a] = 0
  BY DEF Init
<1>4. \A s \in Slots : WorkOK(s)
  BY DEF Init, WorkOK
<1> QED
  BY <1>1, <1>2, <1>3, <1>4, FirstAttempt DEF TypeInv, Created, Init

LEMMA ArriveTyped == ASSUME TypeInv, NEW r \in Requests, Arrive(r) PROVE TypeInv'
<1> r \in Slots
  BY DEF Slots
<1>1. queue \in [AttemptNos -> Nat] /\ tries \in [Workers -> 0..MaxTries] /\ tab \in Tokens \cup {None}
  BY DEF TypeInv, TypeOK
<1>2. \A b \in AttemptNos : queue[b] <= queue[b]
  BY <1>1
<1>3. ASSUME NEW kind \in Portal, Authenticate(r, kind) PROVE TypeInv'
  <2>1. tab.at \in Issued
    BY <1>1, <1>3 DEF Authenticate, TypeInv, Issued, Tokens
  <2>2. kind \in AllKinds /\ kind \notin Reschedules
    BY DEF Portal, AllKinds, Reschedules
  <2>3. PICK step \in {"handle", "expire"} : Load(r, kind, tab.at, step)
    BY <1>3 DEF Authenticate
  <2> QED
    BY <1>1, <1>2, <1>3, <2>1, <2>2, <2>3, LoadTyped DEF Authenticate
<1>4. ASSUME NEW a \in Issued, Login(r, a) PROVE TypeInv'
  <2>1. a \in AttemptNos /\ docs[a] \in Documents /\ docs[a].epoch \in Nat
    BY FieldsTyped DEF Issued, TypeInv, TypeOK
  <2>2. CASE docs[a].valid
    <3>1. [at |-> a, epoch |-> docs[a].epoch] \in Tokens
      BY <2>1 DEF Tokens
    <3>2. TypeOK'
      BY <1>4, <2>2, <3>1 DEF Login, TypeInv, TypeOK
    <3>3. \A s \in Slots : WorkOK(s)'
      BY <1>4, <2>2 DEF Login, TypeInv, WorkOK
    <3>4. Created' /\ UNCHANGED <<docs, queue>>
      BY <1>4 DEF Login, TypeInv, Created, Issued
    <3> QED
      BY <1>4, <2>1, <2>2, <3>2, <3>3, <3>4 DEF Login, TypeInv, Issued
  <2>3. CASE ~docs[a].valid
    <3>1. "begin" \in AllKinds /\ "begin" \notin Reschedules
      BY DEF Portal, AllKinds, Reschedules
    <3> QED
      BY <1>1, <1>2, <1>4, <2>3, <3>1, LoadTyped DEF Login
  <2> QED
    BY <2>1, <2>2, <2>3
<1>5. ASSUME NEW a \in Issued, SweepExpired(r, a) PROVE TypeInv'
  <2>1. "sweepExpired" \in AllKinds /\ "sweepExpired" \notin Reschedules
    BY DEF Sweeps, AllKinds, Reschedules
  <2> QED
    BY <1>1, <1>2, <1>5, <2>1, LoadTyped DEF SweepExpired
<1>6. ASSUME NEW a \in Issued, SweepAway(r, a) PROVE TypeInv'
  <2>1. "sweepAway" \in AllKinds /\ "sweepAway" \notin Reschedules
    BY DEF Sweeps, AllKinds, Reschedules
  <2> QED
    BY <1>1, <1>2, <1>6, <2>1, LoadTyped DEF SweepAway
<1>7. ASSUME NEW a \in Issued, NEW kind \in Rotations, LoadRotation(r, kind, a) PROVE TypeInv'
  <2>1. kind \in AllKinds
    BY DEF AllKinds
  <2> QED
    BY <1>1, <1>2, <1>7, <2>1, LoadTyped DEF LoadRotation
<1> QED
  BY <1>3, <1>4, <1>5, <1>6, <1>7 DEF Arrive

LEMMA ProceedTyped == ASSUME TypeInv, NEW r \in Requests, Proceed(r) PROVE TypeInv'
<1> r \in Slots
  BY DEF Slots
<1> DEFINE rest == UNCHANGED <<stage, tab, queue, tries, lost>>
<1> DEFINE a == call[r].at
<1>0. /\ stage \in {"interview_scheduled", "ai_interview_completed"} /\ lost \subseteq AttemptNos \X {"report", "move"}
      /\ tries \in [Workers -> 0..MaxTries] /\ stale \in [Slots -> BOOLEAN] /\ queue \in [AttemptNos -> Nat]
  BY DEF TypeInv, TypeOK
<1>1. pc[r] # "idle"
  BY DEF Proceed, MarkExpired, StartSession, Reopen, Plan, Resume, Answer, Complete, Withdraw, Halt, Terminate,
         NothingToEnd, RecordPresence, Abandon, RefuseRotation, Reissue, Retire, CreateAttempt, Schedule,
         FailToSchedule, At
<1>2. /\ a \in AttemptNos /\ Stored(r) \in Documents /\ docs[a] \in Documents /\ Stored(r) = docs[a]
      /\ call[r] \in Calls
  BY <1>1, AtWork
<1>3. pc[r] \in {"expire", "handle", "begin"} => local[r] \in Documents
  BY DEF TypeInv, WorkOK
<1>4. {"idle", "begin", "schedule", "create"} \subseteq Steps /\ {"scheduled", "in_progress", "completed", "expired", "cancelled"} \subseteq Statuses
      /\ {"in_progress", "completed", "ended_early", "halted", "integrity_terminated", "abandoned"} \subseteq AiStatuses
  BY DEF Steps, Statuses, AiStatuses, Ended
<1>5. ASSUME NEW d \in Documents, NEW bumps \in BOOLEAN, NEW next \in {"idle", "schedule"},
             Save(r, d, bumps, next, None), rest
      PROVE  TypeInv'
  BY <1>1, <1>4, <1>5, SaveTyped
<1>6. ASSUME Drop(r), rest PROVE TypeInv'
  BY <1>0, <1>1, <1>6, DropTyped
<1>7. CASE MarkExpired(r)
  BY <1>2, <1>4, <1>5, <1>7, EditsTyped DEF MarkExpired
<1>8. CASE StartSession(r)
  <2>1. local[r] \in Documents
    BY <1>3, <1>8 DEF StartSession, At
  <2>2. CASE local[r].status = "scheduled"
    <3> DEFINE d == [Stored(r) EXCEPT !.status = "in_progress", !.started = TRUE]
               k == [local[r] EXCEPT !.status = "in_progress", !.started = TRUE]
    <3>1. d \in Documents /\ k \in Documents
      BY <1>2, <1>4, <2>1, EditsTyped
    <3>2. Save(r, d, FALSE, "begin", k) /\ rest
      BY <1>8, <2>2 DEF StartSession
    <3> HIDE DEF d, k
    <3> QED
      BY <1>1, <1>4, <3>1, <3>2, SaveTyped
  <2>3. CASE local[r].status # "scheduled"
    <3>1. Leave(r, "begin", local[r]) /\ UNCHANGED <<docs, stale>> /\ rest
      BY <1>8, <2>3 DEF StartSession
    <3>2. \A b \in AttemptNos : ~(queue[b] > queue[b])
      BY <1>0
    <3> QED
      BY <1>0, <1>1, <2>1, <3>1, <3>2, LeaveTyped
  <2> QED
    BY <2>2, <2>3
<1>9. CASE Reopen(r)
  <2>1. [Stored(r) EXCEPT !.ai = "in_progress", !.covers = None] \in Documents
    BY <1>2, <1>4 DEF Documents
  <2> QED
    BY <1>5, <1>9, <2>1 DEF Reopen
<1>10. CASE Plan(r)
  BY <1>2, <1>4, <1>5, <1>6, <1>10, EditsTyped, ZenonT(60) DEF Plan
<1>11. CASE Resume(r)
  BY <1>6, <1>11 DEF Resume
<1>12. CASE Answer(r)
  <2>1. CASE local[r].ai # "in_progress"
    BY <1>6, <1>12, <2>1 DEF Answer
  <2>2. CASE local[r].ai = "in_progress"
    <3>1. PICK gain \in {0, 1}, inline \in {0, 1}, marks \in BOOLEAN :
             IF marks /\ stale[r] THEN Drop(r)
             ELSE Save(r, [Stored(r) EXCEPT !.answers = @ + gain, !.scored = @ + inline], ~marks, "idle", None)
      BY <1>12, <2>2 DEF Answer
    <3>2. [Stored(r) EXCEPT !.answers = @ + gain, !.scored = @ + inline] \in Documents
      <4>1. PICK d \in Documents : d = Stored(r)
        BY <1>2
      <4>2. PICK x \in Nat, y \in Nat : x = gain /\ y = inline
        OBVIOUS
      <4>3. [d EXCEPT !.answers = @ + x, !.scored = @ + y] \in Documents
        BY <1>4, EditsTyped
      <4> QED
        BY <4>1, <4>2, <4>3
    <3>3. rest
      BY <1>12 DEF Answer
    <3>4. CASE marks /\ stale[r]
      BY <1>6, <3>1, <3>3, <3>4
    <3>5. CASE ~(marks /\ stale[r])
      BY <1>5, <3>1, <3>2, <3>3, <3>5
    <3> QED
      BY <3>4, <3>5
  <2> QED
    BY <2>1, <2>2
<1>13. ASSUME NEW ai \in {"completed", "ended_early", "halted", "integrity_terminated"}, NEW gain \in {0, 1},
              NEW bumps \in BOOLEAN, EndAs(r, ai, gain, bumps)
       PROVE  TypeInv'
  <2>1. [Stored(r) EXCEPT !.ai = ai, !.status = "completed", !.answers = @ + gain] \in Documents
    BY <1>2, <1>4, EditsTyped, ZenonT(60)
  <2> QED
    BY <1>5, <1>13, <2>1 DEF EndAs
<1>14. CASE Complete(r)
  BY <1>13, <1>14 DEF Complete
<1>15. CASE Withdraw(r) \/ Halt(r) \/ Terminate(r)
  BY <1>13, <1>15 DEF Withdraw, Halt, Terminate
<1>16. CASE NothingToEnd(r)
  BY <1>6, <1>16 DEF NothingToEnd
<1>17. CASE RecordPresence(r)
  <2>1. PICK left \in BOOLEAN : Save(r, [Stored(r) EXCEPT !.away = left], TRUE, "idle", None) /\ rest
    BY <1>17 DEF RecordPresence
  <2>2. [Stored(r) EXCEPT !.away = left] \in Documents
    BY <1>2 DEF Documents
  <2> QED
    BY <1>5, <2>1, <2>2
<1>18. CASE Abandon(r)
  <2> DEFINE st == IF local[r].status = "expired" THEN Stored(r).status ELSE "expired"
             v == Stored(r).valid /\ ~local[r].valid
             d == [Stored(r) EXCEPT !.ai = "abandoned", !.status = st, !.valid = v]
  <2>1. st \in Statuses /\ v \in BOOLEAN
    BY <1>2, <1>4, FieldsTyped
  <2>2. Save(r, d, FALSE, "schedule", None) /\ rest
    BY <1>18 DEF Abandon
  <2>3. d \in Documents
    <3> HIDE DEF st, v
    <3> QED
      BY <1>2, <1>4, <2>1, EditsTyped
  <2> HIDE DEF d
  <2> QED
    BY <1>5, <2>2, <2>3
<1>19. CASE RefuseRotation(r)
  BY <1>6, <1>19 DEF RefuseRotation
<1>20. ASSUME At(r, "handle", Rotations) PROVE local[r].epoch \in Nat
  BY <1>3, <1>20, FieldsTyped DEF At
<1>21. CASE Reissue(r)
  <2> DEFINE st == IF local[r].status = "scheduled" THEN Stored(r).status ELSE "scheduled"
             d == [Stored(r) EXCEPT !.epoch = local[r].epoch + 1, !.valid = TRUE, !.status = st]
  <2>1. st \in Statuses
    BY <1>2, <1>4, FieldsTyped
  <2>2. Save(r, d, FALSE, "idle", None) /\ rest
    BY <1>21 DEF Reissue
  <2>3. d \in Documents
    <3>1. PICK x \in Nat : x = local[r].epoch
      BY <1>20, <1>21 DEF Reissue
    <3>2. [Stored(r) EXCEPT !.epoch = x + 1, !.valid = TRUE, !.status = st] \in Documents
      <4> HIDE DEF st
      <4> QED
        BY <1>2, <1>4, <2>1, EditsTyped
    <3> QED
      BY <3>1, <3>2
  <2> HIDE DEF d
  <2> QED
    BY <1>5, <2>2, <2>3
<1>22. CASE Retire(r)
  <2> DEFINE st == IF local[r].status = "cancelled" THEN Stored(r).status ELSE "cancelled"
             d == [Stored(r) EXCEPT !.epoch = local[r].epoch + 1, !.valid = FALSE, !.status = st]
  <2>1. st \in Statuses
    BY <1>2, <1>4, FieldsTyped
  <2>2. Save(r, d, FALSE, "create", None) /\ rest
    BY <1>22 DEF Retire
  <2>3. local[r].epoch \in Nat
    BY <1>20, <1>22 DEF Retire, At, Rotations
  <2>4. d \in Documents
    <3>1. PICK x \in Nat : x = local[r].epoch
      BY <2>3
    <3>2. [Stored(r) EXCEPT !.epoch = x + 1, !.valid = FALSE, !.status = st] \in Documents
      <4> HIDE DEF st
      <4> QED
        BY <1>2, <1>4, <2>1, EditsTyped
    <3> QED
      BY <3>1, <3>2
  <2>5. a < MaxAttempts
    BY <1>22 DEF Retire, At, TypeInv, WorkOK
  <2> HIDE DEF d
  <2> QED
    BY <1>1, <1>4, <2>2, <2>4, <2>5, SaveTyped
<1>23. CASE CreateAttempt(r)
  <2>1. a < MaxAttempts /\ a + 1 \in AttemptNos /\ docs \in [AttemptNos -> Documents \cup {None}]
    BY <1>2, <1>23 DEF CreateAttempt, TypeInv, TypeOK, WorkOK, AttemptNos
  <2>2. /\ Leave(r, "idle", None) /\ rest /\ UNCHANGED stale
        /\ docs' = IF docs[a + 1] = None THEN [docs EXCEPT ![a + 1] = NewSession] ELSE docs
    BY <1>23 DEF CreateAttempt
  <2>3. docs' \in [AttemptNos -> Documents \cup {None}]
    BY <2>1, <2>2, NewSessionTyped
  <2>4. \A b \in AttemptNos : docs[b] # None => docs'[b] # None
    BY <2>1, <2>2
  <2>5. TypeOK'
    BY <2>2, <2>3 DEF Leave, TypeInv, TypeOK, Steps
  <2>6. ASSUME NEW q \in Slots PROVE WorkOK(q)'
    <3>1. CASE q = r
      BY <3>1, <2>2 DEF Leave, TypeInv, TypeOK, WorkOK
    <3>2. CASE q # r
      <4>1. pc'[q] = pc[q] /\ call'[q] = call[q] /\ local'[q] = local[q]
        BY <3>2, <2>2 DEF Leave, TypeInv, TypeOK
      <4> QED
        BY <4>1, <2>4 DEF TypeInv, WorkOK, Calls
    <3> QED
      BY <3>1, <3>2
  <2>7. Created'
    <3>1. CASE docs[a + 1] # None
      BY <2>2, <3>1 DEF TypeInv, Created, Issued
    <3>2. CASE docs[a + 1] = None
      <4>1. PICK n \in AttemptNos : Issued = 1..n
        BY DEF TypeInv, Created
      <4>2. a \in Issued /\ a + 1 \notin Issued
        BY <1>1, <3>2, AtWork DEF Issued
      <4>3. a = n
        BY <2>1, <4>1, <4>2 DEF AttemptNos
      <4>4. Issued' = Issued \cup {a + 1}
        BY <2>1, <2>2, <3>2, NewSessionTyped DEF Issued
      <4>5. Issued' = 1..(a + 1)
        BY <4>1, <4>3, <4>4 DEF AttemptNos
      <4> QED
        BY <2>1, <4>5 DEF Created
    <3> QED
      BY <3>1, <3>2
  <2> QED
    BY <2>2, <2>4, <2>5, <2>6, <2>7 DEF TypeInv, TypeOK, Tokens
<1>24. CASE Schedule(r)
  <2>1. Leave(r, "idle", None) /\ UNCHANGED <<docs, tab, stage, tries, stale, lost>> /\ queue' = [queue EXCEPT ![a] = @ + 1]
    BY <1>24 DEF Schedule
  <2>2. queue' \in [AttemptNos -> Nat] /\ \A b \in AttemptNos : queue'[b] > queue[b] => b = a
    BY <1>0, <1>2, <2>1
  <2> QED
    BY <1>0, <1>1, <2>1, <2>2, LeaveTyped
<1>25. CASE FailToSchedule(r)
  <2>1. Leave(r, "idle", None) /\ UNCHANGED <<docs, tab, stage, tries, stale, queue>> /\ lost' = lost \cup {<<a, "report">>}
    BY <1>25 DEF FailToSchedule
  <2>2. lost' \subseteq AttemptNos \X {"report", "move"}
    BY <1>0, <1>2, <2>1
  <2>3. \A b \in AttemptNos : ~(queue[b] > queue[b])
    BY <1>0
  <2> QED
    BY <1>0, <1>1, <2>1, <2>2, <2>3, LeaveTyped
<1> QED
  BY <1>7, <1>8, <1>9, <1>10, <1>11, <1>12, <1>14, <1>15, <1>16, <1>17, <1>18, <1>19, <1>21, <1>22, <1>23, <1>24, <1>25
  DEF Proceed

LEMMA WorkTyped == ASSUME TypeInv, NEW w \in Workers, Work(w) \/ Die(w) PROVE TypeInv'
<1> w \in Slots
  BY DEF Slots
<1>1. /\ tries \in [Workers -> 0..MaxTries] /\ queue \in [AttemptNos -> Nat] /\ lost \subseteq AttemptNos \X {"report", "move"}
      /\ stage \in {"interview_scheduled", "ai_interview_completed"}
  BY DEF TypeInv, TypeOK
<1>2. \A b \in AttemptNos : queue[b] <= queue[b]
  BY <1>1
<1>3. ASSUME NEW n \in 0..MaxTries PROVE [tries EXCEPT ![w] = n] \in [Workers -> 0..MaxTries]
  BY <1>1
<1>4. 0 \in 0..MaxTries /\ 1 \in 0..MaxTries
  OBVIOUS
<1>5. ASSUME pc[w] # "idle"
      PROVE  /\ call[w].at \in AttemptNos /\ Stored(w) \in Documents /\ call[w] \in Calls
             /\ Stored(w) = docs[call[w].at] /\ docs[call[w].at] # None
  BY <1>5, AtWork DEF Issued
<1>6. ASSUME pc[w] = "evaluate" PROVE local[w] \in Documents
  BY <1>6 DEF TypeInv, WorkOK
<1>7. ASSUME pc[w] # "idle", Drop(w), tries' = [tries EXCEPT ![w] = 0], UNCHANGED <<tab, queue>>,
             stage' \in {"interview_scheduled", "ai_interview_completed"}, lost' \subseteq AttemptNos \X {"report", "move"}
      PROVE  TypeInv'
  BY <1>3, <1>4, <1>7, DropTyped
<1>8. ASSUME pc[w] = "evaluate", Retry(w) PROVE TypeInv'
  <2>1. CASE Stored(w).covers = None /\ tries[w] < MaxTries
    <3>1. /\ local' = [local EXCEPT ![w] = Stored(w)] /\ stale' = [stale EXCEPT ![w] = FALSE]
          /\ tries' = [tries EXCEPT ![w] = @ + 1] /\ UNCHANGED <<docs, pc, call, lost, stage, tab, queue>>
      BY <1>8, <2>1 DEF Retry
    <3>2. tries[w] + 1 \in 0..MaxTries
      BY <1>1, <2>1
    <3>3. TypeOK'
      <4>1. tries' \in [Workers -> 0..MaxTries]
        BY <1>1, <3>1, <3>2
      <4> QED
        BY <1>5, <1>8, <3>1, <4>1 DEF TypeInv, TypeOK
    <3>4. ASSUME NEW q \in Slots PROVE WorkOK(q)'
      BY <1>5, <1>8, <3>1 DEF TypeInv, TypeOK, WorkOK
    <3>5. Created'
      BY <3>1 DEF TypeInv, Created, Issued
    <3> QED
      BY <3>1, <3>3, <3>4, <3>5 DEF TypeInv
  <2>2. CASE ~(Stored(w).covers = None /\ tries[w] < MaxTries)
    <3>1. /\ Drop(w) /\ tries' = [tries EXCEPT ![w] = 0] /\ UNCHANGED <<stage, tab, queue>>
          /\ lost' = IF Stored(w).covers = None THEN lost \cup {<<call[w].at, "report">>} ELSE lost
      BY <1>8, <2>2 DEF Retry
    <3>2. lost' \subseteq AttemptNos \X {"report", "move"}
      BY <1>1, <1>5, <1>8, <3>1
    <3> QED
      BY <1>1, <1>7, <1>8, <3>1, <3>2
  <2> QED
    BY <2>1, <2>2
<1>9. ASSUME NEW a \in AttemptNos, TakeJob(w, a) PROVE TypeInv'
  <2>1. queue[a] > 0 /\ queue[a] \in Nat /\ queue' = [queue EXCEPT ![a] = @ - 1] /\ UNCHANGED <<docs, stage, tab, lost>>
    BY <1>1, <1>9 DEF TakeJob
  <2>2. queue' \in [AttemptNos -> Nat] /\ \A b \in AttemptNos : queue'[b] <= queue[b]
    BY <1>1, <2>1
  <2>3. a \in Issued
    BY <2>1 DEF TypeInv, Issued
  <2>4. CASE docs[a].covers = None
    <3>1. "finalize" \notin Reschedules
      BY DEF Reschedules
    <3>2. Load(w, "finalize", a, "evaluate") /\ tries' = [tries EXCEPT ![w] = 1]
      BY <1>9, <2>4 DEF TakeJob
    <3> QED
      BY <1>3, <1>4, <2>1, <2>2, <2>3, <3>1, <3>2, LoadTyped
  <2>5. CASE docs[a].covers # None
    <3>1. UNCHANGED <<pc, call, local, stale, tries>>
      BY <1>9, <2>5 DEF TakeJob
    <3>2. TypeOK'
      BY <2>1, <2>2, <3>1 DEF TypeInv, TypeOK
    <3>3. \A s \in Slots : WorkOK(s)'
      BY <2>1, <3>1 DEF TypeInv, WorkOK
    <3>4. Created'
      BY <2>1 DEF TypeInv, Created, Issued
    <3>5. \A b \in AttemptNos : queue'[b] > 0 => docs'[b] # None
      BY <1>1, <2>1, <2>2 DEF TypeInv
    <3> QED
      BY <2>1, <3>2, <3>3, <3>4, <3>5 DEF TypeInv
  <2> QED
    BY <2>4, <2>5
<1>10. ASSUME Evaluate(w) PROVE TypeInv'
  <2>1. PICK some \in BOOLEAN :
           IF some /\ stale[w] THEN Retry(w)
           ELSE StoreEvaluation(w, IF some THEN local[w].answers ELSE Stored(w).scored)
    BY <1>10 DEF Evaluate
  <2>2. pc[w] = "evaluate"
    BY <1>10 DEF Evaluate
  <2>3. CASE some /\ stale[w]
    BY <1>8, <2>1, <2>2, <2>3
  <2>4. CASE ~(some /\ stale[w])
    <3>1. PICK n \in Nat : n = IF some THEN local[w].answers ELSE Stored(w).scored
      BY <1>5, <1>6, <2>2, FieldsTyped
    <3>2. PICK c \in Nat : c = local[w].answers
      BY <1>6, <2>2, FieldsTyped
    <3> DEFINE d == [Stored(w) EXCEPT !.covers = c, !.scored = n]
    <3>3. d \in Documents
      <4>1. TRUE \in BOOLEAN /\ "scheduled" \in Statuses /\ "not_started" \in AiStatuses
        BY DEF Statuses, AiStatuses
      <4> QED
        BY <1>5, <2>2, <4>1, EditsTyped
    <3>4. Save(w, d, FALSE, "advance", None) /\ UNCHANGED <<stage, tab, queue, tries, lost>>
      BY <2>1, <2>4, <3>1, <3>2 DEF StoreEvaluation
    <3>5. "advance" \in Steps
      BY DEF Steps
    <3> HIDE DEF d
    <3> QED
      BY <2>2, <3>3, <3>4, <3>5, SaveTyped
  <2> QED
    BY <2>3, <2>4
<1>11. ASSUME Advance(w) PROVE TypeInv'
  BY <1>1, <1>7, <1>11 DEF Advance
<1>12. ASSUME Die(w) PROVE TypeInv'
  <2>1. CASE pc[w] = "evaluate" /\ Retry(w)
    BY <1>8, <2>1
  <2>2. CASE pc[w] = "advance"
    <3>1. /\ Drop(w) /\ tries' = [tries EXCEPT ![w] = 0] /\ UNCHANGED <<stage, tab, queue>>
          /\ lost' = lost \cup {<<call[w].at, "move">>}
      BY <1>12, <2>2 DEF Die
    <3>2. lost' \subseteq AttemptNos \X {"report", "move"}
      BY <1>1, <1>5, <2>2, <3>1
    <3> QED
      BY <1>1, <1>7, <2>2, <3>1, <3>2
  <2> QED
    BY <1>12, <2>1, <2>2 DEF Die
<1> QED
  BY <1>9, <1>10, <1>11, <1>12 DEF Work

LEMMA LapseTyped == ASSUME TypeInv, NEW a \in Issued, Lapse(a) PROVE TypeInv'
<1>1. a \in AttemptNos /\ docs[a] \in Documents
  BY DEF Issued, TypeInv, TypeOK
<1> DEFINE d == [docs[a] EXCEPT !.valid = FALSE]
<1>2. d \in Documents
  BY <1>1 DEF Documents
<1>3. docs' = [docs EXCEPT ![a] = d] /\ UNCHANGED <<stage, tab, queue, tries, pc, call, local, stale, lost>>
  BY DEF Lapse
<1> HIDE DEF d
<1>4. TypeOK'
  BY <1>1, <1>2, <1>3 DEF TypeInv, TypeOK
<1>5. \A b \in AttemptNos : docs[b] # None <=> docs'[b] # None
  BY <1>1, <1>2, <1>3 DEF TypeInv, TypeOK, Issued
<1>6. Created'
  BY <1>4, <1>5, StaysCreated DEF TypeInv, TypeOK
<1>7. \A s \in Slots : WorkOK(s)'
  BY <1>3, <1>5 DEF TypeInv, WorkOK, Calls
<1> QED
  BY <1>3, <1>4, <1>5, <1>6, <1>7 DEF TypeInv, TypeOK, Tokens

LEMMA TypeStep == TypeInv /\ [Next]_vars => TypeInv'
<1> SUFFICES ASSUME TypeInv, [Next]_vars PROVE TypeInv'
  OBVIOUS
<1>1. CASE UNCHANGED vars
  BY <1>1 DEF vars, TypeInv, TypeOK, WorkOK, Created, Issued
<1>2. CASE Next
  BY <1>2, ArriveTyped, ProceedTyped, WorkTyped, LapseTyped DEF Next
<1> QED
  BY <1>1, <1>2

\* Documents, copies, tokens, jobs and histories keep their types for any number
\* of handlers and workers: whoever acts acts on an attempt that exists, with
\* the copy it loaded.
THEOREM TypeCorrect == Spec => []TypeOK
<1>1. TypeInv => TypeOK
  BY DEF TypeInv
<1> QED
  BY <1>1, TypeInit, TypeStep, PTL DEF Spec

-----------------------------------------------------------------------------
(* What a step does to the document it works on                            *)

\* s leaves d under the attempt it works on and goes on to next.
Leaves(s, d, next) ==
    /\ d \in Documents /\ docs'[call[s].at] = d
    /\ \A a \in AttemptNos : a # call[s].at => docs'[a] = docs[a]
    /\ pc'[s] = next
    /\ next # "idle" => call'[s] = call[s]
    /\ \A q \in Slots : q # s => pc'[q] = pc[q] /\ call'[q] = call[q] /\ local'[q] = local[q]

\* Nothing a rotation or a report depends on has changed from d to e, ...
SameStanding(d, e) == e.ai = d.ai /\ e.valid = d.valid /\ e.epoch = d.epoch
SameRecord(d, e) == e.covers = d.covers /\ e.answers = d.answers /\ (d.started => e.started)

\* ... or what has, by the kind of step.
Minor(r, d, e, next) ==
    /\ pc[r] \in {"expire", "handle", "begin"}
    /\ SameStanding(d, e) /\ SameRecord(d, e)
    /\ \/ next = "idle"
       \/ /\ next = "begin" /\ pc[r] = "handle" /\ call[r].kind = "begin"
          /\ local'[r].ai = local[r].ai /\ local'[r].valid = local[r].valid
          /\ local[r].started = d.started => local'[r].started = e.started

Reopening(r, d, e, next) ==
    /\ pc[r] = "begin" /\ local[r].ai = "abandoned" /\ next = "idle"
    /\ e.ai = "in_progress" /\ e.valid = d.valid /\ e.epoch = d.epoch

Planning(r, d, e, next) ==
    /\ pc[r] = "begin" /\ local[r].ai = "not_started" /\ next = "idle"
    /\ e.ai = "in_progress" /\ e.valid = d.valid /\ e.epoch = d.epoch /\ e.started /\ SameRecord(d, e)

Answering(r, d, e, next) ==
    /\ pc[r] = "handle" /\ local[r].ai = "in_progress" /\ next = "idle"
    /\ SameStanding(d, e) /\ e.covers = d.covers /\ e.started = d.started

Ending(r, d, e, next) ==
    /\ pc[r] = "handle" /\ local[r].ai = "in_progress" /\ next = "schedule"
    /\ e.ai \in Ended \ {"abandoned"} /\ e.valid = d.valid /\ e.epoch = d.epoch
    /\ e.covers = d.covers /\ e.started = d.started

Abandoning(r, d, e, next) ==
    /\ pc[r] = "handle" /\ call[r].kind \in Sweeps /\ next = "schedule"
    /\ e.ai = "abandoned" /\ e.valid = (d.valid /\ ~local[r].valid) /\ e.epoch = d.epoch /\ SameRecord(d, e)

Reissuing(r, d, e, next) ==
    /\ pc[r] = "handle" /\ call[r].kind \in Rotations /\ next = "idle"
    /\ ~Refused(local[r], call[r].kind) /\ ~FreshStart(r)
    /\ e.ai = d.ai /\ e.valid /\ SameRecord(d, e)

Retiring(r, d, e, next) ==
    /\ pc[r] = "handle" /\ call[r].kind \in Reschedules /\ next = "create"
    /\ ~Refused(local[r], call[r].kind)
    /\ e.ai = d.ai /\ ~e.valid /\ SameRecord(d, e)

Writes(r, d, e, next) ==
    \/ Minor(r, d, e, next) \/ Reopening(r, d, e, next) \/ Planning(r, d, e, next) \/ Answering(r, d, e, next)
    \/ Ending(r, d, e, next) \/ Abandoning(r, d, e, next) \/ Reissuing(r, d, e, next) \/ Retiring(r, d, e, next)

LEMMA SaveLeaves ==
    ASSUME TypeInv, NEW s \in Slots, pc[s] # "idle", NEW d \in Documents, NEW bumps \in BOOLEAN, NEW next, NEW kept,
           Save(s, d, bumps, next, kept)
    PROVE  Leaves(s, d, next) /\ local'[s] = kept
<1>1. call[s].at \in AttemptNos
  BY AtWork
<1>2. /\ docs' = [docs EXCEPT ![call[s].at] = d] /\ pc' = [pc EXCEPT ![s] = next]
      /\ call' = IF next = "idle" THEN [call EXCEPT ![s] = None] ELSE call
      /\ local' = [local EXCEPT ![s] = kept]
  BY DEF Save, Leave
<1> QED
  BY <1>1, <1>2 DEF Leaves, TypeInv, TypeOK

LEMMA LeaveLeaves ==
    ASSUME TypeInv, NEW s \in Slots, pc[s] # "idle", NEW next, NEW kept, Leave(s, next, kept), UNCHANGED docs
    PROVE  Leaves(s, docs[call[s].at], next) /\ local'[s] = kept
<1>1. docs[call[s].at] \in Documents
  BY AtWork
<1>2. /\ pc' = [pc EXCEPT ![s] = next] /\ local' = [local EXCEPT ![s] = kept]
      /\ call' = IF next = "idle" THEN [call EXCEPT ![s] = None] ELSE call
  BY DEF Leave
<1> QED
  BY <1>1, <1>2 DEF Leaves, TypeInv, TypeOK

\* Every step of a handler at work but the last two kinds is one of these.
LEMMA ProceedWrites ==
    ASSUME TypeInv, NEW r \in Requests, Proceed(r)
    PROVE  \/ CreateAttempt(r) \/ Schedule(r) \/ FailToSchedule(r)
           \/ /\ pc[r] # "idle" /\ UNCHANGED <<queue, lost>>
              /\ \E e \in Documents, next \in Steps : Leaves(r, e, next) /\ Writes(r, docs[call[r].at], e, next)
<1> r \in Slots
  BY DEF Slots
<1> DEFINE Goal == /\ pc[r] # "idle" /\ UNCHANGED <<queue, lost>>
                   /\ \E e \in Documents, next \in Steps : Leaves(r, e, next) /\ Writes(r, docs[call[r].at], e, next)
<1> DEFINE rest == UNCHANGED <<stage, tab, queue, tries, lost>>
<1>1. pc[r] # "idle"
  BY DEF Proceed, MarkExpired, StartSession, Reopen, Plan, Resume, Answer, Complete, Withdraw, Halt, Terminate,
         NothingToEnd, RecordPresence, Abandon, RefuseRotation, Reissue, Retire, CreateAttempt, Schedule,
         FailToSchedule, At
<1>2. Stored(r) \in Documents /\ docs[call[r].at] = Stored(r)
  BY <1>1, AtWork
<1>3. PICK d \in Documents : d = Stored(r)
  BY <1>2
<1>4. {"idle", "begin", "schedule", "create"} \subseteq Steps /\ {"scheduled", "in_progress", "completed", "expired", "cancelled"} \subseteq Statuses
      /\ {"in_progress", "completed", "ended_early", "halted", "integrity_terminated", "abandoned"} \subseteq AiStatuses
  BY DEF Steps, Statuses, AiStatuses, Ended
<1>5. ASSUME NEW e \in Documents, NEW bumps \in BOOLEAN, NEW next \in Steps, NEW kept, Save(r, e, bumps, next, kept), rest,
             local'[r] = kept => Writes(r, d, e, next)
      PROVE  Goal
  BY <1>1, <1>2, <1>3, <1>5, SaveLeaves
<1>6. ASSUME Drop(r), rest, pc[r] \in {"handle", "begin"} PROVE Goal
  <2>1. Leaves(r, d, "idle")
    BY <1>1, <1>2, <1>3, <1>6, LeaveLeaves DEF Drop
  <2>2. Minor(r, d, d, "idle")
    BY <1>6 DEF Minor, SameStanding, SameRecord
  <2> QED
    BY <1>1, <1>2, <1>3, <1>4, <1>6, <2>1, <2>2 DEF Writes
<1>7. pc[r] \in {"expire", "handle", "begin"} => local[r] \in Documents
  BY DEF TypeInv, WorkOK
<1>8. d.status \in Statuses /\ d.valid \in BOOLEAN /\ d.answers \in Nat /\ d.scored \in Nat
  BY FieldsTyped
<1> HIDE DEF Goal
<1>9. ASSUME MarkExpired(r) PROVE Goal
  <2> DEFINE e == [d EXCEPT !.status = "expired"]
  <2>1. e \in Documents /\ SameStanding(d, e) /\ SameRecord(d, e)
    BY <1>4 DEF Documents, SameStanding, SameRecord
  <2>2. Save(r, e, FALSE, "idle", None) /\ rest
    BY <1>3, <1>9 DEF MarkExpired
  <2> HIDE DEF e
  <2> QED
    BY <1>4, <1>5, <1>9, <2>1, <2>2 DEF Writes, Minor, MarkExpired
<1>10. ASSUME StartSession(r) PROVE Goal
  <2>1. pc[r] = "handle" /\ call[r].kind = "begin" /\ local[r] \in Documents /\ rest
    BY <1>7, <1>10 DEF StartSession, At
  <2>2. CASE local[r].status = "scheduled"
    <3> DEFINE e == [d EXCEPT !.status = "in_progress", !.started = TRUE]
               k == [local[r] EXCEPT !.status = "in_progress", !.started = TRUE]
    <3>1. e \in Documents /\ SameStanding(d, e) /\ SameRecord(d, e) /\ e.started
      BY <1>4 DEF Documents, SameStanding, SameRecord
    <3>2. k.ai = local[r].ai /\ k.valid = local[r].valid /\ k.started
      BY <2>1 DEF Documents
    <3>3. Save(r, e, FALSE, "begin", k)
      BY <1>3, <1>10, <2>2 DEF StartSession
    <3>4. ASSUME local'[r] = k PROVE Writes(r, d, e, "begin")
      <4>1. e.started = TRUE /\ k.started = TRUE
        BY <2>1 DEF Documents
      <4> HIDE DEF e, k
      <4> QED
        BY <2>1, <3>1, <3>2, <3>4, <4>1 DEF Writes, Minor
    <3> HIDE DEF e, k
    <3> QED
      BY <1>4, <1>5, <2>1, <3>1, <3>3, <3>4
  <2>3. CASE local[r].status # "scheduled"
    <3>1. Leaves(r, d, "begin") /\ local'[r] = local[r]
      BY <1>1, <1>2, <1>3, <1>10, <2>3, LeaveLeaves DEF StartSession
    <3>2. Minor(r, d, d, "begin")
      BY <2>1, <3>1 DEF Minor, SameStanding, SameRecord
    <3> QED
      BY <1>1, <1>2, <1>3, <1>4, <2>1, <3>1, <3>2 DEF Writes, Goal
  <2> QED
    BY <2>2, <2>3
<1>11. ASSUME Reopen(r) PROVE Goal
  <2> DEFINE e == [d EXCEPT !.ai = "in_progress", !.covers = None]
  <2>1. e \in Documents /\ e.ai = "in_progress" /\ e.valid = d.valid /\ e.epoch = d.epoch
    BY <1>4 DEF Documents
  <2>2. Save(r, e, FALSE, "idle", None) /\ rest /\ pc[r] = "begin" /\ local[r].ai = "abandoned"
    BY <1>3, <1>11 DEF Reopen
  <2> HIDE DEF e
  <2> QED
    BY <1>4, <1>5, <2>1, <2>2 DEF Writes, Reopening
<1>12. ASSUME Plan(r) PROVE Goal
  <2> DEFINE e == [d EXCEPT !.ai = "in_progress", !.started = TRUE]
  <2>1. e \in Documents /\ e.ai = "in_progress" /\ e.valid = d.valid /\ e.epoch = d.epoch /\ e.started /\ SameRecord(d, e)
    BY <1>4 DEF Documents, SameRecord
  <2>2. pc[r] = "begin" /\ local[r].ai = "not_started" /\ rest /\ (stale[r] => Drop(r))
        /\ (~stale[r] => Save(r, e, TRUE, "idle", None))
    BY <1>3, <1>12 DEF Plan
  <2> HIDE DEF e
  <2> QED
    BY <1>4, <1>5, <1>6, <2>1, <2>2 DEF Writes, Planning
<1>13. ASSUME Resume(r) PROVE Goal
  BY <1>6, <1>13 DEF Resume
<1>14. ASSUME Answer(r) PROVE Goal
  <2>1. pc[r] = "handle" /\ rest
    BY <1>14 DEF Answer, At
  <2>2. CASE local[r].ai # "in_progress"
    BY <1>6, <1>14, <2>1, <2>2 DEF Answer
  <2>3. CASE local[r].ai = "in_progress"
    <3>1. PICK gain \in {0, 1}, inline \in {0, 1}, marks \in BOOLEAN :
             IF marks /\ stale[r] THEN Drop(r)
             ELSE Save(r, [d EXCEPT !.answers = @ + gain, !.scored = @ + inline], ~marks, "idle", None)
      BY <1>3, <1>14, <2>3 DEF Answer
    <3>2. PICK x \in Nat, y \in Nat : x = d.answers + gain /\ y = d.scored + inline
      BY <1>8
    <3> DEFINE e == [d EXCEPT !.answers = x, !.scored = y]
    <3>3. e \in Documents /\ SameStanding(d, e) /\ e.covers = d.covers /\ e.started = d.started
      BY DEF Documents, SameStanding
    <3>4. CASE marks /\ stale[r]
      BY <1>6, <2>1, <3>1, <3>4
    <3>5. CASE ~(marks /\ stale[r])
      <4>1. Save(r, e, ~marks, "idle", None)
        BY <3>1, <3>2, <3>5
      <4> HIDE DEF e
      <4> QED
        BY <1>4, <1>5, <2>1, <2>3, <3>3, <4>1 DEF Writes, Answering
    <3> QED
      BY <3>4, <3>5
  <2> QED
    BY <2>2, <2>3
<1>15. ASSUME NEW ai \in {"completed", "ended_early", "halted", "integrity_terminated"}, NEW gain \in {0, 1},
              NEW bumps \in BOOLEAN, pc[r] = "handle", EndAs(r, ai, gain, bumps)
       PROVE  Goal
  <2>1. PICK x \in Nat : x = d.answers + gain
    BY <1>8
  <2> DEFINE e == [d EXCEPT !.ai = ai, !.status = "completed", !.answers = x]
  <2>2. e \in Documents /\ e.ai = ai /\ e.valid = d.valid /\ e.epoch = d.epoch /\ e.covers = d.covers /\ e.started = d.started
    BY <1>4 DEF Documents
  <2>3. Save(r, e, bumps, "schedule", None) /\ rest /\ local[r].ai = "in_progress"
    BY <1>3, <1>15, <2>1 DEF EndAs
  <2>4. ai \in Ended \ {"abandoned"}
    BY DEF Ended
  <2> HIDE DEF e
  <2>5. Ending(r, d, e, "schedule")
    BY <1>15, <2>2, <2>3, <2>4 DEF Ending
  <2> QED
    BY <1>4, <1>5, <2>2, <2>3, <2>5 DEF Writes
<1>16. ASSUME Complete(r) PROVE Goal
  BY <1>15, <1>16 DEF Complete, At
<1>17. ASSUME Withdraw(r) \/ Halt(r) \/ Terminate(r) PROVE Goal
  BY <1>15, <1>17 DEF Withdraw, Halt, Terminate, At
<1>18. ASSUME NothingToEnd(r) PROVE Goal
  BY <1>6, <1>18 DEF NothingToEnd, At
<1>19. ASSUME RecordPresence(r) PROVE Goal
  <2>1. PICK left \in BOOLEAN : Save(r, [d EXCEPT !.away = left], TRUE, "idle", None) /\ rest
    BY <1>3, <1>19 DEF RecordPresence
  <2> DEFINE e == [d EXCEPT !.away = left]
  <2>2. e \in Documents /\ SameStanding(d, e) /\ SameRecord(d, e)
    BY DEF Documents, SameStanding, SameRecord
  <2> HIDE DEF e
  <2> QED
    BY <1>4, <1>5, <1>19, <2>1, <2>2 DEF Writes, Minor, RecordPresence, At, e
<1>20. ASSUME Abandon(r) PROVE Goal
  <2> DEFINE st == IF local[r].status = "expired" THEN d.status ELSE "expired"
             v == d.valid /\ ~local[r].valid
  <2>1. st \in Statuses /\ v \in BOOLEAN
    BY <1>4, <1>8
  <2>2. Save(r, [d EXCEPT !.ai = "abandoned", !.status = st, !.valid = v], FALSE, "schedule", None) /\ rest
    BY <1>3, <1>20 DEF Abandon
  <2>3. pc[r] = "handle" /\ call[r].kind \in Sweeps
    BY <1>20 DEF Abandon, At
  <2>4. PICK u \in BOOLEAN, t \in Statuses : u = v /\ t = st
    BY <2>1
  <2> DEFINE e == [d EXCEPT !.ai = "abandoned", !.status = t, !.valid = u]
  <2>5. e \in Documents /\ e.ai = "abandoned" /\ e.valid = u /\ e.epoch = d.epoch /\ SameRecord(d, e)
    BY <1>4 DEF Documents, SameRecord
  <2>6. Save(r, e, FALSE, "schedule", None)
    BY <2>2, <2>4
  <2> HIDE DEF e, st
  <2>7. Abandoning(r, d, e, "schedule")
    BY <2>3, <2>4, <2>5 DEF Abandoning
  <2> QED
    BY <1>4, <1>5, <2>2, <2>5, <2>6, <2>7 DEF Writes
<1>21. ASSUME RefuseRotation(r) PROVE Goal
  BY <1>6, <1>21 DEF RefuseRotation, At
<1>22. ASSUME pc[r] = "handle" PROVE local[r].epoch + 1 \in Nat
  BY <1>7, <1>22, FieldsTyped
<1>23. ASSUME Reissue(r) PROVE Goal
  <2>1. pc[r] = "handle" /\ call[r].kind \in Rotations /\ ~Refused(local[r], call[r].kind) /\ ~FreshStart(r) /\ rest
    BY <1>23 DEF Reissue, At
  <2>2. PICK x \in Nat, t \in Statuses : x = local[r].epoch + 1 /\ t = IF local[r].status = "scheduled" THEN d.status ELSE "scheduled"
    BY <1>4, <1>8, <1>22, <2>1
  <2> DEFINE e == [d EXCEPT !.epoch = x, !.valid = TRUE, !.status = t]
  <2>3. e \in Documents /\ e.ai = d.ai /\ e.valid /\ SameRecord(d, e)
    BY DEF Documents, SameRecord
  <2>4. Save(r, e, FALSE, "idle", None)
    BY <1>3, <1>23, <2>2 DEF Reissue
  <2> HIDE DEF e
  <2>5. Reissuing(r, d, e, "idle")
    BY <2>1, <2>3 DEF Reissuing
  <2> QED
    BY <1>4, <1>5, <2>1, <2>3, <2>4, <2>5 DEF Writes
<1>24. ASSUME Retire(r) PROVE Goal
  <2>1. pc[r] = "handle" /\ call[r].kind \in Reschedules /\ ~Refused(local[r], call[r].kind) /\ rest
    BY <1>24 DEF Retire, At
  <2>2. PICK x \in Nat, t \in Statuses : x = local[r].epoch + 1 /\ t = IF local[r].status = "cancelled" THEN d.status ELSE "cancelled"
    BY <1>4, <1>8, <1>22, <2>1
  <2> DEFINE e == [d EXCEPT !.epoch = x, !.valid = FALSE, !.status = t]
  <2>3. e \in Documents /\ e.ai = d.ai /\ ~e.valid /\ SameRecord(d, e)
    BY DEF Documents, SameRecord
  <2>4. Save(r, e, FALSE, "create", None)
    BY <1>3, <1>24, <2>2 DEF Retire
  <2> HIDE DEF e
  <2>5. Retiring(r, d, e, "create")
    BY <2>1, <2>3 DEF Retiring
  <2> QED
    BY <1>4, <1>5, <2>1, <2>3, <2>4, <2>5 DEF Writes
<1> QED
  BY <1>9, <1>10, <1>11, <1>12, <1>13, <1>14, <1>16, <1>17, <1>18, <1>19, <1>20, <1>21, <1>23, <1>24 DEF Proceed, Goal

\* A load leaves the documents and takes the slot to "handle" or "expire".
LEMMA LoadTakes ==
    ASSUME TypeInv, NEW s \in Slots, NEW kind, NEW a \in Issued, NEW step, Load(s, kind, a, step)
    PROVE  /\ pc'[s] = step /\ call'[s].kind = kind /\ call'[s].at = a /\ local'[s] = docs[a]
           /\ \A q \in Slots : q # s => pc'[q] = pc[q] /\ call'[q] = call[q] /\ local'[q] = local[q]
BY DEF Load, TypeInv, TypeOK

\* What handlers arrive for, and what they then hold.
LEMMA ArriveTakes ==
    ASSUME TypeInv, NEW r \in Requests, Arrive(r)
    PROVE  /\ UNCHANGED <<docs, queue, lost>> /\ pc[r] = "idle"
           /\ \A q \in Slots : q # r => pc'[q] = pc[q] /\ call'[q] = call[q] /\ local'[q] = local[q]
           /\ \/ pc'[r] = "idle" \/ pc'[r] = "expire"
              \/ /\ pc'[r] = "handle" /\ call'[r].at \in Issued /\ local'[r] = docs[call'[r].at]
                 /\ call'[r].kind \in Kinds
                 /\ \/ call'[r].kind \in Portal /\ docs[call'[r].at].valid
                    \/ call'[r].kind \in Sweeps /\ docs[call'[r].at].ai = "in_progress"
                    \/ /\ call'[r].kind \in Rotations
                       /\ call'[r].kind # "ownResend" => \A b \in Issued : b <= call'[r].at
<1> r \in Slots
  BY DEF Slots
<1>1. ASSUME NEW kind \in Portal, Authenticate(r, kind)
      PROVE  /\ UNCHANGED <<docs, queue, lost>> /\ pc[r] = "idle" /\ kind \in Kinds /\ tab.at \in Issued
             /\ \/ Load(r, kind, tab.at, "handle") /\ docs[tab.at].valid
                \/ Load(r, kind, tab.at, "expire")
  <2>1. tab.at \in Issued
    BY <1>1 DEF Authenticate, TypeInv, TypeOK, Issued, Tokens
  <2>2. CASE docs[tab.at].valid
    BY <1>1, <2>1, <2>2 DEF Authenticate
  <2>3. CASE ~docs[tab.at].valid
    BY <1>1, <2>1, <2>3 DEF Authenticate
  <2> QED
    BY <2>2, <2>3
<1>2. ASSUME NEW a \in Issued, Login(r, a)
      PROVE  /\ UNCHANGED <<docs, queue, lost>> /\ pc[r] = "idle"
             /\ UNCHANGED <<pc, call, local>> \/ Load(r, "begin", a, "expire")
  <2>1. CASE docs[a].valid
    BY <1>2, <2>1 DEF Login
  <2>2. CASE ~docs[a].valid
    BY <1>2, <2>2 DEF Login
  <2> QED
    BY <2>1, <2>2
<1>3. ASSUME NEW a \in Issued, SweepExpired(r, a) \/ SweepAway(r, a)
      PROVE  /\ UNCHANGED <<docs, queue, lost>> /\ pc[r] = "idle" /\ docs[a].ai = "in_progress"
             /\ \E kind \in Sweeps \cap Kinds : Load(r, kind, a, "handle")
  BY <1>3 DEF SweepExpired, SweepAway, Sweeps
<1>4. ASSUME NEW a \in Issued, NEW kind \in Rotations, LoadRotation(r, kind, a)
      PROVE  /\ UNCHANGED <<docs, queue, lost>> /\ pc[r] = "idle" /\ kind \in Kinds
             /\ Load(r, kind, a, "handle") /\ (kind # "ownResend" => \A b \in Issued : b <= a)
  BY <1>4, LatestAttempt DEF LoadRotation
<1>5. CASE \E kind \in Portal : Authenticate(r, kind)
  BY <1>1, <1>5, LoadTakes
<1>6. CASE \E a \in Issued : Login(r, a)
  BY <1>2, <1>6, LoadTakes
<1>7. CASE \E a \in Issued : SweepExpired(r, a) \/ SweepAway(r, a)
  BY <1>3, <1>7, LoadTakes
<1>8. CASE \E a \in Issued, kind \in Rotations : LoadRotation(r, kind, a)
  BY <1>4, <1>8, LoadTakes
<1> QED
  BY <1>5, <1>6, <1>7, <1>8 DEF Arrive

\* A worker writes nothing but an evaluation, and moves nobody's copy but its own.
Evaluates(w, e) ==
    LET d == docs[call[w].at]
    IN  /\ pc[w] = "evaluate" /\ Leaves(w, e, "advance") /\ UNCHANGED <<queue, lost>>
        /\ SameStanding(d, e) /\ e.answers = d.answers /\ e.started = d.started /\ e.covers = local[w].answers

LEMMA WorkWrites ==
    ASSUME TypeInv, NEW w \in Workers, Work(w) \/ Die(w)
    PROVE  \/ \E a \in AttemptNos : TakeJob(w, a)
           \/ pc[w] = "evaluate" /\ Retry(w)
           \/ \E e \in Documents : Evaluates(w, e)
           \/ /\ pc[w] = "advance" /\ Drop(w) /\ UNCHANGED queue
              /\ UNCHANGED lost \/ lost' = lost \cup {<<call[w].at, "move">>}
<1> w \in Slots
  BY DEF Slots
<1>1. ASSUME Evaluate(w), ~Retry(w) PROVE \E e \in Documents : Evaluates(w, e)
  <2>1. pc[w] = "evaluate"
    BY <1>1 DEF Evaluate
  <2>2. PICK some \in BOOLEAN : StoreEvaluation(w, IF some THEN local[w].answers ELSE Stored(w).scored)
    BY <1>1 DEF Evaluate
  <2>3. local[w] \in Documents /\ docs[call[w].at] \in Documents /\ Stored(w) = docs[call[w].at]
    BY <2>1, AtWork DEF TypeInv, WorkOK
  <2>4. PICK n \in Nat, c \in Nat, d \in Documents :
           n = (IF some THEN local[w].answers ELSE Stored(w).scored) /\ c = local[w].answers /\ d = docs[call[w].at]
    BY <2>3, FieldsTyped
  <2> DEFINE e == [d EXCEPT !.covers = c, !.scored = n]
  <2>5. /\ e \in Documents /\ SameStanding(d, e) /\ e.answers = d.answers /\ e.started = d.started /\ e.covers = c
    BY DEF Documents, SameStanding
  <2>6. Save(w, e, FALSE, "advance", None) /\ UNCHANGED <<queue, lost>>
    BY <2>2, <2>3, <2>4 DEF StoreEvaluation
  <2> HIDE DEF e
  <2>7. Leaves(w, e, "advance")
    BY <2>1, <2>5, <2>6, SaveLeaves
  <2> QED
    BY <2>1, <2>4, <2>5, <2>6, <2>7 DEF Evaluates
<1>2. ASSUME Retry(w), Evaluate(w) \/ Die(w), pc[w] # "advance" PROVE pc[w] = "evaluate"
  BY <1>2 DEF Evaluate, Die
<1>3. ASSUME Advance(w) PROVE pc[w] = "advance" /\ Drop(w) /\ UNCHANGED <<queue, lost>>
  BY <1>3 DEF Advance
<1>4. ASSUME Die(w), ~(pc[w] = "evaluate" /\ Retry(w))
      PROVE  pc[w] = "advance" /\ Drop(w) /\ UNCHANGED queue /\ lost' = lost \cup {<<call[w].at, "move">>}
  BY <1>4 DEF Die
<1>5. ASSUME Evaluate(w) PROVE pc[w] = "evaluate"
  BY <1>5 DEF Evaluate
<1> QED
  BY <1>1, <1>3, <1>4, <1>5 DEF Work

\* What a worker leaves alone, whatever it does.
LEMMA WorkLeaves ==
    ASSUME TypeInv, NEW w \in Workers, Work(w) \/ Die(w)
    PROVE  \A q \in Slots : q # w => pc'[q] = pc[q] /\ call'[q] = call[q] /\ local'[q] = local[q]
<1> w \in Slots
  BY DEF Slots
<1>1. CASE \E a \in AttemptNos : TakeJob(w, a)
  <2>1. PICK a \in AttemptNos : TakeJob(w, a)
    BY <1>1
  <2>2. CASE docs[a].covers = None
    BY <2>1, <2>2 DEF TakeJob, Load, TypeInv, TypeOK
  <2>3. CASE docs[a].covers # None
    BY <2>1, <2>3 DEF TakeJob
  <2> QED
    BY <2>2, <2>3
<1>2. CASE Retry(w)
  <2>1. \/ UNCHANGED <<pc, call>> /\ local' = [local EXCEPT ![w] = Stored(w)]
        \/ Drop(w)
    BY <1>2 DEF Retry
  <2> QED
    BY <2>1 DEF Drop, Leave, TypeInv, TypeOK
<1>3. CASE \E e \in Documents : Evaluates(w, e)
  BY <1>3 DEF Evaluates, Leaves
<1>4. CASE Drop(w)
  BY <1>4 DEF Drop, Leave, TypeInv, TypeOK
<1> QED
  BY <1>1, <1>2, <1>3, <1>4, WorkWrites

LEMMA LeavesIssued ==
    ASSUME TypeInv, NEW s \in Slots, pc[s] # "idle", NEW d, NEW next, Leaves(s, d, next)
    PROVE  /\ Issued' = Issued /\ call[s].at \in Issued
           /\ docs'[call[s].at] = d /\ d \in Documents
           /\ \A a \in Issued : a # call[s].at => docs'[a] = docs[a]
<1>1. call[s].at \in Issued
  BY AtWork
<1> QED
  BY <1>1 DEF Leaves, Issued

\* A slot is done, and no document has moved.
LEMMA DropLeaves ==
    ASSUME TypeInv, NEW s \in Slots, pc[s] # "idle", Drop(s)
    PROVE  Leaves(s, docs[call[s].at], "idle") /\ UNCHANGED docs
BY LeaveLeaves DEF Drop

-----------------------------------------------------------------------------
(* Attempts and links                                                      *)

EpochsAreKept == \A a \in Issued : docs[a].ai = "completed" => docs'[a].epoch = docs[a].epoch

LEMMA FinalInit == Init => FinalInv
<1> SUFFICES ASSUME Init PROVE FinalInv
  OBVIOUS
<1>1. \A a \in Issued : a = 1
  BY DEF Init, Issued
<1>2. \A r \in Requests : pc[r] = "idle"
  BY DEF Init, Slots
<1> QED
  BY <1>1, <1>2 DEF FinalInv, RotationOK, AttemptNos, Issued

\* No link comes back to life but the latest attempt's.
LEMMA FinalWrite ==
    ASSUME TypeInv, FinalInv, OneRequest, NEW r \in Requests, pc[r] # "idle", NEW e, NEW next, Leaves(r, e, next),
           Writes(r, docs[call[r].at], e, next)
    PROVE  FinalInv' /\ EpochsAreKept
<1> r \in Slots
  BY DEF Slots
<1> DEFINE a == call[r].at
<1>1. /\ Issued' = Issued /\ a \in Issued /\ docs'[a] = e /\ e \in Documents
      /\ \A b \in Issued : b # a => docs'[b] = docs[b]
  BY LeavesIssued
<1>2. pc'[r] = next /\ (next # "idle" => call'[r] = call[r])
  BY DEF Leaves
<1>3. RotationOK(r)
  BY DEF FinalInv
<1>4. Reschedules \subseteq Rotations
  BY DEF Rotations
<1>5. /\ e.valid => docs[a].valid \/ \A b \in Issued : b <= a
      /\ docs[a].ai = "completed" => e.epoch = docs[a].epoch
      /\ next # "handle"
      /\ next = "create" => ~e.valid /\ \A b \in Issued : b <= a
  <2>1. CASE \/ Minor(r, docs[a], e, next) \/ Reopening(r, docs[a], e, next) \/ Planning(r, docs[a], e, next)
             \/ Answering(r, docs[a], e, next) \/ Ending(r, docs[a], e, next) \/ Abandoning(r, docs[a], e, next)
    BY <2>1 DEF Minor, Reopening, Planning, Answering, Ending, Abandoning, SameStanding
  <2>2. CASE Reissuing(r, docs[a], e, next)
    <3>1. local[r].ai = docs[a].ai /\ local[r].ai # "completed" /\ \A b \in Issued : b <= a
      BY <1>3, <2>2 DEF Reissuing, RotationOK, Refused
    <3> QED
      BY <2>2, <3>1 DEF Reissuing
  <2>3. CASE Retiring(r, docs[a], e, next)
    <3>1. local[r].ai = docs[a].ai /\ local[r].ai # "completed" /\ \A b \in Issued : b <= a
      BY <1>3, <1>4, <2>3 DEF Retiring, RotationOK, Refused
    <3> QED
      BY <2>3, <3>1 DEF Retiring
  <2> QED
    BY <2>1, <2>2, <2>3 DEF Writes
<1>6. \A b, c \in Issued : b < c => ~docs'[b].valid
  <2> SUFFICES ASSUME NEW b \in Issued, NEW c \in Issued, b < c PROVE ~docs'[b].valid
    OBVIOUS
  <2>1. ~docs[b].valid /\ b \in Nat /\ c \in Nat
    BY DEF FinalInv, Issued, AttemptNos
  <2>2. CASE b = a
    BY <1>1, <1>5, <2>1, <2>2
  <2>3. CASE b # a
    BY <1>1, <2>1, <2>3
  <2> QED
    BY <2>2, <2>3
<1>7. RotationOK(r)'
  BY <1>1, <1>2, <1>5 DEF RotationOK
<1>8. \A q \in Requests : RotationOK(q)'
  BY <1>7 DEF OneRequest
<1> QED
  BY <1>1, <1>5, <1>6, <1>8 DEF FinalInv, EpochsAreKept

LEMMA FinalProceed ==
    ASSUME TypeInv, FinalInv, OneRequest, NEW r \in Requests, Proceed(r)
    PROVE  FinalInv' /\ EpochsAreKept
<1> r \in Slots
  BY DEF Slots
<1> DEFINE a == call[r].at
<1>1. CASE CreateAttempt(r)
  <2>1. pc[r] = "create" /\ Leave(r, "idle", None)
        /\ docs' = IF docs[a + 1] = None THEN [docs EXCEPT ![a + 1] = NewSession] ELSE docs
    BY <1>1 DEF CreateAttempt
  <2>2. a \in Issued /\ a \in Nat /\ ~docs[a].valid /\ \A b \in Issued : b <= a
    BY <2>1, AtWork DEF FinalInv, RotationOK, AttemptNos
  <2>3. pc'[r] = "idle"
    BY <2>1 DEF Leave, TypeInv, TypeOK
  <2>4. \A q \in Requests : RotationOK(q)'
    BY <2>3 DEF OneRequest, RotationOK
  <2>5. \A b \in Issued : b \in Issued' /\ docs'[b] = docs[b]
    BY <2>1, NewSessionTyped DEF Issued, TypeInv, TypeOK
  <2>6. \A b \in Issued' : b \in Issued \/ b = a + 1
    BY <2>1, NewSessionTyped DEF Issued, TypeInv, TypeOK
  <2>7. \A b, c \in Issued' : b < c => ~docs'[b].valid
    <3> SUFFICES ASSUME NEW b \in Issued', NEW c \in Issued', b < c PROVE ~docs'[b].valid
      OBVIOUS
    <3>1. b \in Nat /\ c \in Nat
      BY DEF Issued, AttemptNos
    <3>2. CASE c \in Issued
      BY <2>2, <2>5, <2>6, <3>1, <3>2 DEF FinalInv
    <3>3. CASE c = a + 1
      <4>1. b \in Issued /\ b <= a
        BY <2>2, <2>6, <3>1, <3>3
      <4>2. ~docs[b].valid
        BY <2>2, <3>1, <4>1 DEF FinalInv
      <4> QED
        BY <2>5, <4>1, <4>2
    <3> QED
      BY <2>6, <3>2, <3>3
  <2> QED
    BY <2>4, <2>5, <2>7 DEF FinalInv, EpochsAreKept
<1>2. CASE Schedule(r) \/ FailToSchedule(r)
  <2>1. UNCHANGED docs /\ pc'[r] = "idle"
    BY <1>2 DEF Schedule, FailToSchedule, Leave, TypeInv, TypeOK
  <2>2. \A q \in Requests : RotationOK(q)'
    BY <2>1 DEF OneRequest, RotationOK
  <2> QED
    BY <2>1, <2>2 DEF FinalInv, EpochsAreKept, Issued
<1>3. CASE pc[r] # "idle" /\ \E e \in Documents, next \in Steps : Leaves(r, e, next) /\ Writes(r, docs[a], e, next)
  BY <1>3, FinalWrite
<1> QED
  BY <1>1, <1>2, <1>3, ProceedWrites

LEMMA FinalStep ==
    ASSUME TypeInv, FinalInv, OneRequest, "ownResend" \notin Kinds, [Next]_vars
    PROVE  FinalInv' /\ EpochsAreKept
<1>1. CASE UNCHANGED vars
  BY <1>1 DEF vars, FinalInv, RotationOK, Issued, EpochsAreKept
<1>2. ASSUME NEW r \in Requests, Arrive(r) PROVE FinalInv' /\ EpochsAreKept
  <2> r \in Slots
    BY DEF Slots
  <2>1. UNCHANGED docs /\ Issued' = Issued
    BY <1>2, ArriveTakes DEF Issued
  <2>2. pc'[r] \in {"idle", "expire"} \/ RotationOK(r)'
    BY <1>2, <2>1, ArriveTakes DEF RotationOK, Portal, Sweeps, Rotations, Resends, Reschedules
  <2>3. \A q \in Requests : RotationOK(q)'
    BY <2>2 DEF OneRequest, RotationOK
  <2> QED
    BY <2>1, <2>3 DEF FinalInv, EpochsAreKept
<1>3. ASSUME NEW r \in Requests, Proceed(r) PROVE FinalInv' /\ EpochsAreKept
  BY <1>3, FinalProceed
<1>4. ASSUME NEW w \in Workers, Work(w) \/ Die(w) PROVE FinalInv' /\ EpochsAreKept
  <2> w \in Slots
    BY DEF Slots
  <2>1. Issued' = Issued /\ \A a \in Issued : SameStanding(docs[a], docs'[a])
    <3>1. CASE UNCHANGED docs
      BY <3>1 DEF Issued, SameStanding
    <3>2. CASE \E e \in Documents : Evaluates(w, e)
      BY <3>2, LeavesIssued DEF Evaluates, SameStanding
    <3>3. CASE \E a \in AttemptNos : TakeJob(w, a)
      BY <3>1, <3>3 DEF TakeJob
    <3>4. CASE Retry(w)
      BY <3>1, <3>4 DEF Retry, Drop
    <3>5. CASE Drop(w)
      BY <3>1, <3>5 DEF Drop
    <3> QED
      BY <1>4, <3>2, <3>3, <3>4, <3>5, WorkWrites
  <2>2. ASSUME NEW r \in Requests PROVE RotationOK(r)'
    <3>1. r \in Slots /\ r # w
      BY SlotAssumption DEF Slots
    <3>2. pc'[r] = pc[r] /\ call'[r] = call[r] /\ local'[r] = local[r]
      BY <1>4, <3>1, WorkLeaves
    <3>3. pc[r] # "idle" => call[r].at \in Issued
      BY <3>1, AtWork
    <3> QED
      BY <2>1, <3>2, <3>3 DEF FinalInv, RotationOK, SameStanding
  <2> QED
    BY <2>1, <2>2 DEF FinalInv, EpochsAreKept, SameStanding
<1>5. ASSUME NEW a \in Issued, Lapse(a) PROVE FinalInv' /\ EpochsAreKept
  <2>1. a \in AttemptNos /\ docs[a] \in Documents
    BY DEF Issued, TypeInv, TypeOK
  <2> DEFINE d == [docs[a] EXCEPT !.valid = FALSE]
  <2>2. d \in Documents /\ ~d.valid /\ d.ai = docs[a].ai /\ d.epoch = docs[a].epoch
    BY <2>1 DEF Documents
  <2>3. docs' = [docs EXCEPT ![a] = d] /\ UNCHANGED <<pc, call, local>>
    BY <1>5 DEF Lapse
  <2> HIDE DEF d
  <2>4. Issued' = Issued /\ docs'[a] = d /\ \A b \in Issued : b # a => docs'[b] = docs[b]
    BY <2>1, <2>2, <2>3 DEF Issued, TypeInv, TypeOK
  <2>5. ASSUME NEW r \in Requests PROVE RotationOK(r)'
    <3>1. pc[r] # "idle" => call[r].at \in Issued
      BY AtWork DEF Slots
    <3> QED
      BY <2>2, <2>3, <2>4, <3>1 DEF FinalInv, RotationOK
  <2> QED
    BY <2>2, <2>4, <2>5 DEF FinalInv, EpochsAreKept
<1> QED
  BY <1>1, <1>2, <1>3, <1>4, <1>5 DEF Next

\* Once attempt n + 1 exists no earlier attempt can be entered again, and no link
\* is issued again for a completed interview, as long as the handlers of one
\* application do not overlap and the candidate's own resend, which breaks the
\* first, is not used: however often the recruiter resends and reschedules,
\* forced or not, and whatever is swept and finalized meanwhile.
THEOREM AttemptsStayFinal ==
    ASSUME OneRequest, "ownResend" \notin Kinds
    PROVE  Spec => []OnlyLatestIsOpen /\ AttemptsAreFinal
<1>1. Init => TypeInv /\ FinalInv
  BY TypeInit, FinalInit
<1>2. TypeInv /\ FinalInv /\ [Next]_vars => (TypeInv /\ FinalInv)'
  BY TypeStep, FinalStep
<1>3. FinalInv => OnlyLatestIsOpen
  BY DEF FinalInv, OnlyLatestIsOpen, Enterable
<1>4. FinalInv' => OnlyLatestIsOpen'
  BY <1>3, PTL
<1>5. TypeInv /\ FinalInv /\ [Next]_vars =>
        [/\ OnlyLatestIsOpen'
         /\ \A a \in Issued : docs[a].ai = "completed" => docs'[a].epoch = docs[a].epoch]_vars
  BY <1>2, <1>4, FinalStep DEF EpochsAreKept
<1> QED
  BY <1>1, <1>2, <1>3, <1>5, PTL DEF Spec, AttemptsAreFinal

-----------------------------------------------------------------------------
(* Reports                                                                 *)

LEMMA ReportInit == Init => ReportInv
<1> SUFFICES ASSUME Init PROVE ReportInv
  OBVIOUS
<1>1. \A a \in Issued : docs[a] = NewSession /\ a \in AttemptNos
  BY DEF Init, Issued
<1>2. \A s \in Slots : pc[s] = "idle"
  BY DEF Init
<1>3. \A a \in Issued : AttemptOK(a)
  BY <1>1 DEF Init, AttemptOK, NewSession, Ended
<1> QED
  BY <1>2, <1>3 DEF ReportInv, RequestOK, WorkerOK, Slots

\* An attempt whose document, jobs and endings stay as they are.
LEMMA AttemptStays ==
    ASSUME NEW a, AttemptOK(a), docs'[a] = docs[a], queue'[a] = queue[a], lost \subseteq lost',
           \A s \in Slots : EndingOf(s, a) => EndingOf(s, a)'
    PROVE  AttemptOK(a)'
BY DEF AttemptOK

\* What a save leaves of the attempt it is about.
LEMMA ReportWrite ==
    ASSUME TypeInv, ReportInv, NothingReopens, NEW r \in Requests, pc[r] # "idle", NEW e \in Documents, NEW next,
           NEW a \in Issued, a = call[r].at, NEW d, d = docs[a],
           Leaves(r, e, next), Writes(r, d, e, next), queue' = queue, lost' = lost
    PROVE  /\ AttemptOK(a)' /\ RequestOK(r)'
           /\ d.ai \in Ended => e.ai \in Ended /\ e.answers = d.answers
<1> r \in Slots
  BY DEF Slots
<1>1. docs'[a] = e
  BY LeavesIssued
<1>2. pc'[r] = next /\ (next # "idle" => call'[r] = call[r])
      /\ \A q \in Slots : q # r => pc'[q] = pc[q] /\ call'[q] = call[q]
  BY DEF Leaves
<1>3. AttemptOK(a) /\ RequestOK(r)
  BY <1>1 DEF ReportInv
<1>4. "in_progress" \notin Ended /\ "not_started" \notin Ended
  BY DEF Ended
<1>5. ASSUME pc[r] \in {"expire", "handle", "begin"}, NEW s \in Slots, EndingOf(s, a) PROVE EndingOf(s, a)'
  BY <1>2, <1>5 DEF EndingOf
<1>6. ASSUME SameRecord(d, e), e.ai = d.ai, e.ai = "abandoned" => ~e.valid, pc[r] \in {"expire", "handle", "begin"}
      PROVE  AttemptOK(a)'
  BY <1>1, <1>3, <1>5, <1>6 DEF AttemptOK, SameRecord
<1>7. CASE Minor(r, d, e, next)
  <2>1. AttemptOK(a)'
    BY <1>3, <1>6, <1>7 DEF Minor, SameStanding, AttemptOK
  <2>2. RequestOK(r)'
    <3>1. CASE next = "idle"
      BY <1>2, <3>1 DEF RequestOK
    <3>2. CASE next # "idle"
      BY <1>1, <1>2, <1>3, <1>7, <3>2 DEF RequestOK, Minor, SameStanding
    <3> QED
      BY <3>1, <3>2
  <2> QED
    BY <1>7, <2>1, <2>2 DEF Minor, SameStanding, SameRecord
<1>8. ASSUME Reopening(r, d, e, next) PROVE FALSE
  BY <1>3, <1>8 DEF Reopening, RequestOK
<1>9. CASE Planning(r, d, e, next)
  <2>1. d.ai = "not_started"
    BY <1>3, <1>9 DEF Planning, RequestOK
  <2>2. AttemptOK(a)'
    BY <1>1, <1>3, <1>4, <1>9, <2>1 DEF Planning, AttemptOK, SameRecord
  <2>3. RequestOK(r)'
    BY <1>2, <1>9 DEF Planning, RequestOK
  <2> QED
    BY <1>4, <2>1, <2>2, <2>3
<1>10. CASE Answering(r, d, e, next)
  <2>1. d.ai = "in_progress"
    BY <1>3, <1>10 DEF Answering, RequestOK
  <2>2. AttemptOK(a)'
    BY <1>1, <1>3, <1>4, <1>10, <2>1 DEF Answering, AttemptOK, SameStanding
  <2>3. RequestOK(r)'
    BY <1>2, <1>10 DEF Answering, RequestOK
  <2> QED
    BY <1>4, <2>1, <2>2, <2>3
<1>11. CASE Ending(r, d, e, next)
  <2>1. d.ai = "in_progress"
    BY <1>3, <1>11 DEF Ending, RequestOK
  <2>2. EndingOf(r, a)'
    BY <1>2, <1>11 DEF Ending, EndingOf
  <2>3. AttemptOK(a)'
    BY <1>1, <1>3, <1>4, <1>11, <2>1, <2>2 DEF Ending, AttemptOK
  <2>4. RequestOK(r)'
    BY <1>1, <1>2, <1>11 DEF Ending, RequestOK
  <2> QED
    BY <1>4, <2>1, <2>3, <2>4
<1>12. CASE Abandoning(r, d, e, next)
  <2>1. d.ai = "in_progress" /\ (d.valid => local[r].valid) /\ call[r].kind \in Kinds
    BY <1>3, <1>12 DEF Abandoning, RequestOK
  <2>2. EndingOf(r, a)' /\ "abandoned" \in Ended
    BY <1>2, <1>12 DEF Abandoning, EndingOf, Ended
  <2>3. Kinds \cap Sweeps # {}
    BY <1>12, <2>1 DEF Abandoning
  <2>4. AttemptOK(a)'
    BY <1>1, <1>3, <1>4, <1>12, <2>1, <2>2, <2>3 DEF Abandoning, AttemptOK, SameRecord
  <2>5. RequestOK(r)'
    BY <1>1, <1>2, <1>12, <2>2 DEF Abandoning, RequestOK
  <2> QED
    BY <1>4, <2>1, <2>4, <2>5
<1>13. CASE Reissuing(r, d, e, next)
  <2>1. call[r].kind \in Kinds /\ local[r].started = d.started
    BY <1>3, <1>13 DEF Reissuing, RequestOK
  <2>2. d.ai # "abandoned"
    <3> SUFFICES ASSUME d.ai = "abandoned" PROVE FALSE
      OBVIOUS
    <3>1. d.started /\ Kinds \cap Sweeps # {}
      BY <1>3 DEF AttemptOK
    <3>2. call[r].kind \in Reschedules
      BY <1>13, <2>1, <3>1 DEF NothingReopens, Reissuing, Rotations
    <3> QED
      BY <1>13, <2>1, <3>1, <3>2 DEF Reissuing, FreshStart, HasProgress
  <2>3. AttemptOK(a)'
    BY <1>6, <1>13, <2>2 DEF Reissuing
  <2>4. RequestOK(r)'
    BY <1>2, <1>13 DEF Reissuing, RequestOK
  <2> QED
    BY <1>13, <2>3, <2>4 DEF Reissuing, SameRecord
<1>14. CASE Retiring(r, d, e, next)
  <2>1. AttemptOK(a)'
    BY <1>6, <1>14 DEF Retiring
  <2>2. RequestOK(r)'
    BY <1>2, <1>14 DEF Retiring, RequestOK
  <2> QED
    BY <1>14, <2>1, <2>2 DEF Retiring, SameRecord
<1> QED
  BY <1>7, <1>8, <1>9, <1>10, <1>11, <1>12, <1>13, <1>14 DEF Writes

LEMMA ReportProceed ==
    ASSUME TypeInv, ReportInv, OneRequest, NothingReopens, NEW r \in Requests, Proceed(r)
    PROVE  ReportInv'
<1> r \in Slots
  BY DEF Slots
<1> PICK a : a = call[r].at
  OBVIOUS
<1>1. pc[r] # "idle" => a \in Issued /\ a \in AttemptNos
  BY AtWork
<1>2. ASSUME \A q \in Slots : q # r => pc'[q] = pc[q] /\ call'[q] = call[q], pc[r] \notin {"schedule", "evaluate"} 
      PROVE  \A b, s : s \in Slots /\ EndingOf(s, b) => EndingOf(s, b)'
  BY <1>2 DEF EndingOf
<1>3. CASE CreateAttempt(r)
  <2>1. pc[r] = "create" /\ Leave(r, "idle", None) /\ UNCHANGED <<queue, lost>>
        /\ docs' = IF docs[a + 1] = None THEN [docs EXCEPT ![a + 1] = NewSession] ELSE docs
    BY <1>3 DEF CreateAttempt
  <2>2. pc'[r] = "idle" /\ \A q \in Slots : q # r => pc'[q] = pc[q] /\ call'[q] = call[q] /\ local'[q] = local[q]
    BY <2>1 DEF Leave, TypeInv, TypeOK
  <2>3. \A b \in Issued : docs'[b] = docs[b]
    BY <2>1 DEF Issued, TypeInv, TypeOK
  <2>4. \A b \in Issued' : b \in Issued \/ (b \in AttemptNos /\ docs[b] = None /\ docs'[b] = NewSession)
    BY <2>1 DEF Issued, TypeInv, TypeOK
  <2>5. ASSUME NEW b \in Issued' PROVE AttemptOK(b)'
    <3>1. CASE b \in Issued
      BY <1>2, <2>1, <2>2, <2>3, <3>1, AttemptStays DEF ReportInv
    <3>2. CASE b \in AttemptNos /\ docs[b] = None /\ docs'[b] = NewSession
      <4>1. ~(queue[b] > 0)
        BY <3>2 DEF TypeInv
      <4> QED
        BY <2>1, <3>2, <4>1 DEF AttemptOK, NewSession, Ended
    <3> QED
      BY <2>4, <3>1, <3>2
  <2>6. ASSUME NEW w \in Workers PROVE WorkerOK(w)'
    <3>1. w \in Slots /\ w # r
      BY SlotAssumption DEF Slots
    <3>2. pc[w] # "idle" => call[w].at \in Issued
      BY <3>1, AtWork
    <3> QED
      BY <2>2, <2>3, <3>1, <3>2 DEF ReportInv, WorkerOK
  <2>7. \A q \in Requests : RequestOK(q)'
    BY <2>2 DEF OneRequest, RequestOK
  <2> QED
    BY <2>5, <2>6, <2>7 DEF ReportInv
<1>4. CASE Schedule(r) \/ FailToSchedule(r)
  <2>1. pc[r] = "schedule" /\ Leave(r, "idle", None) /\ UNCHANGED docs
    BY <1>4 DEF Schedule, FailToSchedule
  <2>2. pc'[r] = "idle" /\ \A q \in Slots : q # r => pc'[q] = pc[q] /\ call'[q] = call[q] /\ local'[q] = local[q]
    BY <2>1 DEF Leave, TypeInv, TypeOK
  <2>3. queue[a] \in Nat /\ docs[a].ai \in Ended
    BY <1>1, <2>1 DEF ReportInv, RequestOK, TypeInv, TypeOK
  <2>4. \/ queue' = [queue EXCEPT ![a] = @ + 1] /\ UNCHANGED lost
        \/ UNCHANGED queue /\ lost' = lost \cup {<<a, "report">>}
    BY <1>4 DEF Schedule, FailToSchedule
  <2>5. ASSUME NEW b \in Issued PROVE AttemptOK(b)'
    <3>1. AttemptOK(b) /\ b \in AttemptNos
      BY DEF ReportInv, Issued
    <3>2. CASE b # a
      <4>1. queue'[b] = queue[b] /\ lost \subseteq lost'
        BY <1>1, <2>1, <2>4, <3>1, <3>2 DEF TypeInv, TypeOK
      <4>2. \A s \in Slots : EndingOf(s, b) => EndingOf(s, b)'
        BY <2>2, <3>2 DEF EndingOf
      <4> QED
        BY <2>1, <3>1, <4>1, <4>2, AttemptStays
    <3>3. CASE b = a
      <4>1. queue'[a] > 0 \/ <<a, "report">> \in lost'
        BY <1>1, <2>1, <2>3, <2>4 DEF TypeInv, TypeOK
      <4> QED
        BY <2>1, <2>3, <3>1, <3>3, <4>1 DEF AttemptOK
    <3> QED
      BY <3>2, <3>3
  <2>6. \A w \in Workers : WorkerOK(w)'
    BY <2>1, <2>2, SlotAssumption DEF ReportInv, WorkerOK, Slots
  <2>7. \A q \in Requests : RequestOK(q)'
    BY <2>2 DEF OneRequest, RequestOK
  <2> QED
    BY <2>1, <2>5, <2>6, <2>7 DEF ReportInv, Issued
<1>5. CASE /\ pc[r] # "idle" /\ UNCHANGED <<queue, lost>>
           /\ \E e \in Documents, next \in Steps : Leaves(r, e, next) /\ Writes(r, docs[a], e, next)
  <2>1. PICK e \in Documents, next \in Steps : Leaves(r, e, next) /\ Writes(r, docs[a], e, next)
    BY <1>5
  <2>2. /\ Issued' = Issued /\ a \in Issued /\ docs'[a] = e
        /\ \A b \in Issued : b # a => docs'[b] = docs[b]
    BY <1>5, <2>1, LeavesIssued
  <2>3. /\ AttemptOK(a)' /\ RequestOK(r)'
        /\ docs[a].ai \in Ended => e.ai \in Ended /\ e.answers = docs[a].answers
    <3>1. queue' = queue /\ lost' = lost
      BY <1>5
    <3>2. PICK d : d = docs[a]
      OBVIOUS
    <3> QED
      BY <1>5, <2>1, <2>2, <3>1, <3>2, ReportWrite
  <2>4. \A q \in Slots : q # r => pc'[q] = pc[q] /\ call'[q] = call[q] /\ local'[q] = local[q]
    BY <2>1 DEF Leaves
  <2>5. ASSUME NEW b \in Issued, b # a PROVE AttemptOK(b)'
    <3>1. \A s \in Slots : EndingOf(s, b) => EndingOf(s, b)'
      BY <2>4, <2>5 DEF EndingOf
    <3> QED
      BY <1>5, <2>2, <2>5, <3>1, AttemptStays DEF ReportInv
  <2>6. ASSUME NEW w \in Workers PROVE WorkerOK(w)'
    <3>1. w \in Slots /\ w # r
      BY SlotAssumption DEF Slots
    <3>2. pc[w] # "idle" => call[w].at \in Issued
      BY <3>1, AtWork
    <3> QED
      BY <2>2, <2>3, <2>4, <3>1, <3>2 DEF ReportInv, WorkerOK
  <2>7. \A q \in Requests : RequestOK(q)'
    BY <2>3 DEF OneRequest
  <2> QED
    BY <2>2, <2>3, <2>5, <2>6, <2>7 DEF ReportInv
<1> QED
  BY <1>3, <1>4, <1>5, ProceedWrites

LEMMA ReportWork ==
    ASSUME TypeInv, ReportInv, NEW w \in Workers, Work(w) \/ Die(w)
    PROVE  ReportInv'
<1> w \in Slots
  BY DEF Slots
<1> PICK c : c = call[w].at
  OBVIOUS
<1>1. /\ \A q \in Slots : q # w => pc'[q] = pc[q] /\ call'[q] = call[q] /\ local'[q] = local[q]
      /\ \A q \in Requests : q \in Slots /\ q # w
      /\ \A q \in Slots : pc[q] # "idle" => call[q].at \in Issued
  BY WorkLeaves, SlotAssumption, AtWork DEF Slots
<1>2. pc[w] # "idle" => c \in Issued
  BY <1>1
<1>3. ASSUME Issued' = Issued, \A b \in Issued : AttemptOK(b)', WorkerOK(w)',
             \A b \in Issued : /\ docs'[b].ai = docs[b].ai /\ docs'[b].started = docs[b].started
                               /\ docs'[b].valid = docs[b].valid /\ docs'[b].answers = docs[b].answers
      PROVE  ReportInv'
  <2>1. ASSUME NEW r \in Requests PROVE RequestOK(r)'
    <3>1. /\ pc'[r] = pc[r] /\ call'[r] = call[r] /\ local'[r] = local[r]
          /\ pc[r] # "idle" => call[r].at \in Issued
      BY <1>1
    <3> QED
      BY <1>3, <3>1 DEF ReportInv, RequestOK
  <2>2. ASSUME NEW v \in Workers, v # w PROVE WorkerOK(v)'
    <3>1. v \in Slots
      BY DEF Slots
    <3> QED
      BY <1>1, <1>3, <2>2, <3>1 DEF ReportInv, WorkerOK
  <2> QED
    BY <1>3, <2>1, <2>2 DEF ReportInv
<1>4. ASSUME docs' = docs, queue' = queue, lost \subseteq lost', WorkerOK(w)', pc[w] # "schedule",
             pc[w] = "evaluate" /\ docs[c].covers = None => EndingOf(w, c)' \/ <<c, "report">> \in lost'
      PROVE  ReportInv'
  <2>1. Issued' = Issued
    BY <1>4 DEF Issued
  <2>2. ASSUME NEW b \in Issued PROVE AttemptOK(b)'
    <3>1. AttemptOK(b)
      BY DEF ReportInv
    <3>2. CASE b = c /\ pc[w] = "evaluate" /\ docs[c].covers = None
      <4>1. EndingOf(w, b)' \/ <<b, "report">> \in lost'
        BY <1>4, <3>2
      <4> QED
        BY <1>4, <3>1, <4>1 DEF AttemptOK
    <3>3. CASE docs[b].covers # None
      BY <1>4, <3>1, <3>3 DEF AttemptOK
    <3>4. CASE ~(b = c /\ pc[w] = "evaluate")
      <4>1. \A s \in Slots : EndingOf(s, b) => EndingOf(s, b)'
        BY <1>1, <1>4, <3>4 DEF EndingOf
      <4> QED
        BY <1>4, <3>1, <4>1, AttemptStays
    <3> QED
      BY <3>2, <3>3, <3>4
  <2> QED
    BY <1>3, <1>4, <2>1, <2>2
<1>5. ASSUME NEW a \in AttemptNos, TakeJob(w, a) PROVE ReportInv'
  <2>1. /\ pc[w] = "idle" /\ queue[a] > 0 /\ docs' = docs /\ lost' = lost
        /\ queue' = [queue EXCEPT ![a] = @ - 1]
    BY <1>5 DEF TakeJob
  <2>2. a \in Issued /\ AttemptOK(a) /\ docs[a].ai \in Ended
    BY <2>1 DEF TypeInv, Issued, ReportInv, AttemptOK
  <2>3. Issued' = Issued
    BY <2>1 DEF Issued
  <2>4. /\ docs[a].covers = None => pc'[w] = "evaluate" /\ call'[w].at = a /\ local'[w] = docs[a]
        /\ docs[a].covers # None => pc'[w] = "idle"
    <3>1. CASE docs[a].covers = None
      BY <1>5, <2>2, <3>1, LoadTakes DEF TakeJob
    <3>2. CASE docs[a].covers # None
      BY <1>5, <2>1, <3>2 DEF TakeJob
    <3> QED
      BY <3>1, <3>2
  <2>5. WorkerOK(w)'
    BY <2>1, <2>2, <2>4 DEF WorkerOK
  <2>6. ASSUME NEW b \in Issued PROVE AttemptOK(b)'
    <3>1. AttemptOK(b) /\ b \in AttemptNos
      BY DEF ReportInv, Issued
    <3>2. \A s \in Slots : EndingOf(s, b) => EndingOf(s, b)'
      BY <1>1, <2>1 DEF EndingOf
    <3>3. CASE b # a
      BY <2>1, <3>1, <3>2, <3>3, AttemptStays DEF TypeInv, TypeOK
    <3>4. CASE b = a
      <4>1. docs[a].covers = None => EndingOf(w, a)'
        BY <2>4 DEF EndingOf
      <4> QED
        BY <2>1, <2>2, <3>4, <4>1 DEF AttemptOK
    <3> QED
      BY <3>3, <3>4
  <2> QED
    BY <1>3, <2>1, <2>3, <2>5, <2>6
<1>6. ASSUME pc[w] = "evaluate", Retry(w) PROVE ReportInv'
  <2>1. CASE docs[c].covers = None /\ tries[w] < MaxTries
    <3>1. /\ local' = [local EXCEPT ![w] = docs[c]]
          /\ docs' = docs /\ pc' = pc /\ call' = call /\ lost' = lost /\ queue' = queue
      BY <1>6, <2>1 DEF Retry, Stored
    <3>2. WorkerOK(w)'
      BY <1>6, <3>1 DEF WorkerOK, ReportInv, TypeInv, TypeOK
    <3>3. EndingOf(w, c)'
      BY <1>6, <3>1 DEF EndingOf
    <3> QED
      BY <1>4, <1>6, <3>1, <3>2, <3>3
  <2>2. CASE ~(docs[c].covers = None /\ tries[w] < MaxTries)
    <3>1. /\ Drop(w) /\ queue' = queue
          /\ lost' = IF docs[c].covers = None THEN lost \cup {<<c, "report">>} ELSE lost
      BY <1>6, <2>2 DEF Retry, Stored
    <3>2. pc'[w] = "idle" /\ docs' = docs
      BY <3>1 DEF Drop, Leave, TypeInv, TypeOK
    <3>3. WorkerOK(w)'
      BY <3>2 DEF WorkerOK
    <3> QED
      BY <1>4, <1>6, <3>1, <3>2, <3>3
  <2> QED
    BY <2>1, <2>2
<1>7. ASSUME NEW e \in Documents, Evaluates(w, e) PROVE ReportInv'
  <2>1. /\ pc[w] = "evaluate" /\ queue' = queue /\ lost' = lost /\ pc'[w] = "advance"
        /\ e.ai = docs[c].ai /\ e.valid = docs[c].valid /\ e.answers = docs[c].answers
        /\ e.started = docs[c].started /\ e.covers = local[w].answers
    BY <1>7 DEF Evaluates, Leaves, SameStanding
  <2>2. /\ Issued' = Issued /\ c \in Issued /\ docs'[c] = e
        /\ \A b \in Issued : b # c => docs'[b] = docs[b]
    BY <1>7, <2>1, LeavesIssued DEF Evaluates
  <2>3. docs[c].ai \in Ended /\ e.covers = e.answers /\ e.covers # None
    BY <2>1, FieldsTyped DEF ReportInv, WorkerOK
  <2>4. WorkerOK(w)'
    BY <2>1 DEF WorkerOK
  <2>5. ASSUME NEW b \in Issued PROVE AttemptOK(b)'
    <3>1. AttemptOK(b)
      BY DEF ReportInv
    <3>2. CASE b = c
      BY <2>1, <2>2, <2>3, <3>1, <3>2 DEF AttemptOK
    <3>3. CASE b # c
      <4>1. \A s \in Slots : EndingOf(s, b) => EndingOf(s, b)'
        BY <1>1, <3>3 DEF EndingOf
      <4> QED
        BY <2>1, <2>2, <3>1, <3>3, <4>1, AttemptStays
    <3> QED
      BY <3>2, <3>3
  <2> QED
    BY <1>3, <2>1, <2>2, <2>4, <2>5
<1>8. ASSUME pc[w] = "advance", Drop(w), queue' = queue, lost \subseteq lost' PROVE ReportInv'
  <2>1. pc'[w] = "idle" /\ docs' = docs
    BY <1>8 DEF Drop, Leave, TypeInv, TypeOK
  <2> QED
    BY <1>4, <1>8, <2>1 DEF WorkerOK
<1> QED
  BY <1>5, <1>6, <1>7, <1>8, WorkWrites

LEMMA ReportStep ==
    ASSUME TypeInv, ReportInv, OneRequest, NothingReopens, [Next]_vars
    PROVE  ReportInv'
<1>1. CASE UNCHANGED vars
  BY <1>1 DEF vars, ReportInv, AttemptOK, RequestOK, WorkerOK, EndingOf, Issued
<1>2. ASSUME NEW r \in Requests, Arrive(r) PROVE ReportInv'
  <2> r \in Slots
    BY DEF Slots
  <2>1. /\ docs' = docs /\ queue' = queue /\ lost' = lost /\ Issued' = Issued /\ pc[r] = "idle"
        /\ \A q \in Slots : q # r => pc'[q] = pc[q] /\ call'[q] = call[q] /\ local'[q] = local[q]
    BY <1>2, ArriveTakes DEF Issued
  <2>2. ASSUME NEW b \in Issued PROVE AttemptOK(b)'
    <3>1. \A s \in Slots : EndingOf(s, b) => EndingOf(s, b)'
      BY <2>1 DEF EndingOf
    <3> QED
      BY <2>1, <3>1, AttemptStays DEF ReportInv
  <2>3. \A w \in Workers : WorkerOK(w)'
    BY <2>1, SlotAssumption DEF ReportInv, WorkerOK, Slots
  <2>4. RequestOK(r)'
    <3>1. CASE pc'[r] \in {"idle", "expire"}
      BY <3>1 DEF RequestOK
    <3>2. CASE /\ pc'[r] = "handle" /\ local'[r] = docs[call'[r].at] /\ call'[r].kind \in Kinds
               /\ call'[r].at \in Issued
               /\ \/ call'[r].kind \in Portal /\ docs[call'[r].at].valid
                  \/ call'[r].kind \in Sweeps /\ docs[call'[r].at].ai = "in_progress"
                  \/ call'[r].kind \in Rotations
      <4>1. call'[r].kind = "begin" => local'[r].ai # "abandoned"
        BY <3>2 DEF ReportInv, AttemptOK, Sweeps, Rotations, Resends, Reschedules
      <4> QED
        BY <2>1, <3>2, <4>1 DEF RequestOK, Portal, Sweeps, Rotations, Resends, Reschedules
    <3> QED
      BY <1>2, <3>1, <3>2, ArriveTakes
  <2>5. \A q \in Requests : RequestOK(q)'
    BY <2>4 DEF OneRequest
  <2> QED
    BY <2>1, <2>2, <2>3, <2>5 DEF ReportInv
<1>3. ASSUME NEW r \in Requests, Proceed(r) PROVE ReportInv'
  BY <1>3, ReportProceed
<1>4. ASSUME NEW w \in Workers, Work(w) \/ Die(w) PROVE ReportInv'
  BY <1>4, ReportWork
<1>5. ASSUME NEW a \in Issued, Lapse(a) PROVE ReportInv'
  <2>1. a \in AttemptNos /\ docs[a] \in Documents
    BY DEF Issued, TypeInv, TypeOK
  <2> DEFINE d == [docs[a] EXCEPT !.valid = FALSE]
  <2>2. /\ d \in Documents /\ ~d.valid /\ d.ai = docs[a].ai /\ d.started = docs[a].started
        /\ d.answers = docs[a].answers /\ d.covers = docs[a].covers
    BY <2>1 DEF Documents
  <2>3. /\ docs' = [docs EXCEPT ![a] = d]
        /\ pc' = pc /\ call' = call /\ local' = local /\ queue' = queue /\ lost' = lost
    BY <1>5 DEF Lapse
  <2> HIDE DEF d
  <2>4. Issued' = Issued /\ docs'[a] = d /\ \A b \in Issued : b # a => docs'[b] = docs[b]
    BY <2>1, <2>2, <2>3 DEF Issued, TypeInv, TypeOK
  <2>5. ASSUME NEW b \in Issued PROVE AttemptOK(b)'
    <3>1. AttemptOK(b)
      BY DEF ReportInv
    <3>2. \A s \in Slots : EndingOf(s, b) => EndingOf(s, b)'
      BY <2>3 DEF EndingOf
    <3>3. CASE b = a
      BY <2>2, <2>3, <2>4, <3>1, <3>2, <3>3 DEF AttemptOK
    <3>4. CASE b # a
      BY <2>3, <2>4, <3>1, <3>2, <3>4, AttemptStays
    <3> QED
      BY <3>3, <3>4
  <2>6. ASSUME NEW r \in Requests PROVE RequestOK(r)'
    <3>1. pc[r] # "idle" => call[r].at \in Issued
      BY AtWork DEF Slots
    <3> QED
      BY <2>2, <2>3, <2>4, <3>1 DEF ReportInv, RequestOK
  <2>7. ASSUME NEW w \in Workers PROVE WorkerOK(w)'
    <3>1. pc[w] # "idle" => call[w].at \in Issued
      BY AtWork DEF Slots
    <3> QED
      BY <2>2, <2>3, <2>4, <3>1 DEF ReportInv, WorkerOK
  <2> QED
    BY <2>4, <2>5, <2>6, <2>7 DEF ReportInv
<1> QED
  BY <1>1, <1>2, <1>3, <1>4, <1>5 DEF Next

\* Once an interview ended and all its jobs are done, its report covers every
\* answer, as long as the handlers of one application do not overlap and no
\* swept interview is reopened: neither the answers still scored by one worker
\* while another stores its evaluation, nor a worker that dies and runs again,
\* nor a second job of the same interview leaves an answer out.
THEOREM ReportsAreComplete ==
    ASSUME OneRequest, NothingReopens
    PROVE  Spec => []ReportIsComplete
<1>1. Init => TypeInv /\ ReportInv
  BY TypeInit, ReportInit
<1>2. TypeInv /\ ReportInv /\ [Next]_vars => (TypeInv /\ ReportInv)'
  BY TypeStep, ReportStep
<1>3. TypeInv /\ ReportInv => ReportIsComplete
  <2> SUFFICES ASSUME TypeInv, ReportInv, NEW a \in Issued,
                      docs[a].ai \in Ended, queue[a] = 0, <<a, "report">> \notin lost,
                      \A s \in Slots : pc[s] # "idle" => call[s].at # a
               PROVE  docs[a].covers = docs[a].answers
    BY DEF ReportIsComplete
  <2>1. AttemptOK(a) /\ \A s \in Slots : ~EndingOf(s, a)
    BY DEF ReportInv, EndingOf
  <2> QED
    BY <2>1 DEF AttemptOK
<1> QED
  BY <1>1, <1>2, <1>3, PTL DEF Spec

-----------------------------------------------------------------------------
(* The turns of an interview.                                                *)

CONSTANTS Must, Probes, Anchors, NoItem, MaxQuestions, MinQuestions, MaxFollowUps, ClosingLength, Endings, MaxSide,
          MaxTalkedOver
VARIABLE ai

Turns == INSTANCE InterviewTurns

TurnBounds ==
    /\ IsFiniteSet(Turns!Items) /\ NoItem \notin Turns!Items
    /\ MaxQuestions \in Nat /\ MinQuestions \in Nat /\ MaxFollowUps \in Nat /\ ClosingLength \in Nat
    /\ {"not_started", "in_progress", "completed"} \cap Endings = {}

AiKinds == {"intro", "warmup", "question", "follow_up", "nudge", "capstone", "closing", "side_reply"}
CandidateKinds == {"warmup_answer", "answer", "side_claim"}
SpokenTurns == [role : {"ai", "candidate"}, kind : AiKinds \cup CandidateKinds, item : Turns!Items \cup {NoItem},
                heard : BOOLEAN, nudged : BOOLEAN, length : {"none", "short", "long"},
                declined : {"no", "decline", "no_response"}, scored : BOOLEAN]
Evaluations == [done : BOOLEAN, recommendation : {"none", "model", "review"}, asked : Nat, answered : Nat, declined : Nat]
Interviews == [status : Turns!Statuses, turns : Seq(SpokenTurns), cover : [Turns!Items -> {"pending", "asked", "covered"}],
               questionCount : Nat, maxQuestions : Nat, minQuestions : Nat, followUpCount : Nat, closingIndex : Nat,
               away : BOOLEAN, evaluation : Evaluations]

TFresh(s, m) == \A i \in DOMAIN s.turns : s.turns[i].item # m
FreshMust(s) == {m \in Must : TFresh(s, m)}
Asking(s) == {i \in DOMAIN s.turns : Turns!IsAi(s.turns[i]) /\ s.turns[i].kind \in {"question", "follow_up"}}
NudgedTurns(s) == {i \in DOMAIN s.turns : s.turns[i].nudged}
OfKinds(s, K) == {i \in DOMAIN s.turns : Turns!IsAi(s.turns[i]) /\ s.turns[i].kind \in K}

\* Every set of naturals below a bound with an element has a largest one.
LEMMA LargestIsIn ==
    ASSUME NEW n \in Nat, NEW T, T \subseteq 1 .. n, T # {}
    PROVE  /\ Turns!Max(T) \in T
           /\ \A y \in T : y <= Turns!Max(T)
<1> DEFINE R == OpToRel(<, Nat)
           U == {n - x : x \in T}
<1>0. T \subseteq Int /\ U \subseteq Nat /\ U # {}
  <2>1. \A x \in T : x \in Int /\ n - x \in Nat
    OBVIOUS
  <2> QED
    BY <2>1
<1>1. PICK x \in U : \A y \in U : ~(<<y, x>> \in R)
  <2>1. IsWellFoundedOn(R, Nat)
    BY NatLessThanWellFounded
  <2> HIDE DEF R, U
  <2> QED
    BY <1>0, <2>1, WFMin
<1>2. PICK z \in T : x = n - z
  OBVIOUS
<1>3. ASSUME NEW y \in T PROVE z >= y
  <2>1. n - y \in U /\ n - y \in Nat /\ x \in Nat /\ y \in Int /\ z \in Int
    BY <1>0
  <2> HIDE DEF U
  <2>2. <<n - y, x>> \in Nat \X Nat /\ <<n - y, x>>[1] = n - y /\ <<n - y, x>>[2] = x
    BY <2>1
  <2>3. ~(n - y < x)
    BY <1>1, <2>1, <2>2 DEF OpToRel
  <2> QED
    BY <2>1, <2>3, <1>2
<1> HIDE DEF R, U
<1>4. Turns!Max(T) \in T /\ \A y \in T : Turns!Max(T) >= y
  BY <1>3 DEF Turns!Max
<1> QED
  BY <1>4, <1>0


\* What backward search finds: a turn of the transcript, or none.
LEMMA SameSize == \A T : Turns!Cardinality(T) = Cardinality(T)
BY DEF Turns!Cardinality, Cardinality

LEMMA LastAi ==
    ASSUME NEW t, t \in Seq(SpokenTurns)
    PROVE  LET i == Turns!SelectLastInSeq(t, Turns!IsAi)
           IN  i \in Nat /\ (i # 0 => i \in 1 .. Len(t) /\ Turns!IsAi(t[i]))
<1> DEFINE Hits == {i \in 1 .. Len(t) : Turns!IsAi(t[i])}
<1>1. Len(t) \in Nat /\ Hits \subseteq 1 .. Len(t)
  OBVIOUS
<1>2. Hits # {} => Turns!Max(Hits) \in Hits
  <2> HIDE DEF Hits
  <2> QED
    BY <1>1, LargestIsIn
<1>3. Turns!SelectLastInSeq(t, Turns!IsAi) = IF Hits # {} THEN Turns!Max(Hits) ELSE 0
  BY DEF Turns!SelectLastInSeq
<1> QED
  BY <1>1, <1>2, <1>3

LEMMA LastCandidate ==
    ASSUME NEW t, t \in Seq(SpokenTurns)
    PROVE  LET i == Turns!SelectLastInSeq(t, Turns!IsCandidate)
           IN  i \in Nat /\ (i # 0 => i \in 1 .. Len(t) /\ Turns!IsCandidate(t[i]))
<1> DEFINE Hits == {i \in 1 .. Len(t) : Turns!IsCandidate(t[i])}
<1>1. Len(t) \in Nat /\ Hits \subseteq 1 .. Len(t)
  OBVIOUS
<1>2. Hits # {} => Turns!Max(Hits) \in Hits
  <2> HIDE DEF Hits
  <2> QED
    BY <1>1, LargestIsIn
<1>3. Turns!SelectLastInSeq(t, Turns!IsCandidate) = IF Hits # {} THEN Turns!Max(Hits) ELSE 0
  BY DEF Turns!SelectLastInSeq
<1> QED
  BY <1>1, <1>2, <1>3

LEMMA LastQuestion ==
    ASSUME NEW t, t \in Seq(SpokenTurns)
    PROVE  LET i == Turns!SelectLastInSeq(t, Turns!IsQuestion)
           IN  i \in Nat /\ (i # 0 => i \in 1 .. Len(t) /\ Turns!IsQuestion(t[i]))
<1> DEFINE Hits == {i \in 1 .. Len(t) : Turns!IsQuestion(t[i])}
<1>1. Len(t) \in Nat /\ Hits \subseteq 1 .. Len(t)
  OBVIOUS
<1>2. Hits # {} => Turns!Max(Hits) \in Hits
  <2> HIDE DEF Hits
  <2> QED
    BY <1>1, LargestIsIn
<1>3. Turns!SelectLastInSeq(t, Turns!IsQuestion) = IF Hits # {} THEN Turns!Max(Hits) ELSE 0
  BY DEF Turns!SelectLastInSeq
<1> QED
  BY <1>1, <1>2, <1>3

LEMMA LastAnswer ==
    ASSUME NEW t, t \in Seq(SpokenTurns)
    PROVE  LET i == Turns!SelectLastInSeq(t, Turns!IsAnswer)
           IN  i \in Nat /\ (i # 0 => i \in 1 .. Len(t) /\ Turns!IsAnswer(t[i]))
<1> DEFINE Hits == {i \in 1 .. Len(t) : Turns!IsAnswer(t[i])}
<1>1. Len(t) \in Nat /\ Hits \subseteq 1 .. Len(t)
  OBVIOUS
<1>2. Hits # {} => Turns!Max(Hits) \in Hits
  <2> HIDE DEF Hits
  <2> QED
    BY <1>1, LargestIsIn
<1>3. Turns!SelectLastInSeq(t, Turns!IsAnswer) = IF Hits # {} THEN Turns!Max(Hits) ELSE 0
  BY DEF Turns!SelectLastInSeq
<1> QED
  BY <1>1, <1>2, <1>3

(* Every item the interviewer named was put as a question; an approved question
   nobody has put is pending, and the budget still has room for it.          *)
ItemsArePut(s) == \A i \in DOMAIN s.turns : s.turns[i].item # NoItem => Turns!IsQuestion(s.turns[i])
FreshArePending(s) == \A m \in Must : TFresh(s, m) => s.cover[m] = "pending"
BudgetIsReserved(s) ==
    /\ s.status # "not_started" => s.questionCount + Cardinality(FreshMust(s)) <= s.maxQuestions
    /\ s.status = "not_started" => s.turns = <<>> /\ s.questionCount = 0
    /\ s.status = "completed" => Turns!Pending(s, Must) = {}

(* What the interviewer says is counted against what allows it.              *)
TurnsAreCounted(s) ==
    /\ NudgedTurns(s) \subseteq Asking(s)
    /\ Cardinality(Asking(s)) = s.questionCount + s.followUpCount
    /\ Cardinality(OfKinds(s, {"nudge"})) <= Cardinality(NudgedTurns(s))
    /\ Cardinality(OfKinds(s, {"intro", "warmup"})) <= 2
    /\ Cardinality(OfKinds(s, {"capstone"})) = s.closingIndex
    /\ Cardinality(OfKinds(s, {"closing"})) = IF s.status = "completed" THEN 1 ELSE 0
    /\ s.closingIndex <= ClosingLength /\ s.followUpCount <= MaxFollowUps
    /\ \A i \in DOMAIN s.turns : Turns!IsAi(s.turns[i]) => s.turns[i].kind \in AiKinds

GapsAreKept(s) ==
    /\ \A i \in DOMAIN s.turns : s.turns[i].scored => s.turns[i].declined = "no"
    /\ s.evaluation.done => s.status \notin {"not_started", "in_progress"}
    /\ s.evaluation.recommendation = "model" =>
        /\ s.evaluation.done /\ s.status = "completed"
        /\ \A i \in Turns!Answers(s) : s.turns[i].declined # "no_response"

InterviewInv(s) ==
    s \in Interviews /\ ItemsArePut(s) /\ FreshArePending(s) /\ BudgetIsReserved(s) /\ TurnsAreCounted(s) /\ GapsAreKept(s)
Underway(s) == InterviewInv(s) /\ s.status = "in_progress"

\* Sets of turns are finite.
LEMMA TurnSetsAreFinite ==
    ASSUME NEW s \in Interviews, NEW T, T \subseteq DOMAIN s.turns
    PROVE  IsFiniteSet(T) /\ Cardinality(T) \in Nat /\ T \subseteq 1 .. Len(s.turns) /\ Len(s.turns) \in Nat
<1>1. DOMAIN s.turns = 1 .. Len(s.turns) /\ Len(s.turns) \in Nat
  BY DEF Interviews
<1>2. IsFiniteSet(1 .. Len(s.turns))
  BY <1>1, FS_Interval
<1>3. IsFiniteSet(T)
  BY <1>1, <1>2, FS_Subset
<1> QED
  BY <1>1, <1>3, FS_CardinalityType

LEMMA MustIsFinite ==
    ASSUME TurnBounds
    PROVE  IsFiniteSet(Must) /\ \A T \in SUBSET Must : IsFiniteSet(T) /\ Cardinality(T) \in Nat
<1>1. Must \subseteq Turns!Items
  BY DEF Turns!Items
<1>2. IsFiniteSet(Must)
  BY <1>1, FS_Subset DEF TurnBounds
<1> QED
  BY <1>2, FS_Subset, FS_CardinalityType

(* A step that rewrites turns keeps who said what about which item.          *)
SameWords(s, t) ==
    /\ DOMAIN t.turns = DOMAIN s.turns
    /\ \A i \in DOMAIN s.turns : /\ t.turns[i].role = s.turns[i].role
                                 /\ t.turns[i].kind = s.turns[i].kind
                                 /\ t.turns[i].item = s.turns[i].item
SameCounters(s, t) ==
    /\ t.status = s.status /\ t.questionCount = s.questionCount /\ t.maxQuestions = s.maxQuestions
    /\ t.followUpCount = s.followUpCount /\ t.closingIndex = s.closingIndex /\ t.evaluation = s.evaluation

LEMMA WordsCount ==
    ASSUME NEW s \in Interviews, NEW t \in Interviews, SameWords(s, t)
    PROVE  /\ Asking(t) = Asking(s) /\ FreshMust(t) = FreshMust(s)
           /\ \A K : OfKinds(t, K) = OfKinds(s, K)
           /\ \A m : TFresh(t, m) <=> TFresh(s, m)
           /\ Turns!Answers(t) = Turns!Answers(s)
           /\ ItemsArePut(s) => ItemsArePut(t)
<1>1. \A m : TFresh(t, m) <=> TFresh(s, m)
  BY DEF SameWords, TFresh
<1>2. FreshMust(t) = FreshMust(s)
  BY <1>1 DEF FreshMust
<1>3. Asking(t) = Asking(s)
  BY DEF SameWords, Asking, Turns!IsAi
<1>4. \A K : OfKinds(t, K) = OfKinds(s, K)
  BY DEF SameWords, OfKinds, Turns!IsAi
<1>5. Turns!Answers(t) = Turns!Answers(s)
  BY DEF SameWords, Turns!Answers, Turns!IsAnswer, Turns!IsCandidate
<1>6. ItemsArePut(s) => ItemsArePut(t)
  BY DEF SameWords, ItemsArePut, Turns!IsQuestion, Turns!IsAi
<1> QED
  BY <1>1, <1>2, <1>3, <1>4, <1>5, <1>6

\* A rewrite that leaves the words, the counters and the nudges keeps the invariant.
LEMMA RewriteKeeps ==
    ASSUME NEW s \in Interviews, NEW t \in Interviews, Underway(s), SameWords(s, t), SameCounters(s, t),
           \A i \in DOMAIN s.turns : t.turns[i].nudged = s.turns[i].nudged,
           \A i \in DOMAIN s.turns : t.turns[i].scored => t.turns[i].declined = "no",
           FreshArePending(t)
    PROVE  Underway(t)
<1>1. /\ Asking(t) = Asking(s) /\ FreshMust(t) = FreshMust(s)
      /\ \A K : OfKinds(t, K) = OfKinds(s, K)
      /\ ItemsArePut(t)
  BY WordsCount DEF Underway, InterviewInv
<1>2. NudgedTurns(t) = NudgedTurns(s)
  BY DEF NudgedTurns, SameWords
<1>3. BudgetIsReserved(t)
  BY <1>1 DEF Underway, InterviewInv, BudgetIsReserved, SameCounters
<1>4. \A i \in DOMAIN t.turns : Turns!IsAi(t.turns[i]) => t.turns[i].kind \in AiKinds
  BY DEF SameWords, Underway, InterviewInv, TurnsAreCounted, Turns!IsAi
<1>5. TurnsAreCounted(t)
  BY <1>1, <1>2, <1>4 DEF Underway, InterviewInv, TurnsAreCounted, SameCounters
<1>6. GapsAreKept(t)
  BY DEF Underway, InterviewInv, GapsAreKept, SameCounters, SameWords
<1> QED
  BY <1>1, <1>3, <1>5, <1>6 DEF Underway, InterviewInv, SameCounters

\* A turn that is added changes each count by what it is.
LEMMA AppendCounts ==
    ASSUME NEW s \in Interviews, NEW t \in Interviews, NEW x \in SpokenTurns, t.turns = Append(s.turns, x)
    PROVE  /\ DOMAIN t.turns = DOMAIN s.turns \cup {Len(s.turns) + 1} /\ Len(s.turns) + 1 \notin DOMAIN s.turns
           /\ t.turns[Len(s.turns) + 1] = x /\ \A i \in DOMAIN s.turns : t.turns[i] = s.turns[i]
           /\ Cardinality(Asking(t)) = Cardinality(Asking(s)) + IF Turns!IsAi(x) /\ x.kind \in {"question", "follow_up"} THEN 1 ELSE 0
           /\ \A K : Cardinality(OfKinds(t, K)) = Cardinality(OfKinds(s, K)) + IF Turns!IsAi(x) /\ x.kind \in K THEN 1 ELSE 0
           /\ FreshMust(t) = FreshMust(s) \ {x.item}
           /\ Asking(s) \subseteq Asking(t)
           /\ ~x.nudged => NudgedTurns(t) = NudgedTurns(s)
           /\ \A m \in Must : TFresh(t, m) <=> TFresh(s, m) /\ x.item # m
<1> DEFINE n == Len(s.turns) + 1
<1>1. s.turns \in Seq(SpokenTurns) /\ t.turns \in Seq(SpokenTurns) /\ Len(s.turns) \in Nat
  BY DEF Interviews
<1>2. /\ DOMAIN s.turns = 1 .. Len(s.turns) /\ DOMAIN t.turns = 1 .. (Len(s.turns) + 1)
      /\ t.turns[n] = x /\ \A i \in 1 .. Len(s.turns) : t.turns[i] = s.turns[i]
  BY <1>1
<1>3. DOMAIN t.turns = DOMAIN s.turns \cup {n} /\ n \notin DOMAIN s.turns
  BY <1>1, <1>2
<1>4. \A i \in DOMAIN s.turns : t.turns[i] = s.turns[i]
  BY <1>2
<1>5. t.turns[n] = x
  BY <1>2
<1> HIDE DEF n
<1>6. Asking(t) = IF Turns!IsAi(x) /\ x.kind \in {"question", "follow_up"} THEN Asking(s) \cup {n} ELSE Asking(s)
  BY <1>3, <1>4, <1>5 DEF Asking
<1>7. \A K : OfKinds(t, K) = IF Turns!IsAi(x) /\ x.kind \in K THEN OfKinds(s, K) \cup {n} ELSE OfKinds(s, K)
  BY <1>3, <1>4, <1>5 DEF OfKinds
<1>8. \A m \in Must : TFresh(t, m) <=> TFresh(s, m) /\ x.item # m
  BY <1>3, <1>4, <1>5 DEF TFresh
<1>9. FreshMust(t) = FreshMust(s) \ {x.item}
  BY <1>8 DEF FreshMust
<1>10. ~x.nudged => NudgedTurns(t) = NudgedTurns(s)
  BY <1>3, <1>4, <1>5 DEF NudgedTurns
<1>11. \A T : T \subseteq DOMAIN s.turns => Cardinality(T \cup {n}) = Cardinality(T) + 1 /\ Cardinality(T) \in Nat
  <2> SUFFICES ASSUME NEW T, T \subseteq DOMAIN s.turns PROVE Cardinality(T \cup {n}) = Cardinality(T) + 1 /\ Cardinality(T) \in Nat
    OBVIOUS
  <2>1. IsFiniteSet(T) /\ Cardinality(T) \in Nat
    BY TurnSetsAreFinite
  <2> QED
    BY <2>1, <1>3, FS_AddElement
<1>12. Asking(s) \subseteq DOMAIN s.turns /\ \A K : OfKinds(s, K) \subseteq DOMAIN s.turns
  BY DEF Asking, OfKinds
<1>13. Cardinality(Asking(t)) = Cardinality(Asking(s)) + IF Turns!IsAi(x) /\ x.kind \in {"question", "follow_up"} THEN 1 ELSE 0
  <2>1. Cardinality(Asking(s) \cup {n}) = Cardinality(Asking(s)) + 1 /\ Cardinality(Asking(s)) \in Nat
    BY <1>11, <1>12
  <2>2. CASE Turns!IsAi(x) /\ x.kind \in {"question", "follow_up"}
    BY <2>1, <2>2, <1>6
  <2>3. CASE ~(Turns!IsAi(x) /\ x.kind \in {"question", "follow_up"})
    BY <2>1, <2>3, <1>6
  <2> QED
    BY <2>2, <2>3
<1>14. \A K : Cardinality(OfKinds(t, K)) = Cardinality(OfKinds(s, K)) + IF Turns!IsAi(x) /\ x.kind \in K THEN 1 ELSE 0
  <2> TAKE K
  <2>1. Cardinality(OfKinds(s, K) \cup {n}) = Cardinality(OfKinds(s, K)) + 1 /\ Cardinality(OfKinds(s, K)) \in Nat
    BY <1>11, <1>12
  <2>2. CASE Turns!IsAi(x) /\ x.kind \in K
    BY <2>1, <2>2, <1>7
  <2>3. CASE ~(Turns!IsAi(x) /\ x.kind \in K)
    BY <2>1, <2>3, <1>7
  <2> QED
    BY <2>2, <2>3
<1>15. Asking(s) \subseteq Asking(t)
  BY <1>6
<1> QED
  BY <1>3, <1>4, <1>5, <1>8, <1>9, <1>10, <1>13, <1>14, <1>15 DEF n

LEMMA SaidIs ==
    ASSUME NEW kind \in AiKinds, NEW item \in Turns!Items \cup {NoItem}
    PROVE  /\ Turns!Said(kind, item) \in SpokenTurns /\ Turns!Said(kind, item).kind = kind /\ Turns!Said(kind, item).item = item
           /\ Turns!IsAi(Turns!Said(kind, item)) /\ ~Turns!Said(kind, item).nudged /\ ~Turns!Said(kind, item).scored
           /\ Turns!IsQuestion(Turns!Said(kind, item)) <=> kind = "question"
BY DEF Turns!Said, SpokenTurns, Turns!IsAi, Turns!IsQuestion

LEMMA SpokenIs ==
    ASSUME NEW kind \in CandidateKinds, NEW length \in {"short", "long"}, NEW act \in {"no", "decline", "no_response"}
    PROVE  /\ Turns!Spoken(kind, length, act) \in SpokenTurns /\ Turns!Spoken(kind, length, act).kind = kind
           /\ Turns!Spoken(kind, length, act).item = NoItem
           /\ ~Turns!IsAi(Turns!Spoken(kind, length, act)) /\ ~Turns!Spoken(kind, length, act).nudged
           /\ ~Turns!Spoken(kind, length, act).scored
BY DEF Turns!Spoken, SpokenTurns, CandidateKinds, Turns!IsAi

\* A turn about nothing the budget counts keeps the invariant.
LEMMA SideTurnKeeps ==
    ASSUME TurnBounds, NEW s \in Interviews, NEW t \in Interviews, NEW x \in SpokenTurns, Underway(s),
           t.turns = Append(s.turns, x), SameCounters(s, t), t.cover = s.cover,
           x.item = NoItem, ~x.nudged, ~x.scored, Turns!IsAi(x) => x.kind = "side_reply"
    PROVE  Underway(t)
<1>1. /\ DOMAIN t.turns = DOMAIN s.turns \cup {Len(s.turns) + 1}
      /\ t.turns[Len(s.turns) + 1] = x /\ \A i \in DOMAIN s.turns : t.turns[i] = s.turns[i]
      /\ Cardinality(Asking(t)) = Cardinality(Asking(s)) + IF Turns!IsAi(x) /\ x.kind \in {"question", "follow_up"} THEN 1 ELSE 0
      /\ \A K : Cardinality(OfKinds(t, K)) = Cardinality(OfKinds(s, K)) + IF Turns!IsAi(x) /\ x.kind \in K THEN 1 ELSE 0
      /\ FreshMust(t) = FreshMust(s) \ {x.item}
      /\ Asking(s) \subseteq Asking(t)
      /\ NudgedTurns(t) = NudgedTurns(s)
      /\ \A m \in Must : TFresh(t, m) <=> TFresh(s, m) /\ x.item # m
  BY AppendCounts
<1>2. NoItem \notin Must
  BY DEF TurnBounds, Turns!Items
<1>3. FreshMust(t) = FreshMust(s)
  BY <1>1, <1>2 DEF FreshMust
<1>4. ItemsArePut(t) /\ FreshArePending(t)
  BY <1>1, <1>2 DEF Underway, InterviewInv, ItemsArePut, FreshArePending
<1>5. BudgetIsReserved(t)
  BY <1>3 DEF Underway, InterviewInv, BudgetIsReserved, SameCounters
<1>6. \A K \in {{"nudge"}, {"intro", "warmup"}, {"capstone"}, {"closing"}} :
        Cardinality(OfKinds(t, K)) = Cardinality(OfKinds(s, K)) /\ Cardinality(OfKinds(s, K)) \in Nat
  <2> TAKE K \in {{"nudge"}, {"intro", "warmup"}, {"capstone"}, {"closing"}}
  <2>1. OfKinds(s, K) \subseteq DOMAIN s.turns
    BY DEF OfKinds
  <2>2. Cardinality(OfKinds(s, K)) \in Nat
    BY <2>1, TurnSetsAreFinite
  <2>3. ~(Turns!IsAi(x) /\ x.kind \in K)
    OBVIOUS
  <2> QED
    BY <1>1, <2>2, <2>3
<1>7. Cardinality(Asking(t)) = Cardinality(Asking(s))
  <2>1. Asking(s) \subseteq DOMAIN s.turns
    BY DEF Asking
  <2> QED
    BY <1>1, <2>1, TurnSetsAreFinite
<1>8. \A i \in DOMAIN t.turns : Turns!IsAi(t.turns[i]) => t.turns[i].kind \in AiKinds
  BY <1>1 DEF Underway, InterviewInv, TurnsAreCounted, AiKinds
<1>9. TurnsAreCounted(t)
  BY <1>1, <1>6, <1>7, <1>8 DEF Underway, InterviewInv, TurnsAreCounted, SameCounters
<1>10. GapsAreKept(t)
  BY <1>1 DEF Underway, InterviewInv, GapsAreKept, SameCounters
<1> QED
  BY <1>4, <1>5, <1>9, <1>10 DEF Underway, InterviewInv, SameCounters

-----------------------------------------------------------------------------
(* What each step of a request leaves.                                       *)

\* Replacing what is held under a place of a transcript.
LEMMA TurnPut ==
    ASSUME NEW u, u \in Seq(SpokenTurns), NEW i \in Nat, NEW v, i \in DOMAIN u => v \in SpokenTurns
    PROVE  /\ [u EXCEPT ![i] = v] \in Seq(SpokenTurns) /\ DOMAIN [u EXCEPT ![i] = v] = DOMAIN u
           /\ \A j \in DOMAIN u : [u EXCEPT ![i] = v][j] = IF j = i THEN v ELSE u[j]
<1>1. Len(u) \in Nat /\ DOMAIN u = 1 .. Len(u) /\ \A j \in DOMAIN u : u[j] \in SpokenTurns
  OBVIOUS
<1>2. u = [j \in 1 .. Len(u) |-> u[j]]
  OBVIOUS
<1> DEFINE w == [u EXCEPT ![i] = v]
<1>3. DOMAIN w = 1 .. Len(u) /\ \A j \in 1 .. Len(u) : w[j] = IF j = i THEN v ELSE u[j]
  BY <1>1
<1>4. \A j \in 1 .. Len(u) : w[j] \in SpokenTurns
  BY <1>1, <1>3
<1>5. w = [j \in 1 .. Len(u) |-> w[j]]
  BY <1>3
<1> HIDE DEF w
<1>6. w \in Seq(SpokenTurns)
  BY <1>1, <1>4, <1>5
<1> QED
  BY <1>1, <1>3, <1>6 DEF w

LEMMA InterviewWith ==
    ASSUME NEW s \in Interviews
    PROVE  /\ \A u \in Seq(SpokenTurns) : LET t == [s EXCEPT !.turns = u] IN
                t \in Interviews /\ t.turns = u /\ t.cover = s.cover /\ SameCounters(s, t) /\ t.minQuestions = s.minQuestions
           /\ \A c \in [Turns!Items -> {"pending", "asked", "covered"}] : LET t == [s EXCEPT !.cover = c] IN
                t \in Interviews /\ t.turns = s.turns /\ t.cover = c /\ SameCounters(s, t) /\ t.minQuestions = s.minQuestions
<1>1. ASSUME NEW u \in Seq(SpokenTurns)
      PROVE  LET t == [s EXCEPT !.turns = u] IN
                t \in Interviews /\ t.turns = u /\ t.cover = s.cover /\ SameCounters(s, t) /\ t.minQuestions = s.minQuestions
  BY DEF Interviews, SameCounters
<1>2. ASSUME NEW c \in [Turns!Items -> {"pending", "asked", "covered"}]
      PROVE  LET t == [s EXCEPT !.cover = c] IN
                t \in Interviews /\ t.turns = s.turns /\ t.cover = c /\ SameCounters(s, t) /\ t.minQuestions = s.minQuestions
  BY DEF Interviews, SameCounters
<1> QED
  BY <1>1, <1>2

LEMMA CoverAnchorsKeeps ==
    ASSUME NEW s \in Interviews, Underway(s)
    PROVE  Underway(Turns!CoverAnchors(s)) /\ Turns!CoverAnchors(s).turns = s.turns
<1> DEFINE c == [x \in Turns!Items |-> IF x \in Anchors /\ s.cover[x] = "asked" THEN "covered" ELSE s.cover[x]]
           t == Turns!CoverAnchors(s)
<1>1. c \in [Turns!Items -> {"pending", "asked", "covered"}] /\ \A m \in Must : s.cover[m] = "pending" => c[m] = "pending"
  BY DEF Interviews, Turns!Items
<1>2. t = [s EXCEPT !.cover = c]
  BY DEF Turns!CoverAnchors, Interviews
<1> HIDE DEF c, t
<1>3. t \in Interviews /\ t.turns = s.turns /\ t.cover = c /\ SameCounters(s, t)
  BY <1>1, <1>2, InterviewWith
<1>4. SameWords(s, t) /\ FreshArePending(t)
  BY <1>1, <1>3 DEF SameWords, FreshArePending, TFresh, Underway, InterviewInv
<1>5. Underway(t)
  BY <1>3, <1>4, RewriteKeeps DEF Underway, InterviewInv, GapsAreKept
<1> QED
  BY <1>3, <1>5 DEF t

LEMMA RetireKeeps ==
    ASSUME TurnBounds, NEW s \in Interviews, Underway(s)
    PROVE  Underway(Turns!Retire(s)) /\ Turns!Pending(Turns!Retire(s), Must) = FreshMust(Turns!Retire(s))
<1> DEFINE c == [x \in Turns!Items |-> IF x \in Turns!Pending(s, Must) /\ Turns!MustAskAlreadyCovered(s, x) THEN "asked" ELSE s.cover[x]]
           t == Turns!Retire(s)
<1>1. c \in [Turns!Items -> {"pending", "asked", "covered"}]
  BY DEF Interviews
<1>2. t = [s EXCEPT !.cover = c]
  BY DEF Turns!Retire, Interviews
<1>3. \A m \in Must : TFresh(s, m) => s.cover[m] = "pending" /\ ~Turns!MustAskAlreadyCovered(s, m)
  BY DEF TFresh, Turns!MustAskAlreadyCovered, Underway, InterviewInv, FreshArePending
<1>4. \A m \in Must : TFresh(s, m) => c[m] = "pending"
  BY <1>3 DEF Turns!Items
<1>5. \A m \in Must : c[m] = "pending" => TFresh(s, m)
  <2> SUFFICES ASSUME NEW m \in Must, c[m] = "pending", ~TFresh(s, m) PROVE FALSE
    OBVIOUS
  <2>1. m \in Turns!Items
    BY DEF Turns!Items
  <2>2. s.cover[m] = "pending" /\ ~Turns!MustAskAlreadyCovered(s, m)
    BY <2>1 DEF Turns!Pending
  <2>3. PICK i \in DOMAIN s.turns : s.turns[i].item = m
    BY DEF TFresh
  <2>5. ~Turns!IsQuestion(s.turns[i])
    BY <2>2, <2>3 DEF Turns!MustAskAlreadyCovered
  <2> QED
    BY <2>1, <2>3, <2>5 DEF Underway, InterviewInv, ItemsArePut, TurnBounds
<1> HIDE DEF c, t
<1>6. t \in Interviews /\ t.turns = s.turns /\ t.cover = c /\ SameCounters(s, t)
  BY <1>1, <1>2, InterviewWith
<1>7. SameWords(s, t) /\ FreshArePending(t)
  BY <1>4, <1>6 DEF SameWords, FreshArePending, TFresh
<1>8. Underway(t)
  BY <1>6, <1>7, RewriteKeeps DEF Underway, InterviewInv, GapsAreKept
<1>9. \A m \in Must : t.cover[m] = "pending" <=> TFresh(t, m)
  BY <1>4, <1>5, <1>6 DEF TFresh
<1>10. Turns!Pending(t, Must) = FreshMust(t)
  BY <1>9 DEF Turns!Pending, FreshMust
<1> QED
  BY <1>8, <1>10 DEF t

LEMMA RequeueKeeps ==
    ASSUME TurnBounds, NEW s \in Interviews, Underway(s), NEW heard \in BOOLEAN
    PROVE  Underway(Turns!Requeue(s, heard))
<1> DEFINE q == Turns!SelectLastInSeq(s.turns, Turns!IsQuestion)
<1>0. s.turns \in Seq(SpokenTurns)
  BY DEF Interviews
<1>1. q \in Nat /\ (q # 0 => q \in 1 .. Len(s.turns) /\ Turns!IsQuestion(s.turns[q]))
  BY <1>0, LastQuestion
<1>2. CASE heard \/ q = 0
  BY <1>2 DEF Turns!Requeue, Turns!LastTurn
<1>3. CASE ~heard /\ q # 0
  <2> DEFINE v == [s.turns[q] EXCEPT !.heard = FALSE]
             u == [s.turns EXCEPT ![q] = v]
             c == [x \in Turns!Items |-> IF x = s.turns[q].item /\ s.cover[x] = "asked" THEN "pending" ELSE s.cover[x]]
             r == [s EXCEPT !.turns = u]
             t == [r EXCEPT !.cover = c]
  <2>1. q \in DOMAIN s.turns /\ s.turns[q] \in SpokenTurns
    BY <1>0, <1>1, <1>3
  <2>2. v \in SpokenTurns /\ v.role = s.turns[q].role /\ v.kind = s.turns[q].kind /\ v.item = s.turns[q].item
        /\ v.nudged = s.turns[q].nudged /\ v.scored = s.turns[q].scored /\ v.declined = s.turns[q].declined
    BY <2>1 DEF SpokenTurns
  <2>3. c \in [Turns!Items -> {"pending", "asked", "covered"}] /\ \A m \in Must : s.cover[m] = "pending" => c[m] = "pending"
    BY DEF Interviews, Turns!Items
  <2>4. t = Turns!Requeue(s, heard)
    BY <1>3 DEF Turns!Requeue, Turns!LastTurn, Interviews
  <2> HIDE DEF v, c
  <2>5. u \in Seq(SpokenTurns) /\ DOMAIN u = DOMAIN s.turns /\ \A j \in DOMAIN s.turns : u[j] = IF j = q THEN v ELSE s.turns[j]
    BY <1>0, <1>1, <2>2, TurnPut
  <2> HIDE DEF u
  <2>6. r \in Interviews /\ r.turns = u /\ r.cover = s.cover /\ SameCounters(s, r)
    BY <2>5, InterviewWith
  <2> HIDE DEF r
  <2>7. t \in Interviews /\ t.turns = u /\ t.cover = c /\ SameCounters(r, t)
    BY <2>3, <2>6, InterviewWith
  <2> HIDE DEF t
  <2>8. SameCounters(s, t)
    BY <2>6, <2>7 DEF SameCounters
  <2>9. SameWords(s, t)
    BY <2>2, <2>5, <2>7 DEF SameWords
  <2>10. FreshArePending(t)
    <3>1. \A m : TFresh(t, m) <=> TFresh(s, m)
      BY <2>9 DEF SameWords, TFresh
    <3> QED
      BY <3>1, <2>3, <2>7 DEF FreshArePending, Underway, InterviewInv
  <2>11. \A i \in DOMAIN s.turns : t.turns[i].nudged = s.turns[i].nudged /\ (t.turns[i].scored => t.turns[i].declined = "no")
    BY <2>2, <2>5, <2>7 DEF Underway, InterviewInv, GapsAreKept
  <2>12. Underway(t)
    BY <2>7, <2>8, <2>9, <2>10, <2>11, RewriteKeeps
  <2> QED
    BY <2>4, <2>12
<1> QED
  BY <1>2, <1>3

\* Any other change of one turn that leaves what the counts read.
LEMMA TurnChangeKeeps ==
    ASSUME NEW s \in Interviews, Underway(s), NEW i \in Nat, NEW v, i \in DOMAIN s.turns =>
               /\ v \in SpokenTurns /\ v.role = s.turns[i].role /\ v.kind = s.turns[i].kind /\ v.item = s.turns[i].item
               /\ v.nudged = s.turns[i].nudged /\ (v.scored => v.declined = "no")
    PROVE  Underway([s EXCEPT !.turns = [s.turns EXCEPT ![i] = v]])
<1> DEFINE u == [s.turns EXCEPT ![i] = v]
           t == [s EXCEPT !.turns = u]
<1>0. s.turns \in Seq(SpokenTurns)
  BY DEF Interviews
<1>1. u \in Seq(SpokenTurns) /\ DOMAIN u = DOMAIN s.turns /\ \A j \in DOMAIN s.turns : u[j] = IF j = i THEN v ELSE s.turns[j]
  BY <1>0, TurnPut
<1> HIDE DEF u
<1>2. t \in Interviews /\ t.turns = u /\ t.cover = s.cover /\ SameCounters(s, t)
  BY <1>1, InterviewWith
<1> HIDE DEF t
<1>3. SameWords(s, t)
  BY <1>1, <1>2 DEF SameWords
<1>4. FreshArePending(t)
  <2>1. \A m : TFresh(t, m) <=> TFresh(s, m)
    BY <1>3 DEF SameWords, TFresh
  <2> QED
    BY <2>1, <1>2 DEF FreshArePending, Underway, InterviewInv
<1>5. \A j \in DOMAIN s.turns : t.turns[j].nudged = s.turns[j].nudged /\ (t.turns[j].scored => t.turns[j].declined = "no")
  BY <1>1, <1>2 DEF Underway, InterviewInv, GapsAreKept
<1>6. Underway(t)
  BY <1>2, <1>3, <1>4, <1>5, RewriteKeeps
<1> QED
  BY <1>6 DEF t, u

LEMMA MergeKeeps ==
    ASSUME NEW s \in Interviews, Underway(s), NEW length
    PROVE  Underway(Turns!Merge(s, length))
<1> DEFINE i == Turns!SelectLastInSeq(s.turns, Turns!IsAnswer)
           v == [s.turns[i] EXCEPT !.length = "long"]
<1>0. s.turns \in Seq(SpokenTurns)
  BY DEF Interviews
<1>1. i \in Nat
  BY <1>0, LastAnswer
<1>2. CASE length # "long"
  BY <1>2 DEF Turns!Merge
<1>3. CASE length = "long"
  <2>1. Turns!Merge(s, length) = [s EXCEPT !.turns = [s.turns EXCEPT ![i] = v]]
    BY <1>3 DEF Turns!Merge, Turns!LastTurn, Interviews
  <2>2. ASSUME i \in DOMAIN s.turns
        PROVE  /\ v \in SpokenTurns /\ v.role = s.turns[i].role /\ v.kind = s.turns[i].kind /\ v.item = s.turns[i].item
               /\ v.nudged = s.turns[i].nudged /\ (v.scored => v.declined = "no")
    <3> HIDE DEF i
    <3>1. s.turns[i] \in SpokenTurns
      BY <1>0, <2>2
    <3>2. s.turns[i].scored => s.turns[i].declined = "no"
      BY <2>2 DEF Underway, InterviewInv, GapsAreKept
    <3> QED
      BY <3>1, <3>2 DEF SpokenTurns
  <2> HIDE DEF i, v
  <2> QED
    BY <1>1, <2>1, <2>2, TurnChangeKeeps
<1> QED
  BY <1>2, <1>3

LEMMA ScoreLastKeeps ==
    ASSUME NEW s \in Interviews, Underway(s), NEW scored \in BOOLEAN
    PROVE  /\ Underway(Turns!ScoreLast(s, scored)) /\ Turns!ScoreLast(s, scored).cover = s.cover
           /\ SameCounters(s, Turns!ScoreLast(s, scored)) /\ FreshMust(Turns!ScoreLast(s, scored)) = FreshMust(s)
<1> DEFINE i == Turns!SelectLastInSeq(s.turns, Turns!IsCandidate)
           v == [s.turns[i] EXCEPT !.scored = TRUE]
           t == Turns!ScoreLast(s, scored)
<1>0. s.turns \in Seq(SpokenTurns)
  BY DEF Interviews
<1>1. i \in Nat
  BY <1>0, LastCandidate
<1>2. CASE ~(scored /\ Turns!MayScore(s.turns[i]))
  BY <1>2 DEF Turns!ScoreLast, Turns!LastTurn, SameCounters
<1>3. CASE scored /\ Turns!MayScore(s.turns[i])
  <2>1. t = [s EXCEPT !.turns = [s.turns EXCEPT ![i] = v]]
    BY <1>3 DEF Turns!ScoreLast, Turns!LastTurn, Interviews
  <2>2. ASSUME i \in DOMAIN s.turns
        PROVE  /\ v \in SpokenTurns /\ v.role = s.turns[i].role /\ v.kind = s.turns[i].kind /\ v.item = s.turns[i].item
               /\ v.nudged = s.turns[i].nudged /\ (v.scored => v.declined = "no")
    <3>1. s.turns[i].declined = "no"
      BY <1>3 DEF Turns!MayScore
    <3> HIDE DEF i
    <3>2. s.turns[i] \in SpokenTurns
      BY <1>0, <2>2
    <3> QED
      BY <3>1, <3>2 DEF SpokenTurns
  <2> HIDE DEF i, v
  <2>3. Underway(t)
    BY <1>1, <2>1, <2>2, TurnChangeKeeps
  <2> DEFINE u == [s.turns EXCEPT ![i] = v]
  <2>4. u \in Seq(SpokenTurns) /\ DOMAIN u = DOMAIN s.turns /\ \A j \in DOMAIN s.turns : u[j] = IF j = i THEN v ELSE s.turns[j]
    BY <1>0, <1>1, <2>2, TurnPut
  <2> HIDE DEF u
  <2>5. t = [s EXCEPT !.turns = u]
    BY <2>1 DEF u
  <2> HIDE DEF t
  <2>6. t \in Interviews /\ t.turns = u /\ t.cover = s.cover /\ SameCounters(s, t)
    BY <2>4, <2>5, InterviewWith
  <2>7. SameWords(s, t)
    BY <2>2, <2>4, <2>6 DEF SameWords
  <2>8. FreshMust(t) = FreshMust(s)
    BY <2>6, <2>7, WordsCount
  <2> QED
    BY <2>3, <2>6, <2>8 DEF t
<1> QED
  BY <1>2, <1>3

LEMMA PushIs ==
    ASSUME NEW s \in Interviews, NEW x \in SpokenTurns
    PROVE  /\ Turns!Push(s, x) \in Interviews /\ Turns!Push(s, x).turns = Append(s.turns, x)
           /\ Turns!Push(s, x).cover = s.cover /\ SameCounters(s, Turns!Push(s, x))
<1>0. s.turns \in Seq(SpokenTurns)
  BY DEF Interviews
<1>1. Append(s.turns, x) \in Seq(SpokenTurns)
  BY <1>0
<1>5. PICK u \in Seq(SpokenTurns) : u = Append(s.turns, x)
  BY <1>1
<1>2. Turns!Push(s, x) = [s EXCEPT !.turns = u]
  BY <1>5 DEF Interviews, Turns!Push
<1>3. PICK t : t = [s EXCEPT !.turns = u]
  OBVIOUS
<1>4. t \in Interviews /\ t.turns = u /\ t.cover = s.cover /\ SameCounters(s, t)
  BY <1>3, InterviewWith
<1> QED
  BY <1>5, <1>2, <1>3, <1>4

LEMMA CandidateTurnKeeps ==
    ASSUME TurnBounds, NEW s \in Interviews, Underway(s), NEW kind \in CandidateKinds,
           NEW length \in {"short", "long"}, NEW act \in {"no", "decline", "no_response"}
    PROVE  Underway(Turns!Push(s, Turns!Spoken(kind, length, act)))
<1> DEFINE x == Turns!Spoken(kind, length, act)
           t == Turns!Push(s, x)
<1>1. x \in SpokenTurns /\ x.item = NoItem /\ ~Turns!IsAi(x) /\ ~x.nudged /\ ~x.scored
  BY SpokenIs
<1> HIDE DEF x
<1>2. t \in Interviews /\ t.turns = Append(s.turns, x) /\ t.cover = s.cover /\ SameCounters(s, t)
  BY <1>1, PushIs
<1> HIDE DEF t
<1>3. Underway(t)
  BY <1>1, <1>2, SideTurnKeeps
<1> QED
  BY <1>3 DEF t, x

LEMMA AnsweredKeeps ==
    ASSUME TurnBounds, NEW s \in Interviews, Underway(s), NEW length \in {"short", "long"}, NEW heard \in BOOLEAN
    PROVE  Underway(Turns!Answered(s, length, heard))
<1>1. CASE Turns!PrecedingKind(s) = "nudge" /\ Turns!Answers(s) # {}
  BY <1>1, MergeKeeps DEF Turns!Answered
<1>2. CASE ~(Turns!PrecedingKind(s) = "nudge" /\ Turns!Answers(s) # {})
  <2> DEFINE r == Turns!Requeue(s, heard)
             kind == Turns!AnswerKind(s)
             t == Turns!Push(r, Turns!Spoken(kind, length, "no"))
  <2>1. Underway(r) /\ r \in Interviews
    BY RequeueKeeps DEF Underway, InterviewInv
  <2>2. kind \in CandidateKinds
    BY DEF Turns!AnswerKind, CandidateKinds
  <2> HIDE DEF r, kind
  <2>3. Underway(t) /\ t \in Interviews
    BY <2>1, <2>2, CandidateTurnKeeps DEF Underway, InterviewInv
  <2> HIDE DEF t
  <2>4. Underway(Turns!CoverAnchors(t))
    BY <2>3, CoverAnchorsKeeps
  <2> QED
    BY <1>2, <2>4 DEF Turns!Answered, t, r, kind
<1> QED
  BY <1>1, <1>2

LEMMA NotAnsweredKeeps ==
    ASSUME TurnBounds, NEW s \in Interviews, Underway(s), NEW act \in {"decline", "no_response"}
    PROVE  Underway(Turns!NotAnswered(s, act))
<1>1. PICK a \in {"no", "decline", "no_response"} : a = IF act = "no_response" THEN act ELSE "no"
  OBVIOUS
<1>2. Underway(Turns!Push(s, Turns!Spoken("warmup_answer", "short", a))) /\ Underway(Turns!Push(s, Turns!Spoken("answer", "short", act)))
  BY CandidateTurnKeeps DEF CandidateKinds
<1> QED
  BY <1>1, <1>2 DEF Turns!NotAnswered

\* What a question, a follow-up, a nudge and the closing sequence add.
LEMMA AskKeeps ==
    ASSUME TurnBounds, NEW s \in Interviews, Underway(s), NEW item \in Turns!Items \cup {NoItem},
           \/ item \in FreshMust(s)
           \/ s.questionCount + Cardinality(FreshMust(s)) < s.maxQuestions
    PROVE  Underway(Turns!Ask(s, item))
<1> DEFINE x == Turns!Said("question", item)
           p == Turns!Push(s, x)
           c == IF item = NoItem THEN s.cover ELSE [s.cover EXCEPT ![item] = "asked"]
           t == Turns!Ask(s, item)
<1>1. x \in SpokenTurns /\ x.kind = "question" /\ x.item = item /\ Turns!IsAi(x) /\ ~x.nudged /\ ~x.scored /\ Turns!IsQuestion(x)
  BY SaidIs DEF AiKinds
<1> HIDE DEF x
<1>2. p \in Interviews /\ p.turns = Append(s.turns, x) /\ p.cover = s.cover /\ SameCounters(s, p)
  BY <1>1, PushIs
<1>3. t = [Turns!Mark(p, item, "asked") EXCEPT !.questionCount = @ + 1]
  BY DEF Turns!Ask, x
<1> HIDE DEF p
<1>4. c \in [Turns!Items -> {"pending", "asked", "covered"}] /\ \A m \in Must : m # item => c[m] = s.cover[m]
  BY DEF Interviews, Turns!Items, TurnBounds
<1>5. Turns!Mark(p, item, "asked") = [p EXCEPT !.cover = c]
  BY <1>2 DEF Turns!Mark, Interviews
<1> HIDE DEF c, t
<1> DEFINE r == [p EXCEPT !.cover = c]
<1>6. r \in Interviews /\ r.turns = p.turns /\ r.cover = c /\ SameCounters(p, r)
  BY <1>2, <1>4, InterviewWith
<1>7. t = [r EXCEPT !.questionCount = @ + 1]
  BY <1>3, <1>5
<1> HIDE DEF r
<1>8. t \in Interviews /\ t.turns = Append(s.turns, x) /\ t.cover = c /\ t.status = s.status /\ t.maxQuestions = s.maxQuestions
      /\ t.followUpCount = s.followUpCount /\ t.closingIndex = s.closingIndex /\ t.evaluation = s.evaluation
      /\ t.questionCount = s.questionCount + 1 /\ s.questionCount \in Nat /\ s.maxQuestions \in Nat
  <2>1. r.questionCount = s.questionCount /\ s.questionCount \in Nat /\ s.maxQuestions \in Nat /\ r.questionCount + 1 \in Nat
    BY <1>2, <1>6 DEF Interviews, SameCounters
  <2>2. PICK n \in Nat : n = r.questionCount + 1
    BY <2>1
  <2>3. t = [r EXCEPT !.questionCount = n]
    BY <1>7, <2>2
  <2>4. t \in Interviews /\ t.turns = r.turns /\ t.cover = r.cover /\ t.status = r.status /\ t.maxQuestions = r.maxQuestions
        /\ t.followUpCount = r.followUpCount /\ t.closingIndex = r.closingIndex /\ t.evaluation = r.evaluation /\ t.questionCount = n
    BY <2>3, <1>6 DEF Interviews
  <2> QED
    BY <1>2, <1>6, <2>1, <2>2, <2>4 DEF SameCounters
<1>9. /\ DOMAIN t.turns = DOMAIN s.turns \cup {Len(s.turns) + 1}
      /\ t.turns[Len(s.turns) + 1] = x /\ \A i \in DOMAIN s.turns : t.turns[i] = s.turns[i]
      /\ Cardinality(Asking(t)) = Cardinality(Asking(s)) + IF Turns!IsAi(x) /\ x.kind \in {"question", "follow_up"} THEN 1 ELSE 0
      /\ \A K : Cardinality(OfKinds(t, K)) = Cardinality(OfKinds(s, K)) + IF Turns!IsAi(x) /\ x.kind \in K THEN 1 ELSE 0
      /\ FreshMust(t) = FreshMust(s) \ {x.item}
      /\ Asking(s) \subseteq Asking(t)
      /\ NudgedTurns(t) = NudgedTurns(s)
      /\ \A m \in Must : TFresh(t, m) <=> TFresh(s, m) /\ x.item # m
  BY <1>1, <1>8, AppendCounts
<1>10. ItemsArePut(t) /\ FreshArePending(t)
  BY <1>1, <1>4, <1>8, <1>9 DEF Underway, InterviewInv, ItemsArePut, FreshArePending
<1>11. IsFiniteSet(FreshMust(s)) /\ Cardinality(FreshMust(s)) \in Nat /\ Cardinality(FreshMust(t)) \in Nat
  BY MustIsFinite DEF FreshMust
<1>12. t.questionCount + Cardinality(FreshMust(t)) <= t.maxQuestions
  <2>1. s.questionCount + Cardinality(FreshMust(s)) <= s.maxQuestions
    BY DEF Underway, InterviewInv, BudgetIsReserved
  <2>2. CASE item \in FreshMust(s)
    <3>1. Cardinality(FreshMust(s) \ {item}) = Cardinality(FreshMust(s)) - 1
      BY <2>2, <1>11, FS_RemoveElement
    <3> QED
      BY <2>1, <3>1, <1>1, <1>8, <1>9, <1>11
  <2>3. CASE s.questionCount + Cardinality(FreshMust(s)) < s.maxQuestions
    <3>1. Cardinality(FreshMust(t)) <= Cardinality(FreshMust(s))
      BY <1>9, <1>11, FS_Subset
    <3> QED
      BY <2>3, <3>1, <1>8, <1>11
  <2> QED
    BY <2>2, <2>3
<1>13. BudgetIsReserved(t)
  BY <1>8, <1>12 DEF Underway, BudgetIsReserved
<1>14. \A K \in {{"nudge"}, {"intro", "warmup"}, {"capstone"}, {"closing"}} :
        Cardinality(OfKinds(t, K)) = Cardinality(OfKinds(s, K)) /\ Cardinality(OfKinds(s, K)) \in Nat
  <2> TAKE K \in {{"nudge"}, {"intro", "warmup"}, {"capstone"}, {"closing"}}
  <2>1. OfKinds(s, K) \subseteq DOMAIN s.turns
    BY DEF OfKinds
  <2>2. Cardinality(OfKinds(s, K)) \in Nat
    BY <2>1, TurnSetsAreFinite
  <2>3. ~(Turns!IsAi(x) /\ x.kind \in K)
    BY <1>1
  <2> QED
    BY <1>9, <2>2, <2>3
<1>15. Cardinality(Asking(t)) = Cardinality(Asking(s)) + 1 /\ Cardinality(Asking(s)) \in Nat
  <2>1. Asking(s) \subseteq DOMAIN s.turns
    BY DEF Asking
  <2>2. Cardinality(Asking(s)) \in Nat
    BY <2>1, TurnSetsAreFinite
  <2> QED
    BY <1>1, <1>9, <2>2
<1>16. \A i \in DOMAIN t.turns : Turns!IsAi(t.turns[i]) => t.turns[i].kind \in AiKinds
  BY <1>1, <1>9 DEF Underway, InterviewInv, TurnsAreCounted, AiKinds
<1>17. Cardinality(Asking(t)) = t.questionCount + t.followUpCount
  <2>1. Cardinality(Asking(s)) = s.questionCount + s.followUpCount /\ s.followUpCount \in Nat
    BY DEF Underway, InterviewInv, TurnsAreCounted, Interviews
  <2> QED
    BY <1>8, <1>15, <2>1
<1>18. TurnsAreCounted(t)
  BY <1>8, <1>9, <1>14, <1>16, <1>17 DEF Underway, InterviewInv, TurnsAreCounted
<1>19. GapsAreKept(t)
  BY <1>1, <1>8, <1>9 DEF Underway, InterviewInv, GapsAreKept
<1>20. Underway(t)
  BY <1>8, <1>10, <1>13, <1>18, <1>19 DEF Underway, InterviewInv
<1> QED
  BY <1>20 DEF t

LEMMA FollowUpKeeps ==
    ASSUME TurnBounds, NEW s \in Interviews, Underway(s), s.followUpCount < MaxFollowUps
    PROVE  Underway(Turns!FollowUp(s))
<1> DEFINE x == Turns!Said("follow_up", NoItem)
           p == Turns!Push(s, x)
           t == Turns!FollowUp(s)
<1>1. x \in SpokenTurns /\ x.kind = "follow_up" /\ x.item = NoItem /\ Turns!IsAi(x) /\ ~x.nudged /\ ~x.scored
  BY SaidIs DEF AiKinds
<1> HIDE DEF x
<1>2. p \in Interviews /\ p.turns = Append(s.turns, x) /\ p.cover = s.cover /\ SameCounters(s, p)
  BY <1>1, PushIs
<1>3. t = [p EXCEPT !.followUpCount = @ + 1]
  BY DEF Turns!FollowUp, x
<1> HIDE DEF p, t
<1>4. t \in Interviews /\ t.turns = Append(s.turns, x) /\ t.cover = s.cover /\ t.status = s.status /\ t.maxQuestions = s.maxQuestions
      /\ t.questionCount = s.questionCount /\ t.closingIndex = s.closingIndex /\ t.evaluation = s.evaluation
      /\ t.followUpCount = s.followUpCount + 1 /\ s.followUpCount \in Nat /\ s.questionCount \in Nat
  <2>1. /\ p.followUpCount = s.followUpCount /\ p.status = s.status /\ p.maxQuestions = s.maxQuestions
        /\ p.questionCount = s.questionCount /\ p.closingIndex = s.closingIndex /\ p.evaluation = s.evaluation
    BY <1>2 DEF SameCounters
  <2>2. s.followUpCount \in Nat /\ s.questionCount \in Nat
    BY DEF Interviews
  <2>3. PICK k \in Nat : k = s.followUpCount + 1
    BY <2>2
  <2>4. t = [p EXCEPT !.followUpCount = k]
    BY <1>3, <2>1, <2>3
  <2>5. t \in Interviews /\ t.followUpCount = k
    BY <1>2, <2>4 DEF Interviews
  <2>6. /\ t.turns = p.turns /\ t.cover = p.cover /\ t.status = p.status /\ t.maxQuestions = p.maxQuestions
        /\ t.questionCount = p.questionCount /\ t.closingIndex = p.closingIndex /\ t.evaluation = p.evaluation
    BY <1>2, <2>4 DEF Interviews
  <2> QED
    BY <1>2, <2>1, <2>2, <2>3, <2>5, <2>6
<1>5. /\ DOMAIN t.turns = DOMAIN s.turns \cup {Len(s.turns) + 1}
      /\ t.turns[Len(s.turns) + 1] = x /\ \A i \in DOMAIN s.turns : t.turns[i] = s.turns[i]
      /\ Cardinality(Asking(t)) = Cardinality(Asking(s)) + IF Turns!IsAi(x) /\ x.kind \in {"question", "follow_up"} THEN 1 ELSE 0
      /\ \A K : Cardinality(OfKinds(t, K)) = Cardinality(OfKinds(s, K)) + IF Turns!IsAi(x) /\ x.kind \in K THEN 1 ELSE 0
      /\ FreshMust(t) = FreshMust(s) \ {x.item}
      /\ Asking(s) \subseteq Asking(t)
      /\ NudgedTurns(t) = NudgedTurns(s)
      /\ \A m \in Must : TFresh(t, m) <=> TFresh(s, m) /\ x.item # m
  BY <1>1, <1>4, AppendCounts
<1>6. NoItem \notin Must
  BY DEF TurnBounds, Turns!Items
<1>7. FreshMust(t) = FreshMust(s)
  BY <1>1, <1>5, <1>6 DEF FreshMust
<1>8. ItemsArePut(t) /\ FreshArePending(t)
  BY <1>1, <1>4, <1>5 DEF Underway, InterviewInv, ItemsArePut, FreshArePending
<1>9. BudgetIsReserved(t)
  BY <1>4, <1>7 DEF Underway, InterviewInv, BudgetIsReserved
<1>10. \A K \in {{"nudge"}, {"intro", "warmup"}, {"capstone"}, {"closing"}} :
        Cardinality(OfKinds(t, K)) = Cardinality(OfKinds(s, K)) /\ Cardinality(OfKinds(s, K)) \in Nat
  <2> TAKE K \in {{"nudge"}, {"intro", "warmup"}, {"capstone"}, {"closing"}}
  <2>1. OfKinds(s, K) \subseteq DOMAIN s.turns
    BY DEF OfKinds
  <2>2. Cardinality(OfKinds(s, K)) \in Nat
    BY <2>1, TurnSetsAreFinite
  <2>3. ~(Turns!IsAi(x) /\ x.kind \in K)
    BY <1>1
  <2> QED
    BY <1>5, <2>2, <2>3
<1>11. Cardinality(Asking(t)) = t.questionCount + t.followUpCount
  <2>1. Asking(s) \subseteq DOMAIN s.turns
    BY DEF Asking
  <2>2. Cardinality(Asking(s)) \in Nat
    BY <2>1, TurnSetsAreFinite
  <2>3. Cardinality(Asking(s)) = s.questionCount + s.followUpCount
    BY DEF Underway, InterviewInv, TurnsAreCounted
  <2>4. Cardinality(Asking(t)) = Cardinality(Asking(s)) + 1
    BY <1>1, <1>5, <2>2
  <2> QED
    BY <1>4, <2>3, <2>4
<1>12. \A i \in DOMAIN t.turns : Turns!IsAi(t.turns[i]) => t.turns[i].kind \in AiKinds
  BY <1>1, <1>5 DEF Underway, InterviewInv, TurnsAreCounted, AiKinds
<1>13. t.followUpCount <= MaxFollowUps
  BY <1>4 DEF TurnBounds
<1>14. TurnsAreCounted(t)
  BY <1>4, <1>5, <1>10, <1>11, <1>12, <1>13 DEF Underway, InterviewInv, TurnsAreCounted
<1>15. GapsAreKept(t)
  BY <1>1, <1>4, <1>5 DEF Underway, InterviewInv, GapsAreKept
<1>16. Underway(t)
  BY <1>4, <1>8, <1>9, <1>14, <1>15 DEF Underway, InterviewInv
<1> QED
  BY <1>16 DEF t

\* The nudge goes to a question nothing has nudged yet.
LEMMA NudgeTargetIs ==
    ASSUME NEW s \in Interviews, TurnsAreCounted(s), Turns!NudgeTarget(s) # 0
    PROVE  Turns!NudgeTarget(s) \in Asking(s) \ NudgedTurns(s)
<1> DEFINE i == Turns!SelectLastInSeq(s.turns, Turns!IsCandidate)
           u == SubSeq(s.turns, 1, i - 1)
           q == Turns!SelectLastInSeq(u, Turns!IsAi)
<1>0. s.turns \in Seq(SpokenTurns) /\ Len(s.turns) \in Nat /\ DOMAIN s.turns = 1 .. Len(s.turns)
  BY DEF Interviews
<1>1. i \in Nat /\ (i # 0 => i \in 1 .. Len(s.turns))
  BY <1>0, LastCandidate
<1>2. Turns!NudgeTarget(s) = q /\ i > 1 /\ q > 0 /\ s.turns[q].kind \in {"question", "follow_up"} /\ ~s.turns[q].nudged
  BY DEF Turns!NudgeTarget, Turns!LastTurn
<1> HIDE DEF i
<1>3. u \in Seq(SpokenTurns) /\ Len(u) = i - 1 /\ \A j \in 1 .. i - 1 : u[j] = s.turns[j]
  BY <1>0, <1>1, <1>2
<1> HIDE DEF u
<1>4. q \in 1 .. Len(u) /\ Turns!IsAi(u[q])
  BY <1>2, <1>3, LastAi
<1> HIDE DEF q
<1>5. q \in DOMAIN s.turns /\ Turns!IsAi(s.turns[q])
  BY <1>0, <1>1, <1>2, <1>3, <1>4
<1> QED
  BY <1>2, <1>5 DEF Asking, NudgedTurns

LEMMA NudgeKeeps ==
    ASSUME TurnBounds, NEW s \in Interviews, Underway(s), Turns!NudgeTarget(s) # 0
    PROVE  Underway(Turns!Nudge(s))
<1> DEFINE q == Turns!NudgeTarget(s)
           v == [s.turns[q] EXCEPT !.nudged = TRUE]
           u == [s.turns EXCEPT ![q] = v]
           r == [s EXCEPT !.turns = u]
           x == Turns!Said("nudge", NoItem)
           t == Turns!Nudge(s)
<1>0. s.turns \in Seq(SpokenTurns) /\ Len(s.turns) \in Nat /\ DOMAIN s.turns = 1 .. Len(s.turns)
  BY DEF Interviews
<1>1. q \in Asking(s) \ NudgedTurns(s)
  BY NudgeTargetIs DEF Underway, InterviewInv
<1>2. q \in DOMAIN s.turns /\ q \in Nat /\ s.turns[q] \in SpokenTurns
  BY <1>0, <1>1 DEF Asking
<1>3. r = [s EXCEPT !.turns[q].nudged = TRUE]
  BY DEF Interviews
<1>4. t = Turns!Push(r, x)
  BY <1>3 DEF Turns!Nudge
<1>5. v \in SpokenTurns /\ v.role = s.turns[q].role /\ v.kind = s.turns[q].kind /\ v.item = s.turns[q].item
      /\ v.nudged /\ v.scored = s.turns[q].scored /\ v.declined = s.turns[q].declined
  BY <1>2 DEF SpokenTurns
<1> HIDE DEF q, v
<1>6. u \in Seq(SpokenTurns) /\ DOMAIN u = DOMAIN s.turns /\ \A j \in DOMAIN s.turns : u[j] = IF j = q THEN v ELSE s.turns[j]
  BY <1>0, <1>2, <1>5, TurnPut
<1> HIDE DEF u
<1>7. r \in Interviews /\ r.turns = u /\ r.cover = s.cover /\ SameCounters(s, r)
  BY <1>6, InterviewWith
<1>8. SameWords(s, r)
  BY <1>5, <1>6, <1>7 DEF SameWords
<1>9. /\ Asking(r) = Asking(s) /\ FreshMust(r) = FreshMust(s)
      /\ \A K : OfKinds(r, K) = OfKinds(s, K)
      /\ \A m : TFresh(r, m) <=> TFresh(s, m)
      /\ ItemsArePut(r)
  BY <1>7, <1>8, WordsCount DEF Underway, InterviewInv
<1>10. NudgedTurns(r) = NudgedTurns(s) \cup {q}
  BY <1>2, <1>5, <1>6, <1>7 DEF NudgedTurns
<1>11. x \in SpokenTurns /\ x.kind = "nudge" /\ x.item = NoItem /\ Turns!IsAi(x) /\ ~x.nudged /\ ~x.scored
  BY SaidIs DEF AiKinds
<1> HIDE DEF r, x
<1>12. t \in Interviews /\ t.turns = Append(r.turns, x) /\ t.cover = r.cover /\ SameCounters(r, t)
  BY <1>4, <1>7, <1>11, PushIs
<1> HIDE DEF t
<1>13. /\ DOMAIN t.turns = DOMAIN r.turns \cup {Len(r.turns) + 1}
       /\ t.turns[Len(r.turns) + 1] = x /\ \A i \in DOMAIN r.turns : t.turns[i] = r.turns[i]
       /\ Cardinality(Asking(t)) = Cardinality(Asking(r)) + IF Turns!IsAi(x) /\ x.kind \in {"question", "follow_up"} THEN 1 ELSE 0
       /\ \A K : Cardinality(OfKinds(t, K)) = Cardinality(OfKinds(r, K)) + IF Turns!IsAi(x) /\ x.kind \in K THEN 1 ELSE 0
       /\ FreshMust(t) = FreshMust(r) \ {x.item}
       /\ Asking(r) \subseteq Asking(t)
       /\ NudgedTurns(t) = NudgedTurns(r)
       /\ \A m \in Must : TFresh(t, m) <=> TFresh(r, m) /\ x.item # m
  BY <1>7, <1>11, <1>12, AppendCounts
<1>14. NoItem \notin Must
  BY DEF TurnBounds, Turns!Items
<1>15. FreshMust(t) = FreshMust(s)
  BY <1>9, <1>11, <1>13, <1>14 DEF FreshMust
<1>16. ItemsArePut(t)
  BY <1>9, <1>11, <1>13 DEF ItemsArePut
<1>17. FreshArePending(t)
  BY <1>7, <1>9, <1>12, <1>13 DEF Underway, InterviewInv, FreshArePending
<1>18. SameCounters(s, t)
  BY <1>7, <1>12 DEF SameCounters
<1>19. BudgetIsReserved(t)
  BY <1>15, <1>18 DEF Underway, InterviewInv, BudgetIsReserved, SameCounters
<1>20. \A K : Cardinality(OfKinds(s, K)) \in Nat
  <2> TAKE K
  <2>1. OfKinds(s, K) \subseteq DOMAIN s.turns
    BY DEF OfKinds
  <2> QED
    BY <2>1, TurnSetsAreFinite
<1>21. \A K \in {{"intro", "warmup"}, {"capstone"}, {"closing"}} : Cardinality(OfKinds(t, K)) = Cardinality(OfKinds(s, K))
  <2> TAKE K \in {{"intro", "warmup"}, {"capstone"}, {"closing"}}
  <2>1. ~(Turns!IsAi(x) /\ x.kind \in K)
    BY <1>11
  <2> QED
    BY <1>9, <1>13, <1>20, <2>1
<1>22. Cardinality(OfKinds(t, {"nudge"})) <= Cardinality(NudgedTurns(t))
  <2>1. Cardinality(OfKinds(t, {"nudge"})) = Cardinality(OfKinds(s, {"nudge"})) + 1
    BY <1>9, <1>11, <1>13, <1>20
  <2>2. NudgedTurns(s) \subseteq DOMAIN s.turns
    BY DEF NudgedTurns
  <2>3. IsFiniteSet(NudgedTurns(s)) /\ Cardinality(NudgedTurns(s)) \in Nat
    BY <2>2, TurnSetsAreFinite
  <2>4. Cardinality(NudgedTurns(s) \cup {q}) = Cardinality(NudgedTurns(s)) + 1
    BY <1>1, <2>3, FS_AddElement
  <2>5. Cardinality(OfKinds(s, {"nudge"})) <= Cardinality(NudgedTurns(s))
    BY DEF Underway, InterviewInv, TurnsAreCounted
  <2>6. Cardinality(NudgedTurns(t)) = Cardinality(NudgedTurns(s)) + 1
    BY <1>10, <1>13, <2>4
  <2> QED
    BY <2>1, <2>3, <2>5, <2>6, <1>20
<1>23. Cardinality(Asking(t)) = Cardinality(Asking(s))
  <2>1. Asking(s) \subseteq DOMAIN s.turns
    BY DEF Asking
  <2>2. Cardinality(Asking(s)) \in Nat
    BY <2>1, TurnSetsAreFinite
  <2> QED
    BY <1>9, <1>11, <1>13, <2>2
<1>24. NudgedTurns(t) \subseteq Asking(t)
  BY <1>1, <1>9, <1>10, <1>13 DEF Underway, InterviewInv, TurnsAreCounted
<1>25. \A i \in DOMAIN t.turns : Turns!IsAi(t.turns[i]) => t.turns[i].kind \in AiKinds
  <2>1. \A i \in DOMAIN r.turns : Turns!IsAi(r.turns[i]) => r.turns[i].kind \in AiKinds
    BY <1>8 DEF SameWords, Underway, InterviewInv, TurnsAreCounted, Turns!IsAi
  <2> QED
    BY <2>1, <1>11, <1>13 DEF AiKinds
<1>26. TurnsAreCounted(t)
  BY <1>18, <1>21, <1>22, <1>23, <1>24, <1>25 DEF Underway, InterviewInv, TurnsAreCounted, SameCounters
<1>27. \A i \in DOMAIN r.turns : r.turns[i].scored => r.turns[i].declined = "no"
  BY <1>5, <1>6, <1>7, <1>2 DEF Underway, InterviewInv, GapsAreKept
<1>28. GapsAreKept(t)
  BY <1>11, <1>13, <1>18, <1>27 DEF Underway, InterviewInv, GapsAreKept, SameCounters
<1>29. Underway(t)
  BY <1>12, <1>16, <1>17, <1>18, <1>19, <1>26, <1>28 DEF Underway, InterviewInv, SameCounters
<1> QED
  BY <1>29 DEF t

\* The closing sequence and the end.
LEMMA ClosingKeeps ==
    ASSUME TurnBounds, NEW s \in Interviews, Underway(s), Turns!Pending(s, Must) = {}
    PROVE  InterviewInv(Turns!DeliverClosingOrComplete(s))
<1>1. PICK kind \in {"capstone", "closing"} : kind = IF Turns!ChooseClosing(s) THEN "capstone" ELSE "closing"
  OBVIOUS
<1> DEFINE x == Turns!Said(kind, NoItem)
           p == Turns!Push(s, x)
           t == Turns!DeliverClosingOrComplete(s)
<1>2. x \in SpokenTurns /\ x.kind = kind /\ x.item = NoItem /\ Turns!IsAi(x) /\ ~x.nudged /\ ~x.scored
  BY SaidIs DEF AiKinds
<1>3. t = IF kind = "capstone" THEN [p EXCEPT !.closingIndex = @ + 1] ELSE [p EXCEPT !.status = "completed"]
  BY <1>1 DEF Turns!DeliverClosingOrComplete
<1>4. kind = "capstone" => s.closingIndex < ClosingLength
  BY <1>1 DEF Turns!ChooseClosing
<1> HIDE DEF x
<1>5. p \in Interviews /\ p.turns = Append(s.turns, x) /\ p.cover = s.cover /\ SameCounters(s, p)
  BY <1>2, PushIs
<1> HIDE DEF p, t
<1>6. s.closingIndex \in Nat /\ s.questionCount \in Nat /\ s.followUpCount \in Nat /\ s.status = "in_progress" /\ ClosingLength \in Nat
  BY DEF Interviews, Underway, TurnBounds
<1>7. t \in Interviews /\ t.turns = Append(s.turns, x) /\ t.cover = s.cover /\ t.maxQuestions = s.maxQuestions
      /\ t.questionCount = s.questionCount /\ t.followUpCount = s.followUpCount /\ t.evaluation = s.evaluation
  <2>1. PICK n \in Nat : n = p.closingIndex + 1
    BY <1>5 DEF Interviews
  <2>2. ASSUME kind = "capstone"
        PROVE  t \in Interviews /\ t.turns = p.turns /\ t.cover = p.cover /\ t.maxQuestions = p.maxQuestions
               /\ t.questionCount = p.questionCount /\ t.followUpCount = p.followUpCount /\ t.evaluation = p.evaluation
    <3>1. t = [p EXCEPT !.closingIndex = n]
      BY <1>3, <2>1, <2>2
    <3> QED
      BY <3>1, <1>5 DEF Interviews
  <2>3. ASSUME kind = "closing"
        PROVE  t \in Interviews /\ t.turns = p.turns /\ t.cover = p.cover /\ t.maxQuestions = p.maxQuestions
               /\ t.questionCount = p.questionCount /\ t.followUpCount = p.followUpCount /\ t.evaluation = p.evaluation
    BY <1>3, <1>5, <2>3 DEF Interviews, Turns!Statuses
  <2> QED
    BY <1>1, <1>5, <2>2, <2>3 DEF SameCounters
<1>8. /\ t.closingIndex = IF kind = "capstone" THEN s.closingIndex + 1 ELSE s.closingIndex
      /\ t.status = IF kind = "capstone" THEN "in_progress" ELSE "completed"
  BY <1>3, <1>5, <1>6 DEF Interviews, SameCounters
<1>9. /\ DOMAIN t.turns = DOMAIN s.turns \cup {Len(s.turns) + 1}
      /\ t.turns[Len(s.turns) + 1] = x /\ \A i \in DOMAIN s.turns : t.turns[i] = s.turns[i]
      /\ Cardinality(Asking(t)) = Cardinality(Asking(s)) + IF Turns!IsAi(x) /\ x.kind \in {"question", "follow_up"} THEN 1 ELSE 0
      /\ \A K : Cardinality(OfKinds(t, K)) = Cardinality(OfKinds(s, K)) + IF Turns!IsAi(x) /\ x.kind \in K THEN 1 ELSE 0
      /\ FreshMust(t) = FreshMust(s) \ {x.item}
      /\ Asking(s) \subseteq Asking(t)
      /\ NudgedTurns(t) = NudgedTurns(s)
      /\ \A m \in Must : TFresh(t, m) <=> TFresh(s, m) /\ x.item # m
  BY <1>2, <1>7, AppendCounts
<1>10. NoItem \notin Must
  BY DEF TurnBounds, Turns!Items
<1>11. FreshMust(t) = FreshMust(s)
  BY <1>2, <1>9, <1>10 DEF FreshMust
<1>12. ItemsArePut(t) /\ FreshArePending(t)
  BY <1>2, <1>7, <1>9 DEF Underway, InterviewInv, ItemsArePut, FreshArePending
<1>13. Turns!Pending(t, Must) = {}
  BY <1>7 DEF Turns!Pending
<1>14. BudgetIsReserved(t)
  BY <1>6, <1>7, <1>8, <1>11, <1>13 DEF Underway, InterviewInv, BudgetIsReserved
<1>15. \A K : Cardinality(OfKinds(s, K)) \in Nat
  <2> TAKE K
  <2>1. OfKinds(s, K) \subseteq DOMAIN s.turns
    BY DEF OfKinds
  <2> QED
    BY <2>1, TurnSetsAreFinite
<1>16. /\ Cardinality(OfKinds(t, {"nudge"})) = Cardinality(OfKinds(s, {"nudge"}))
       /\ Cardinality(OfKinds(t, {"intro", "warmup"})) = Cardinality(OfKinds(s, {"intro", "warmup"}))
  <2>1. ~(Turns!IsAi(x) /\ x.kind \in {"nudge"}) /\ ~(Turns!IsAi(x) /\ x.kind \in {"intro", "warmup"})
    BY <1>2
  <2> QED
    BY <1>9, <1>15, <2>1
<1>17. Cardinality(OfKinds(s, {"capstone"})) = s.closingIndex /\ Cardinality(OfKinds(s, {"closing"})) = 0
  BY <1>6 DEF Underway, InterviewInv, TurnsAreCounted
<1>18. ASSUME kind = "capstone" PROVE Cardinality(OfKinds(t, {"capstone"})) = t.closingIndex
            /\ Cardinality(OfKinds(t, {"closing"})) = IF t.status = "completed" THEN 1 ELSE 0
  <2>1. Cardinality(OfKinds(t, {"capstone"})) = s.closingIndex + 1 /\ Cardinality(OfKinds(t, {"closing"})) = 0
    BY <1>2, <1>9, <1>15, <1>17, <1>18
  <2> QED
    BY <2>1, <1>18, <1>8
<1>19. ASSUME kind = "closing" PROVE Cardinality(OfKinds(t, {"capstone"})) = t.closingIndex
            /\ Cardinality(OfKinds(t, {"closing"})) = IF t.status = "completed" THEN 1 ELSE 0
  <2>1. Cardinality(OfKinds(t, {"capstone"})) = s.closingIndex /\ Cardinality(OfKinds(t, {"closing"})) = 1
    BY <1>2, <1>9, <1>15, <1>17, <1>19
  <2> QED
    BY <2>1, <1>19, <1>8
<1>20. /\ Cardinality(OfKinds(t, {"capstone"})) = t.closingIndex
       /\ Cardinality(OfKinds(t, {"closing"})) = IF t.status = "completed" THEN 1 ELSE 0
  BY <1>1, <1>18, <1>19
<1>21. t.closingIndex <= ClosingLength
  <2>1. s.closingIndex <= ClosingLength
    BY DEF Underway, InterviewInv, TurnsAreCounted
  <2> QED
    BY <2>1, <1>4, <1>6, <1>8
<1>22. Cardinality(Asking(t)) = Cardinality(Asking(s))
  <2>1. Asking(s) \subseteq DOMAIN s.turns
    BY DEF Asking
  <2>2. Cardinality(Asking(s)) \in Nat
    BY <2>1, TurnSetsAreFinite
  <2> QED
    BY <1>2, <1>9, <2>2
<1>23. \A i \in DOMAIN t.turns : Turns!IsAi(t.turns[i]) => t.turns[i].kind \in AiKinds
  BY <1>2, <1>9 DEF Underway, InterviewInv, TurnsAreCounted, AiKinds
<1>24. TurnsAreCounted(t)
  BY <1>7, <1>9, <1>16, <1>20, <1>21, <1>22, <1>23 DEF Underway, InterviewInv, TurnsAreCounted
<1>25. GapsAreKept(t)
  <2>1. ~s.evaluation.done /\ s.evaluation.recommendation # "model"
    BY <1>6 DEF Underway, InterviewInv, GapsAreKept
  <2> QED
    BY <2>1, <1>2, <1>7, <1>9 DEF Underway, InterviewInv, GapsAreKept
<1>26. InterviewInv(t)
  BY <1>7, <1>12, <1>14, <1>24, <1>25 DEF InterviewInv
<1> QED
  BY <1>26 DEF t

-----------------------------------------------------------------------------
(* advance.                                                                  *)

LEMMA AdaptiveKeeps ==
    ASSUME TurnBounds, NEW s \in Interviews, Underway(s), s.questionCount + Cardinality(FreshMust(s)) < s.maxQuestions,
           NEW t \in Turns!Adaptive(s)
    PROVE  InterviewInv(t)
<1>1. PICK next \in Turns!NextQuestion(s), r \in {Turns!ScoreLast(s, scored) : scored \in BOOLEAN} :
        t = IF next.closing /\ Turns!ClosingAllowed(r) THEN Turns!DeliverClosingOrComplete(r) ELSE Turns!Ask(r, next.item)
  BY DEF Turns!Adaptive
<1>6. PICK scored \in BOOLEAN : r = Turns!ScoreLast(s, scored)
  OBVIOUS
<1>2. Underway(r) /\ r \in Interviews /\ SameCounters(s, r) /\ FreshMust(r) = FreshMust(s)
  BY <1>6, ScoreLastKeeps DEF Underway, InterviewInv
<1>3. next.item \in Turns!Items \cup {NoItem}
  BY DEF Turns!NextQuestion, Turns!Proposed, Turns!Fallback, Turns!Unasked, Turns!Pending, Turns!Items
<1>4. CASE next.closing /\ Turns!ClosingAllowed(r)
  <2>1. Turns!Pending(r, Must) = {}
    BY <1>4 DEF Turns!ClosingAllowed, Turns!Pending, Turns!Items
  <2> QED
    BY <1>1, <1>2, <1>4, <2>1, ClosingKeeps
<1>5. CASE ~(next.closing /\ Turns!ClosingAllowed(r))
  <2>1. r.questionCount + Cardinality(FreshMust(r)) < r.maxQuestions
    BY <1>2 DEF SameCounters
  <2>2. Underway(Turns!Ask(r, next.item))
    BY <1>2, <1>3, <2>1, AskKeeps
  <2> QED
    BY <1>1, <1>5, <2>2 DEF Underway
<1> QED
  BY <1>4, <1>5

LEMMA ScriptedKeeps ==
    ASSUME TurnBounds, NEW s \in Interviews, Underway(s), Turns!Pending(s, Must) = FreshMust(s), NEW t \in Turns!Scripted(s)
    PROVE  InterviewInv(t)
<1>1. IsFiniteSet(FreshMust(s)) /\ Cardinality(FreshMust(s)) \in Nat /\ s.questionCount \in Nat /\ s.maxQuestions \in Nat
  BY MustIsFinite DEF FreshMust, Interviews
<1>2. s.questionCount + Cardinality(FreshMust(s)) <= s.maxQuestions
  BY DEF Underway, InterviewInv, BudgetIsReserved
<1>3. CASE s.questionCount >= s.maxQuestions
  <2>1. Cardinality(FreshMust(s)) = 0
    BY <1>1, <1>2, <1>3
  <2>2. Turns!Pending(s, Must) = {}
    BY <1>1, <2>1, FS_EmptySet
  <2> QED
    BY <1>3, <2>2, ClosingKeeps DEF Turns!Scripted
<1>4. CASE ~(s.questionCount >= s.maxQuestions) /\ Turns!ChooseMustAsk(s) # {}
  <2>1. PICK m \in Turns!ChooseMustAsk(s) : t = Turns!Ask(s, m)
    BY <1>4 DEF Turns!Scripted
  <2>2. m \in FreshMust(s) /\ m \in Turns!Items
    BY DEF Turns!ChooseMustAsk, Turns!Pending, Turns!Items
  <2>3. Underway(Turns!Ask(s, m))
    BY <2>2, AskKeeps
  <2> QED
    BY <2>1, <2>3 DEF Underway
<1>5. CASE ~(s.questionCount >= s.maxQuestions) /\ Turns!ChooseMustAsk(s) = {}
  <2>1. t \in Turns!Adaptive(s)
    BY <1>5 DEF Turns!Scripted
  <2>2. s.questionCount + Cardinality(FreshMust(s)) < s.maxQuestions
    <3>1. CASE FreshMust(s) = {}
      BY <3>1, <1>1, <1>5, FS_EmptySet
    <3>2. CASE FreshMust(s) # {}
      <4>1. ~Turns!MustAskDue(s)
        BY <1>5, <3>2 DEF Turns!ChooseMustAsk
      <4>2. ~(s.maxQuestions - s.questionCount <= Cardinality(Turns!Pending(s, Must)) + Cardinality(Turns!Pending(s, Probes)))
        BY <4>1, SameSize DEF Turns!MustAskDue
      <4>3. Turns!Pending(s, Probes) \subseteq Turns!Items
        BY DEF Turns!Pending, Turns!Items
      <4>4. Cardinality(Turns!Pending(s, Probes)) \in Nat
        BY <4>3, FS_Subset, FS_CardinalityType DEF TurnBounds
      <4> QED
        BY <1>1, <4>2, <4>4
    <3> QED
      BY <3>1, <3>2
  <2> QED
    BY <2>1, <2>2, AdaptiveKeeps
<1> QED
  BY <1>3, <1>4, <1>5

LEMMA AdvanceKeeps ==
    ASSUME TurnBounds, NEW s \in Interviews, Underway(s), NEW t \in Turns!Advance(s)
    PROVE  InterviewInv(t)
<1>1. CASE Turns!NudgeTarget(s) # 0
  <2>1. t = Turns!Nudge(s)
    BY <1>1 DEF Turns!Advance
  <2> QED
    BY <1>1, <2>1, NudgeKeeps DEF Underway
<1>2. CASE ~(Turns!NudgeTarget(s) # 0)
  <2>1. PICK r : r = Turns!Retire(s)
    OBVIOUS
  <2>2. t \in Turns!Scripted(r) \/ (t = Turns!FollowUp(r) /\ Turns!MayFollowUp(r))
    BY <1>2, <2>1 DEF Turns!Advance
  <2>3. Underway(r) /\ r \in Interviews /\ Turns!Pending(r, Must) = FreshMust(r)
    BY <2>1, RetireKeeps DEF Underway, InterviewInv
  <2>4. CASE t \in Turns!Scripted(r)
    BY <2>3, <2>4, ScriptedKeeps
  <2>5. CASE t = Turns!FollowUp(r) /\ Turns!MayFollowUp(r)
    BY <2>3, <2>5, FollowUpKeeps DEF Underway, Turns!MayFollowUp
  <2> QED
    BY <2>2, <2>4, <2>5
<1> QED
  BY <1>1, <1>2

-----------------------------------------------------------------------------
(* The actions.                                                              *)

LEMMA InterviewBegins ==
    ASSUME TurnBounds, Turns!Init
    PROVE  InterviewInv(ai)
<1>1. ai.turns = <<>> /\ ai.turns \in Seq(SpokenTurns) /\ DOMAIN ai.turns = {}
  BY DEF Turns!Init
<1>2. ai \in Interviews /\ ai.status = "not_started" /\ ai.questionCount = 0 /\ ai.followUpCount = 0 /\ ai.closingIndex = 0
      /\ ai.cover = [x \in Turns!Items |-> "pending"] /\ ai.evaluation = Turns!NoEvaluation
  BY <1>1 DEF Turns!Init, TurnBounds, Interviews, Turns!NoEvaluation, Evaluations, Turns!Statuses
<1>3. ItemsArePut(ai) /\ FreshArePending(ai) /\ BudgetIsReserved(ai)
  BY <1>1, <1>2 DEF ItemsArePut, FreshArePending, BudgetIsReserved, Turns!Items
<1>4. Asking(ai) = {} /\ NudgedTurns(ai) = {} /\ \A K : OfKinds(ai, K) = {}
  BY <1>1 DEF Asking, NudgedTurns, OfKinds
<1>5. TurnsAreCounted(ai)
  <2>1. Cardinality({}) = 0
    BY FS_EmptySet
  <2>2. Cardinality(Asking(ai)) = 0 /\ Cardinality(NudgedTurns(ai)) = 0 /\ Cardinality(OfKinds(ai, {"nudge"})) = 0
        /\ Cardinality(OfKinds(ai, {"intro", "warmup"})) = 0 /\ Cardinality(OfKinds(ai, {"capstone"})) = 0
        /\ Cardinality(OfKinds(ai, {"closing"})) = 0
    BY <1>4, <2>1
  <2> QED
    BY <1>1, <1>2, <1>4, <2>2 DEF TurnsAreCounted, TurnBounds
<1>6. GapsAreKept(ai)
  BY <1>1, <1>2 DEF GapsAreKept, Turns!NoEvaluation
<1> QED
  BY <1>2, <1>3, <1>5, <1>6 DEF InterviewInv

LEMMA BeginKeeps ==
    ASSUME TurnBounds, InterviewInv(ai), Turns!Begin
    PROVE  InterviewInv(ai')
<1> DEFINE u == <<Turns!Said("intro", NoItem), Turns!Said("warmup", NoItem)>>
<1>1. PICK cap : cap = IF Cardinality(Turns!Items) > MaxQuestions THEN Cardinality(Turns!Items) ELSE MaxQuestions
  OBVIOUS
<1>2. Cardinality(Turns!Items) \in Nat /\ cap \in Nat /\ cap >= Cardinality(Turns!Items)
  BY <1>1, FS_CardinalityType DEF TurnBounds
<1>3. ai.status = "not_started"
      /\ ai' = [ai EXCEPT !.status = "in_progress", !.maxQuestions = cap, !.minQuestions = Turns!Smaller(ai.minQuestions, cap), !.turns = u]
  BY <1>1, SameSize DEF Turns!Begin, InterviewInv, Interviews
<1>4. PICK low \in Nat : low = Turns!Smaller(ai.minQuestions, cap)
  BY <1>2 DEF Turns!Smaller, InterviewInv, Interviews
<1>5. Turns!Said("intro", NoItem) \in SpokenTurns /\ Turns!Said("warmup", NoItem) \in SpokenTurns
  BY SaidIs DEF AiKinds
<1>6. /\ u \in Seq(SpokenTurns) /\ DOMAIN u = {1, 2}
      /\ \A i \in {1, 2} : u[i].item = NoItem /\ u[i].kind \in {"intro", "warmup"} /\ Turns!IsAi(u[i]) /\ ~u[i].nudged /\ ~u[i].scored
  BY <1>5 DEF Turns!Said, Turns!IsAi
<1> HIDE DEF u
<1>7. PICK t : t = [ai EXCEPT !.status = "in_progress", !.maxQuestions = cap, !.minQuestions = low, !.turns = u]
  OBVIOUS
<1>8. ai' = t
  BY <1>3, <1>4, <1>7
<1>9. ai \in Interviews /\ ai.turns = <<>> /\ ai.questionCount = 0
  BY <1>3 DEF InterviewInv, BudgetIsReserved
<1>10. t \in Interviews /\ t.turns = u /\ t.status = "in_progress" /\ t.maxQuestions = cap /\ t.cover = ai.cover
       /\ t.questionCount = ai.questionCount /\ t.followUpCount = ai.followUpCount /\ t.closingIndex = ai.closingIndex
       /\ t.evaluation = ai.evaluation
  BY <1>2, <1>6, <1>7, <1>9 DEF Interviews, Turns!Statuses
<1>11. \A m \in Must : TFresh(ai, m)
  BY <1>9 DEF TFresh
<1>12. ItemsArePut(t) /\ FreshArePending(t)
  BY <1>6, <1>10, <1>11 DEF ItemsArePut, FreshArePending, InterviewInv
<1>13. Cardinality(FreshMust(t)) <= Cardinality(Turns!Items) /\ Cardinality(FreshMust(t)) \in Nat
  <2>1. FreshMust(t) \subseteq Turns!Items
    BY DEF FreshMust, Turns!Items
  <2> QED
    BY <2>1, FS_Subset, FS_CardinalityType DEF TurnBounds
<1>14. BudgetIsReserved(t)
  BY <1>2, <1>9, <1>10, <1>13 DEF BudgetIsReserved
<1>15. Asking(t) = {} /\ NudgedTurns(t) = {} /\ OfKinds(t, {"nudge"}) = {} /\ OfKinds(t, {"capstone"}) = {}
       /\ OfKinds(t, {"closing"}) = {} /\ OfKinds(t, {"intro", "warmup"}) = {1, 2}
  BY <1>6, <1>10 DEF Asking, NudgedTurns, OfKinds
<1>16. Asking(ai) = {} /\ OfKinds(ai, {"capstone"}) = {}
  BY <1>9 DEF Asking, OfKinds
<1>17. Cardinality({}) = 0 /\ Cardinality({1, 2}) = 2
  <2>1. IsFiniteSet({1}) /\ Cardinality({1}) = 1
    BY FS_Singleton
  <2>2. 2 \notin {1} /\ {1} \cup {2} = {1, 2}
    OBVIOUS
  <2>3. Cardinality({1} \cup {2}) = 1 + 1
    BY <2>1, <2>2, FS_AddElement
  <2> QED
    BY <2>2, <2>3, FS_EmptySet
<1>18. ai.questionCount + ai.followUpCount = 0 /\ ai.closingIndex = 0 /\ ai.followUpCount <= MaxFollowUps /\ ai.closingIndex <= ClosingLength
  BY <1>16, <1>17 DEF InterviewInv, TurnsAreCounted
<1>19. \A i \in DOMAIN t.turns : Turns!IsAi(t.turns[i]) => t.turns[i].kind \in AiKinds
  BY <1>6, <1>10 DEF AiKinds
<1>20. TurnsAreCounted(t)
  <2>1. NudgedTurns(t) \subseteq Asking(t)
    BY <1>15
  <2>2. Cardinality(Asking(t)) = t.questionCount + t.followUpCount
    BY <1>10, <1>15, <1>17, <1>18
  <2>3. Cardinality(OfKinds(t, {"nudge"})) <= Cardinality(NudgedTurns(t)) /\ Cardinality(OfKinds(t, {"intro", "warmup"})) <= 2
    BY <1>15, <1>17
  <2>4. Cardinality(OfKinds(t, {"capstone"})) = t.closingIndex
    BY <1>10, <1>15, <1>17, <1>18
  <2>5. Cardinality(OfKinds(t, {"closing"})) = 0 /\ t.status # "completed"
    BY <1>10, <1>15, <1>17
  <2>6. t.closingIndex <= ClosingLength /\ t.followUpCount <= MaxFollowUps
    BY <1>10, <1>18
  <2> QED
    BY <1>19, <2>1, <2>2, <2>3, <2>4, <2>5, <2>6 DEF TurnsAreCounted
<1>21. GapsAreKept(t)
  <2>1. ~ai.evaluation.done /\ ai.evaluation.recommendation # "model"
    BY <1>3 DEF InterviewInv, GapsAreKept
  <2> QED
    BY <2>1, <1>6, <1>10 DEF GapsAreKept
<1>22. InterviewInv(t)
  BY <1>10, <1>12, <1>14, <1>20, <1>21 DEF InterviewInv
<1> QED
  BY <1>8, <1>22

LEMMA SpeakKeeps ==
    ASSUME TurnBounds, InterviewInv(ai), Turns!Speak
    PROVE  InterviewInv(ai')
<1>0. Underway(ai) /\ ai \in Interviews
  BY DEF Turns!Speak, Turns!SubmitAnswer, Turns!HandleDecline, Turns!HandleNoResponse, Turns!NoAnswer, Turns!InProgress,
         Underway, InterviewInv
<1>1. \/ \E length \in {"short", "long"}, heard \in BOOLEAN : Turns!SubmitAnswer(length, heard)
      \/ \E act \in {"decline", "no_response"} : Turns!NoAnswer(act)
  BY DEF Turns!Speak, Turns!HandleDecline, Turns!HandleNoResponse
<1>2. \E s \in Interviews : Underway(s) /\ ai' \in Turns!Advance(s)
  <2>1. ASSUME NEW length \in {"short", "long"}, NEW heard \in BOOLEAN, Turns!SubmitAnswer(length, heard)
        PROVE  \E s \in Interviews : Underway(s) /\ ai' \in Turns!Advance(s)
    <3>1. PICK s : s = Turns!Answered(ai, length, heard) /\ ai' \in Turns!Advance(s)
      BY <2>1 DEF Turns!SubmitAnswer
    <3>2. Underway(s)
      BY <1>0, <3>1, AnsweredKeeps
    <3> QED
      BY <3>1, <3>2 DEF Underway, InterviewInv
  <2>2. ASSUME NEW act \in {"decline", "no_response"}, Turns!NoAnswer(act)
        PROVE  \E s \in Interviews : Underway(s) /\ ai' \in Turns!Advance(s)
    <3>1. PICK s : s = Turns!NotAnswered(ai, act) /\ ai' \in Turns!Advance(s)
      BY <2>2 DEF Turns!NoAnswer
    <3>2. Underway(s)
      BY <1>0, <3>1, NotAnsweredKeeps
    <3> QED
      BY <3>1, <3>2 DEF Underway, InterviewInv
  <2> QED
    BY <1>1, <2>1, <2>2
<1>3. PICK s \in Interviews : Underway(s) /\ ai' \in Turns!Advance(s)
  BY <1>2
<1>4. PICK t \in Turns!Advance(s) : ai' = t
  BY <1>3
<1>5. InterviewInv(t)
  BY <1>3, AdvanceKeeps
<1> QED
  BY <1>4, <1>5

LEMMA SideExchangeKeeps ==
    ASSUME TurnBounds, InterviewInv(ai), Turns!SideExchange
    PROVE  InterviewInv(ai')
<1>0. Underway(ai) /\ ai \in Interviews
  BY DEF Turns!SideExchange, Turns!InProgress, Underway, InterviewInv
<1> DEFINE r == Turns!Push(ai, Turns!Spoken("side_claim", "short", "no"))
           x == Turns!Said("side_reply", NoItem)
           t == Turns!Push(r, x)
<1>1. Underway(r) /\ r \in Interviews
  BY <1>0, CandidateTurnKeeps DEF CandidateKinds, Underway, InterviewInv
<1>2. x \in SpokenTurns /\ x.kind = "side_reply" /\ x.item = NoItem /\ ~x.nudged /\ ~x.scored
  BY SaidIs DEF AiKinds
<1>3. ai' = t
  BY DEF Turns!SideExchange
<1> HIDE DEF r, x
<1>4. t \in Interviews /\ t.turns = Append(r.turns, x) /\ t.cover = r.cover /\ SameCounters(r, t)
  BY <1>1, <1>2, PushIs
<1> HIDE DEF t
<1>5. Underway(t)
  BY <1>1, <1>2, <1>4, SideTurnKeeps
<1> QED
  BY <1>3, <1>5 DEF Underway

\* The end of an interview before its time, and what is noted about presence.
LEMMA EndKeeps ==
    ASSUME TurnBounds, InterviewInv(ai), Turns!Away \/ \E status \in Endings : Turns!End(status)
    PROVE  InterviewInv(ai')
<1>0. Underway(ai) /\ ai \in Interviews
  BY DEF Turns!Away, Turns!End, Turns!InProgress, Underway, InterviewInv
<1>1. PICK t : t = ai'
  OBVIOUS
<1>2. t = [ai EXCEPT !.away = TRUE] \/ \E status \in Endings : t = [ai EXCEPT !.status = status]
  BY <1>1 DEF Turns!Away, Turns!End
<1>3. t \in Interviews /\ t.turns = ai.turns /\ t.cover = ai.cover /\ t.maxQuestions = ai.maxQuestions /\ t.questionCount = ai.questionCount
      /\ t.followUpCount = ai.followUpCount /\ t.closingIndex = ai.closingIndex /\ t.evaluation = ai.evaluation
      /\ t.status \in {"in_progress"} \cup Endings
  BY <1>0, <1>2 DEF Interviews, Turns!Statuses, Underway
<1>4. t.status # "completed" /\ t.status # "not_started"
  BY <1>3 DEF TurnBounds
<1>5. SameWords(ai, t)
  BY <1>3 DEF SameWords
<1>6. /\ Asking(t) = Asking(ai) /\ FreshMust(t) = FreshMust(ai)
      /\ \A K : OfKinds(t, K) = OfKinds(ai, K)
      /\ \A m : TFresh(t, m) <=> TFresh(ai, m)
      /\ ItemsArePut(t)
  BY <1>0, <1>3, <1>5, WordsCount DEF InterviewInv
<1>7. NudgedTurns(t) = NudgedTurns(ai)
  BY <1>3 DEF NudgedTurns
<1>8. FreshArePending(t) /\ BudgetIsReserved(t)
  BY <1>0, <1>3, <1>4, <1>6 DEF Underway, InterviewInv, FreshArePending, BudgetIsReserved
<1>9. \A i \in DOMAIN t.turns : Turns!IsAi(t.turns[i]) => t.turns[i].kind \in AiKinds
  BY <1>3 DEF InterviewInv, TurnsAreCounted
<1>10. TurnsAreCounted(t)
  BY <1>0, <1>3, <1>4, <1>6, <1>7, <1>9 DEF Underway, InterviewInv, TurnsAreCounted
<1>11. GapsAreKept(t)
  <2>1. ~ai.evaluation.done /\ ai.evaluation.recommendation # "model"
    BY <1>0 DEF Underway, InterviewInv, GapsAreKept
  <2> QED
    BY <2>1, <1>3 DEF InterviewInv, GapsAreKept
<1> QED
  BY <1>1, <1>3, <1>6, <1>8, <1>10, <1>11 DEF InterviewInv

LEMMA FinalizationKeeps ==
    ASSUME TurnBounds, InterviewInv(ai), Turns!RunFinalization
    PROVE  InterviewInv(ai')
<1>1. PICK useAi \in BOOLEAN, done \in BOOLEAN : ai' = Turns!Evaluate(Turns!ScoreUnscoredAnswers(ai, done), useAi)
  BY DEF Turns!RunFinalization
<1> DEFINE n == Len(ai.turns)
           u == [i \in DOMAIN ai.turns |-> IF i \in Turns!ToScore(ai) THEN [ai.turns[i] EXCEPT !.scored = done] ELSE ai.turns[i]]
<1>2. ai \in Interviews /\ ai.turns \in Seq(SpokenTurns) /\ n \in Nat /\ DOMAIN ai.turns = 1 .. n
  BY DEF InterviewInv, Interviews
<1>3. ASSUME NEW i \in DOMAIN ai.turns
      PROVE  /\ u[i] \in SpokenTurns /\ u[i].role = ai.turns[i].role /\ u[i].kind = ai.turns[i].kind /\ u[i].item = ai.turns[i].item
             /\ u[i].nudged = ai.turns[i].nudged /\ u[i].declined = ai.turns[i].declined /\ (u[i].scored => u[i].declined = "no")
  <2>1. ai.turns[i] \in SpokenTurns /\ (ai.turns[i].scored => ai.turns[i].declined = "no")
    BY <1>2 DEF InterviewInv, GapsAreKept
  <2>2. CASE i \in Turns!ToScore(ai)
    <3>1. ai.turns[i].declined = "no" /\ u[i] = [ai.turns[i] EXCEPT !.scored = done]
      BY <2>2 DEF Turns!ToScore
    <3> HIDE DEF u
    <3> QED
      BY <2>1, <3>1 DEF SpokenTurns
  <2>3. CASE i \notin Turns!ToScore(ai)
    BY <2>1, <2>3
  <2> QED
    BY <2>2, <2>3
<1>4. DOMAIN u = 1 .. n /\ u = [i \in 1 .. n |-> u[i]]
  BY <1>2
<1>5. PICK r : r = Turns!ScoreUnscoredAnswers(ai, done)
  OBVIOUS
<1>6. r = [ai EXCEPT !.turns = u]
  BY <1>5 DEF Turns!ScoreUnscoredAnswers
<1> HIDE DEF u
<1>7. u \in Seq(SpokenTurns)
  <2>1. \A i \in 1 .. n : u[i] \in SpokenTurns
    BY <1>2, <1>3
  <2> HIDE DEF n
  <2> QED
    BY <1>2, <1>4, <2>1
<1>8. r \in Interviews /\ r.turns = u /\ r.cover = ai.cover /\ SameCounters(ai, r)
  BY <1>2, <1>6, <1>7, InterviewWith
<1>9. PICK e : e = [done |-> TRUE,
                    recommendation |-> IF useAi /\ ~Turns!ReviewRequired(r) THEN "model" ELSE "review",
                    asked |-> r.questionCount,
                    answered |-> Turns!Cardinality(Turns!Answers(r) \ Turns!Declines(r)),
                    declined |-> Turns!Cardinality(Turns!Declines(r))]
  OBVIOUS
<1>10. PICK t : t = [r EXCEPT !.evaluation = e]
  OBVIOUS
<1>11. ai' = t
  BY <1>1, <1>5, <1>9, <1>10 DEF Turns!Evaluate
<1>12. e \in Evaluations /\ e.done /\ (e.recommendation = "model" => ~Turns!ReviewRequired(r))
  <2>1. Turns!Declines(r) \subseteq DOMAIN r.turns /\ Turns!Answers(r) \ Turns!Declines(r) \subseteq DOMAIN r.turns
    BY DEF Turns!Declines, Turns!Answers
  <2>2. Cardinality(Turns!Declines(r)) \in Nat /\ Cardinality(Turns!Answers(r) \ Turns!Declines(r)) \in Nat
    BY <1>8, <2>1, TurnSetsAreFinite
  <2>3. r.questionCount \in Nat
    BY <1>8 DEF Interviews
  <2>4. PICK a \in Nat : a = Cardinality(Turns!Answers(r) \ Turns!Declines(r))
    BY <2>2
  <2>5. PICK d \in Nat : d = Cardinality(Turns!Declines(r))
    BY <2>2
  <2>6. PICK m \in {"model", "review"} : m = IF useAi /\ ~Turns!ReviewRequired(r) THEN "model" ELSE "review"
    OBVIOUS
  <2>7. e = [done |-> TRUE, recommendation |-> m, asked |-> r.questionCount, answered |-> a, declined |-> d]
    BY <1>9, <2>4, <2>5, <2>6, SameSize
  <2> QED
    BY <2>3, <2>6, <2>7 DEF Evaluations
<1>13. t \in Interviews /\ t.turns = u /\ t.cover = ai.cover /\ t.status = ai.status /\ t.maxQuestions = ai.maxQuestions
       /\ t.questionCount = ai.questionCount /\ t.followUpCount = ai.followUpCount /\ t.closingIndex = ai.closingIndex /\ t.evaluation = e
  BY <1>8, <1>10, <1>12 DEF Interviews, SameCounters
<1>14. ai.status \notin {"not_started", "in_progress"}
  BY DEF Turns!RunFinalization
<1>15. SameWords(ai, t)
  BY <1>2, <1>3, <1>4, <1>13 DEF SameWords
<1>16. /\ Asking(t) = Asking(ai) /\ FreshMust(t) = FreshMust(ai)
       /\ \A K : OfKinds(t, K) = OfKinds(ai, K)
       /\ \A m : TFresh(t, m) <=> TFresh(ai, m)
       /\ ItemsArePut(t)
  BY <1>2, <1>13, <1>15, WordsCount DEF InterviewInv
<1>17. NudgedTurns(t) = NudgedTurns(ai)
  BY <1>2, <1>3, <1>4, <1>13 DEF NudgedTurns
<1>18. FreshArePending(t)
  BY <1>13, <1>16 DEF InterviewInv, FreshArePending
<1>19. BudgetIsReserved(t)
  BY <1>13, <1>14, <1>16 DEF InterviewInv, BudgetIsReserved, Turns!Pending
<1>20. \A i \in DOMAIN t.turns : Turns!IsAi(t.turns[i]) => t.turns[i].kind \in AiKinds
  BY <1>15 DEF SameWords, InterviewInv, TurnsAreCounted, Turns!IsAi
<1>21. TurnsAreCounted(t)
  BY <1>13, <1>16, <1>17, <1>20 DEF InterviewInv, TurnsAreCounted
<1>22. ~Turns!ReviewRequired(r) => t.status = "completed" /\ \A i \in Turns!Answers(t) : t.turns[i].declined # "no_response"
  <2>1. Turns!Answers(t) = Turns!Answers(r)
    BY <1>8, <1>13 DEF Turns!Answers
  <2> QED
    BY <2>1, <1>8, <1>13 DEF Turns!ReviewRequired, SameCounters
<1>23. GapsAreKept(t)
  BY <1>2, <1>3, <1>4, <1>12, <1>13, <1>14, <1>22 DEF GapsAreKept
<1> QED
  BY <1>11, <1>13, <1>16, <1>18, <1>19, <1>21, <1>23 DEF InterviewInv

LEMMA InterviewSteps ==
    ASSUME TurnBounds, InterviewInv(ai), [Turns!Next]_(Turns!vars)
    PROVE  InterviewInv(ai')
<1>1. \/ Turns!Begin \/ Turns!Speak \/ Turns!SideExchange
      \/ Turns!Away \/ (\E status \in Endings : Turns!End(status))
      \/ Turns!RunFinalization \/ UNCHANGED Turns!vars
  BY DEF Turns!Next
<1>2. CASE UNCHANGED Turns!vars
  <2>1. ai' = ai
    BY <1>2 DEF Turns!vars
  <2> QED
    BY <2>1
<1> QED
  BY <1>1, <1>2, BeginKeeps, SpeakKeeps, SideExchangeKeeps, EndKeeps, FinalizationKeeps

\* What the interviewer says beside its replies is paid for by one of the allowances.
LEMMA SpeechIsPaidFor ==
    ASSUME TurnBounds, NEW s \in Interviews, InterviewInv(s)
    PROVE  Cardinality({i \in DOMAIN s.turns : Turns!IsAi(s.turns[i]) /\ s.turns[i].kind # "side_reply"})
             <= 2 + 2 * (s.maxQuestions + MaxFollowUps) + ClosingLength + 1
<1> DEFINE A == Asking(s)
           B == OfKinds(s, {"nudge"})
           C == OfKinds(s, {"intro", "warmup"})
           D == OfKinds(s, {"capstone"})
           E == OfKinds(s, {"closing"})
           T == {i \in DOMAIN s.turns : Turns!IsAi(s.turns[i]) /\ s.turns[i].kind # "side_reply"}
<1>1. A \subseteq DOMAIN s.turns /\ B \subseteq DOMAIN s.turns /\ C \subseteq DOMAIN s.turns /\ D \subseteq DOMAIN s.turns
      /\ E \subseteq DOMAIN s.turns /\ T \subseteq DOMAIN s.turns /\ NudgedTurns(s) \subseteq DOMAIN s.turns
  BY DEF Asking, OfKinds, NudgedTurns
<1>2. T \subseteq A \cup (B \cup (C \cup (D \cup E)))
  BY DEF Asking, OfKinds, InterviewInv, TurnsAreCounted, AiKinds
<1>3. /\ Cardinality(NudgedTurns(s)) <= Cardinality(A) /\ Cardinality(NudgedTurns(s)) \in Nat /\ Cardinality(A) \in Nat
  BY <1>1, TurnSetsAreFinite, FS_Subset DEF InterviewInv, TurnsAreCounted
<1>4. Cardinality(A) = s.questionCount + s.followUpCount /\ s.followUpCount <= MaxFollowUps /\ s.questionCount <= s.maxQuestions
      /\ s.questionCount \in Nat /\ s.followUpCount \in Nat /\ s.maxQuestions \in Nat /\ MaxFollowUps \in Nat /\ ClosingLength \in Nat
      /\ s.closingIndex \in Nat /\ s.closingIndex <= ClosingLength
  <2>1. s.questionCount <= s.maxQuestions
    <3>1. Cardinality(FreshMust(s)) \in Nat
      BY MustIsFinite DEF FreshMust
    <3> QED
      BY <3>1 DEF InterviewInv, BudgetIsReserved, Interviews
  <2> QED
    BY <2>1 DEF InterviewInv, TurnsAreCounted, TurnBounds, Interviews
<1>5. Cardinality(B) <= Cardinality(A) /\ Cardinality(C) <= 2 /\ Cardinality(D) <= ClosingLength /\ Cardinality(E) <= 1
      /\ Cardinality(B) \in Nat /\ Cardinality(C) \in Nat /\ Cardinality(D) \in Nat /\ Cardinality(E) \in Nat
  <2>1. Cardinality(B) \in Nat /\ Cardinality(C) \in Nat /\ Cardinality(D) \in Nat /\ Cardinality(E) \in Nat
    BY <1>1, TurnSetsAreFinite
  <2> QED
    BY <2>1, <1>3, <1>4 DEF InterviewInv, TurnsAreCounted
<1>6. IsFiniteSet(A) /\ IsFiniteSet(B) /\ IsFiniteSet(C) /\ IsFiniteSet(D) /\ IsFiniteSet(E)
  BY <1>1, TurnSetsAreFinite
<1> HIDE DEF A, B, C, D, E, T
<1>7. IsFiniteSet(D \cup E) /\ Cardinality(D \cup E) <= ClosingLength + 1 /\ Cardinality(D \cup E) \in Nat
  <2>1. Cardinality(D \cup E) \in Nat /\ Cardinality(D \cap E) \in Nat /\ Cardinality(D \cup E) = Cardinality(D) + Cardinality(E) - Cardinality(D \cap E)
    BY <1>6, FS_Union, FS_Intersection, FS_CardinalityType
  <2> QED
    BY <2>1, <1>4, <1>5, <1>6, FS_Union
<1>8. IsFiniteSet(C \cup (D \cup E)) /\ Cardinality(C \cup (D \cup E)) <= ClosingLength + 3 /\ Cardinality(C \cup (D \cup E)) \in Nat
  <2>1. Cardinality(C \cup (D \cup E)) \in Nat /\ Cardinality(C \cap (D \cup E)) \in Nat
        /\ Cardinality(C \cup (D \cup E)) = Cardinality(C) + Cardinality(D \cup E) - Cardinality(C \cap (D \cup E))
    BY <1>6, <1>7, FS_Union, FS_Intersection, FS_CardinalityType
  <2> QED
    BY <2>1, <1>4, <1>5, <1>6, <1>7, FS_Union
<1>9. IsFiniteSet(B \cup (C \cup (D \cup E))) /\ Cardinality(B \cup (C \cup (D \cup E))) <= Cardinality(A) + ClosingLength + 3
      /\ Cardinality(B \cup (C \cup (D \cup E))) \in Nat
  <2>1. Cardinality(B \cup (C \cup (D \cup E))) \in Nat /\ Cardinality(B \cap (C \cup (D \cup E))) \in Nat
        /\ Cardinality(B \cup (C \cup (D \cup E))) = Cardinality(B) + Cardinality(C \cup (D \cup E)) - Cardinality(B \cap (C \cup (D \cup E)))
    BY <1>6, <1>8, FS_Union, FS_Intersection, FS_CardinalityType
  <2>2. Cardinality(B \cup (C \cup (D \cup E))) <= Cardinality(A) + ClosingLength + 3
    BY <2>1, <1>3, <1>4, <1>5, <1>8
  <2> QED
    BY <2>1, <2>2, <1>6, <1>8, FS_Union
<1>10. LET U == A \cup (B \cup (C \cup (D \cup E))) IN IsFiniteSet(U) /\ Cardinality(U) <= 2 * Cardinality(A) + ClosingLength + 3 /\ Cardinality(U) \in Nat
  <2> DEFINE V == B \cup (C \cup (D \cup E))
  <2> HIDE DEF V
  <2>0. IsFiniteSet(V) /\ Cardinality(V) <= Cardinality(A) + ClosingLength + 3 /\ Cardinality(V) \in Nat
    BY <1>9 DEF V
  <2>1. Cardinality(A \cup V) \in Nat /\ Cardinality(A \cap V) \in Nat
        /\ Cardinality(A \cup V) = Cardinality(A) + Cardinality(V) - Cardinality(A \cap V)
    BY <1>6, <2>0, FS_Union, FS_Intersection, FS_CardinalityType
  <2>2. Cardinality(A \cup V) <= 2 * Cardinality(A) + ClosingLength + 3
    BY <2>0, <2>1, <1>3, <1>4
  <2> QED
    BY <2>0, <2>1, <2>2, <1>6, FS_Union DEF V
<1>11. Cardinality(T) <= Cardinality(A \cup (B \cup (C \cup (D \cup E)))) /\ Cardinality(T) \in Nat
  BY <1>2, <1>10, FS_Subset, FS_CardinalityType
<1>12. 2 * Cardinality(A) + ClosingLength + 3 <= 2 + 2 * (s.maxQuestions + MaxFollowUps) + ClosingLength + 1
  BY <1>3, <1>4
<1>13. Cardinality(T) <= 2 + 2 * (s.maxQuestions + MaxFollowUps) + ClosingLength + 1
  BY <1>3, <1>4, <1>10, <1>11, <1>12
<1> QED
  BY <1>13 DEF T

(* A turn, a count and a status stay what the document declares: the transcript
   of an interview is a list of turns of one of the two parties, whatever is
   asked, answered, declined or talked over (InterviewSession.aiInterview).  *)
THEOREM InterviewIsTyped ==
    ASSUME TurnBounds
    PROVE  Turns!Spec => []Turns!TypeOK
<1> DEFINE I == InterviewInv(ai)
<1>1. Turns!Init => I
  BY InterviewBegins
<1>2. I /\ [Turns!Next]_(Turns!vars) => I'
  BY InterviewSteps
<1>3. I => Turns!TypeOK
  <2> SUFFICES ASSUME I PROVE Turns!TypeOK
    OBVIOUS
  <2>1. ai \in Interviews /\ ai.followUpCount <= MaxFollowUps /\ ai.closingIndex <= ClosingLength
    BY DEF InterviewInv, TurnsAreCounted
  <2>2. ai.followUpCount \in 0 .. MaxFollowUps /\ ai.closingIndex \in 0 .. ClosingLength
    BY <2>1 DEF Interviews, TurnBounds
  <2>3. \A i \in DOMAIN ai.turns : ai.turns[i] \in SpokenTurns
    BY <2>1 DEF Interviews
  <2>4. \A i \in DOMAIN ai.turns : ai.turns[i].role \in {"ai", "candidate"} /\ ai.turns[i].item \in Turns!Items \cup {NoItem}
    BY <2>3 DEF SpokenTurns
  <2> QED
    BY <2>1, <2>2, <2>4 DEF Interviews, Turns!TypeOK
<1> QED
  BY <1>1, <1>2, <1>3, PTL DEF Turns!Spec

(* The recruiter's instrument is run: an interview that came to its end put
   every approved question, and never asked more than its budget, whatever was
   nudged, followed up, declined or talked over (chooseMustAsk, nextQuestion,
   deliverClosingOrComplete).                                                *)
THEOREM InterviewsAreRun ==
    ASSUME TurnBounds
    PROVE  Turns!Spec => [](Turns!InstrumentIsRun /\ (ai.status = "completed" => FreshMust(ai) = {}))
<1> DEFINE I == InterviewInv(ai)
           P == Turns!InstrumentIsRun /\ (ai.status = "completed" => FreshMust(ai) = {})
<1>1. Turns!Init => I
  BY InterviewBegins
<1>2. I /\ [Turns!Next]_(Turns!vars) => I'
  BY InterviewSteps
<1>3. I => P
  <2> SUFFICES ASSUME I PROVE P
    OBVIOUS
  <2>1. ai.questionCount <= ai.maxQuestions
    <3>1. Cardinality(FreshMust(ai)) \in Nat
      BY MustIsFinite DEF FreshMust
    <3> QED
      BY <3>1 DEF InterviewInv, BudgetIsReserved, Interviews
  <2>2. ai.status = "completed" => Turns!Pending(ai, Must) = {}
    BY DEF InterviewInv, BudgetIsReserved
  <2>3. ai.status = "completed" => FreshMust(ai) = {}
    BY <2>2 DEF InterviewInv, FreshArePending, FreshMust, Turns!Pending
  <2> QED
    BY <2>1, <2>2, <2>3 DEF Turns!InstrumentIsRun
<1> QED
  BY <1>1, <1>2, <1>3, PTL DEF Turns!Spec

(* A question the candidate declined or met with silence carries no score, and
   an interview with a hole in it gets no automated recommendation
   (scoreUnscoredAnswers, reviewRequiredReason).                             *)
THEOREM GapsStayUnscored ==
    ASSUME TurnBounds
    PROVE  Turns!Spec => []Turns!GapsAreNotScored
<1> DEFINE I == InterviewInv(ai)
<1>1. Turns!Init => I
  BY InterviewBegins
<1>2. I /\ [Turns!Next]_(Turns!vars) => I'
  BY InterviewSteps
<1>3. I => Turns!GapsAreNotScored
  BY DEF InterviewInv, GapsAreKept, Turns!GapsAreNotScored
<1> QED
  BY <1>1, <1>2, <1>3, PTL DEF Turns!Spec

(* Whatever the candidate replies, what the interviewer says is bounded by the
   questions, the follow-ups, the closing sequence and one nudge for each
   question (advance).                                                       *)
THEOREM InterviewsAreBounded ==
    ASSUME TurnBounds
    PROVE  Turns!Spec => []Turns!InterviewIsBounded
<1> DEFINE I == InterviewInv(ai)
<1>1. Turns!Init => I
  BY InterviewBegins
<1>2. I /\ [Turns!Next]_(Turns!vars) => I'
  BY InterviewSteps
<1>3. I => Turns!InterviewIsBounded
  BY SpeechIsPaidFor, SameSize DEF Turns!InterviewIsBounded, Turns!Budget, InterviewInv
<1> QED
  BY <1>1, <1>2, <1>3, PTL DEF Turns!Spec

(* An interview is run as it was approved: its instrument is run, its gaps are
   not scored and it comes to its end (aiInterviewService.js).               *)
THEOREM InterviewsAreConducted == ASSUME TurnBounds PROVE Turns!Spec => []Turns!InterviewIsRun
<1>1. Turns!InstrumentIsRun /\ Turns!GapsAreNotScored /\ Turns!InterviewIsBounded => Turns!InterviewIsRun
  BY DEF Turns!InterviewIsRun
<1> QED
  BY <1>1, InterviewsAreRun, GapsStayUnscored, InterviewsAreBounded, PTL

=============================================================================
