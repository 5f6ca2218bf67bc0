----------------------- MODULE AssessmentSessionProofs -----------------------
(***************************************************************************)
(* Type correctness of AssessmentSession, what its version discipline      *)
(* guarantees whatever requests overlap, and what it guarantees while they *)
(* do not: it implements AssessmentPromise, its sitting is exact and work  *)
(* in progress is respected - for every paper, every set of operations,    *)
(* every limit, and with handlers that die between two saves.              *)
(***************************************************************************)
EXTENDS AssessmentSession, SequenceTheorems, FiniteSetTheorems, WellFoundedInduction, TLAPS

Working == {"resume", "handle", "softlock"}

\* A pause recorded in a document began in the past.
PauseInPast(d) == d.pausedAt = None \/ d.pausedAt <= now

\* A request at work holds a document and a well-formed call.
WorkOK(r) ==
    /\ pc[r] # "idle" => call[r] \in Calls
    /\ pc[r] = "find" => call[r].kind = "cancelStale"
    /\ pc[r] \in Working =>
        /\ local[r] \in Documents
        /\ PauseInPast(local[r])
        /\ call[r].kind \in {"startSection", "answer", "submitSection"} => call[r].section \in Sections
        /\ call[r].kind = "answer" => call[r].item \in Items /\ call[r].value \in Values

TypeInv ==
    /\ TypeOK
    /\ PauseInPast(doc)
    /\ \A r \in Requests : WorkOK(r)

USE TimeAssumption, PaperAssumption, PolicyAssumption, NoneAssumption

-----------------------------------------------------------------------------
(* Documents computed from documents                                       *)

LEMMA ClosedType ==
    ASSUME NEW d \in Documents, NEW which
    PROVE  Closed(d.sections, which) \in [Sections -> [status : SectionStatuses, startedAt : Times]]
BY DEF Closed, Documents, SectionStatuses

LEMMA ResumedType ==
    ASSUME NEW d \in Documents, PauseInPast(d), now \in Nat
    PROVE  /\ Resumed(d) \in Documents
           /\ Resumed(d).pausedAt = None
<1> DEFINE pausedFor == IF d.pausedAt = None THEN 0 ELSE now - d.pausedAt
           secs == [s \in Sections |->
                IF s \in InProgress(d) /\ d.sections[s].startedAt # None
                THEN [d.sections[s] EXCEPT !.startedAt = @ + pausedFor]
                ELSE d.sections[s]]
<1>1. pausedFor \in Nat
  BY DEF Documents, Times, PauseInPast
<1>2. secs \in [Sections -> [status : SectionStatuses, startedAt : Times]]
  BY <1>1 DEF Documents, Times
<1>3. Resumed(d) = [d EXCEPT !.status = "in_progress", !.pausedAt = None, !.sections = secs]
  BY DEF Resumed
<1> HIDE DEF secs, pausedFor
<1> QED
  BY <1>2, <1>3 DEF Documents, Statuses, Times

\* The first answers of a document stay well formed when one is added.
LEMMA AppendType ==
    ASSUME NEW q \in Responses, NEW e \in [item : Items, value : Values]
    PROVE  Append(q, e) \in Responses
BY DEF Responses

LEMMA EditType ==
    ASSUME NEW q \in Responses, NEW k, NEW e \in [item : Items, value : Values]
    PROVE  [q EXCEPT ![k] = e] \in Responses
<1>1. CASE k \in 1..Len(q)
  BY <1>1, ExceptSeq DEF Responses
<1>2. CASE k \notin 1..Len(q)
  <2>1. q \in [1..Len(q) -> [item : Items, value : Values]]
    BY LenProperties DEF Responses
  <2>2. [q EXCEPT ![k] = e] \in [1..Len(q) -> [item : Items, value : Values]]
    BY <1>2, <2>1
  <2>3. \A j \in 1..Len(q) : [q EXCEPT ![k] = e][j] = q[j]
    BY <1>2, <2>1
  <2>4. [q EXCEPT ![k] = e] = q
    BY <2>1, <2>2, <2>3
  <2> QED
    BY <2>4
<1> QED
  BY <1>1, <1>2

-----------------------------------------------------------------------------
(* The one way a request changes the document                              *)

LEMMA SaveType ==
    ASSUME TypeInv, NEW r \in Requests, NEW d \in Documents, NEW bumps \in BOOLEAN,
           NEW next \in Steps, NEW kept \in Documents \cup {None},
           Save(r, d, bumps, next, kept),
           PauseInPast(d),
           next \in Working => pc[r] \in Working /\ kept \in Documents /\ PauseInPast(kept),
           next = "idle" \/ (next # "find" /\ call[r] \in Calls),
           serves' \in Nat, stage' \in Stages
    PROVE  TypeInv'
<1>1. TypeOK'
  BY DEF TypeInv, TypeOK, Save
<1>2. PauseInPast(doc)'
  BY DEF TypeInv, PauseInPast, Save
<1>3. ASSUME NEW q \in Requests PROVE WorkOK(q)'
  <2>1. CASE q = r
    BY <2>1 DEF TypeInv, TypeOK, WorkOK, PauseInPast, Save, Working
  <2>2. CASE q # r
    BY <2>2 DEF TypeInv, TypeOK, WorkOK, PauseInPast, Save
  <2> QED
    BY <2>1, <2>2
<1> QED
  BY <1>1, <1>2, <1>3 DEF TypeInv

LEMMA GuardedSaveType ==
    ASSUME TypeInv, NEW r \in Requests, NEW d \in Documents,
           NEW next \in Steps, NEW kept \in Documents \cup {None},
           GuardedSave(r, d, next, kept), next # "find",
           PauseInPast(d),
           next \in Working => pc[r] \in Working /\ kept \in Documents /\ PauseInPast(kept),
           call[r] \in Calls,
           UNCHANGED <<serves, stage>>
    PROVE  TypeInv'
<1>1. serves' \in Nat /\ stage' \in Stages /\ doc \in Documents /\ PauseInPast(doc)
  BY DEF TypeInv, TypeOK
<1>2. CASE stale[r]
  <2>1. Save(r, doc, FALSE, "idle", None)
    BY <1>2 DEF GuardedSave, Drop
  <2> QED
    BY <1>1, <2>1, SaveType DEF Steps, Working
<1>3. CASE ~stale[r]
  BY <1>1, <1>3, SaveType DEF GuardedSave
<1> QED
  BY <1>2, <1>3

LEMMA ElementSaveType ==
    ASSUME TypeInv, NEW r \in Requests, NEW d \in Documents,
           ElementSave(r, d, "idle", None), PauseInPast(d), call[r] \in Calls,
           UNCHANGED <<serves, stage>>
    PROVE  TypeInv'
<1>1. serves' \in Nat /\ stage' \in Stages /\ doc \in Documents /\ PauseInPast(doc)
  BY DEF TypeInv, TypeOK
<1>2. Save(r, doc, FALSE, "idle", None) \/ Save(r, d, FALSE, "idle", None)
  BY DEF ElementSave, Drop
<1> QED
  BY <1>1, <1>2, SaveType DEF Steps, Working

LEMMA DropType ==
    ASSUME TypeInv, NEW r \in Requests, Drop(r), serves' \in Nat, stage' \in Stages
    PROVE  TypeInv'
<1>1. doc \in Documents /\ PauseInPast(doc)
  BY DEF TypeInv, TypeOK
<1> QED
  BY <1>1, SaveType DEF Drop, Steps, Working

LEMMA BeginType ==
    ASSUME TypeInv, NEW r \in Requests, NEW c \in Calls, NEW step \in Working,
           c.kind \in {"startSection", "answer", "submitSection"} => c.section \in Sections,
           c.kind = "answer" => c.item \in Items /\ c.value \in Values,
           Begin(r, c, step)
    PROVE  TypeInv'
<1>1. TypeOK'
  BY DEF TypeInv, TypeOK, Begin, Working, Steps
<1>2. PauseInPast(doc)'
  BY DEF TypeInv, PauseInPast, Begin
<1>3. ASSUME NEW q \in Requests PROVE WorkOK(q)'
  <2>1. CASE q = r
    BY <2>1 DEF TypeInv, TypeOK, WorkOK, PauseInPast, Begin, Working
  <2>2. CASE q # r
    BY <2>2 DEF TypeInv, TypeOK, WorkOK, PauseInPast, Begin
  <2> QED
    BY <2>1, <2>2
<1> QED
  BY <1>1, <1>2, <1>3 DEF TypeInv

-----------------------------------------------------------------------------
(* Every action keeps the type invariant                                   *)

LEMMA LoadTypeInv ==
    ASSUME TypeInv, NEW r \in Requests, Load(r)
    PROVE  TypeInv'
<1> USE DEF Calls, Ask, AllKinds, Portal, Recruiter, Working
<1>1. CASE LoadStart(r)
  <2> DEFINE c == Ask(IF now > doc.startDeadline THEN "lapse" ELSE "start", None, None, None, 0)
  <2>1. c \in Calls /\ c.kind \in {"lapse", "start"}
    OBVIOUS
  <2>2. Begin(r, c, "handle")
    BY <1>1 DEF LoadStart
  <2> HIDE DEF c
  <2> QED
    BY <2>1, <2>2, BeginType
<1>2. CASE LoadSubmit(r)
  BY <1>2, BeginType DEF LoadSubmit, BeginLive
<1>3. CASE LoadExpire(r)
  BY <1>3, BeginType DEF LoadExpire
<1>4. CASE LoadResend(r)
  BY <1>4, BeginType DEF LoadResend
<1>5. CASE LoadCancel(r)
  BY <1>5, BeginType DEF LoadCancel
<1>6. CASE LoadResume(r)
  BY <1>6, BeginType DEF LoadResume
<1>7. CASE LoadEnd(r)
  BY <1>7, BeginType DEF LoadEnd
<1>8. CASE LoadFlags(r, 1)
  BY <1>8, BeginType DEF LoadFlags
<1>9. ASSUME NEW s \in Sections, LoadStartSection(r, s) \/ LoadSubmitSection(r, s)
      PROVE  TypeInv'
  BY <1>9, BeginType DEF LoadStartSection, LoadSubmitSection, BeginLive
<1>10. ASSUME NEW i \in Items, NEW v \in Values, LoadAnswer(r, i, v)
       PROVE  TypeInv'
  <2>1. SectionOf[i] \in Sections
    OBVIOUS
  <2> QED
    BY <1>10, <2>1, BeginType DEF LoadAnswer, BeginLive
<1>11. ASSUME NEW to \in Targets, MoveCandidate(r, to)
       PROVE  TypeInv'
  <2>1. TypeOK'
    BY <1>11 DEF MoveCandidate, TypeInv, TypeOK, Steps, Stages
  <2>2. PauseInPast(doc)'
    BY <1>11 DEF MoveCandidate, TypeInv, PauseInPast
  <2>3. \A q \in Requests : WorkOK(q)'
    BY <1>11 DEF MoveCandidate, TypeInv, TypeOK, WorkOK, PauseInPast
  <2> QED
    BY <2>1, <2>2, <2>3 DEF TypeInv
<1> QED
  BY <1>1, <1>2, <1>3, <1>4, <1>5, <1>6, <1>7, <1>8, <1>9, <1>10, <1>11 DEF Load

\* What the type invariant says of a request at work.
LEMMA AtWork ==
    ASSUME TypeInv, NEW r \in Requests, pc[r] \in Working
    PROVE  /\ doc \in Documents /\ local[r] \in Documents /\ call[r] \in Calls
           /\ PauseInPast(doc) /\ PauseInPast(local[r])
           /\ now \in Nat
           /\ call[r].kind \in {"startSection", "answer", "submitSection"} => call[r].section \in Sections
           /\ call[r].kind = "answer" => call[r].item \in Items /\ call[r].value \in Values
BY DEF TypeInv, TypeOK, WorkOK, Working

\* Rewriting the sections, the responses or the status of a document.
SectionTable == [Sections -> [status : SectionStatuses, startedAt : Times]]

LEMMA SectionsType ==
    ASSUME NEW d \in Documents, PauseInPast(d), NEW secs \in SectionTable
    PROVE  [d EXCEPT !.sections = secs] \in Documents /\ PauseInPast([d EXCEPT !.sections = secs])
BY DEF Documents, PauseInPast, Times, SectionTable

LEMMA ResponsesType ==
    ASSUME NEW d \in Documents, PauseInPast(d), NEW resp \in Responses
    PROVE  [d EXCEPT !.responses = resp] \in Documents /\ PauseInPast([d EXCEPT !.responses = resp])
BY DEF Documents, PauseInPast, Times

LEMMA StatusType ==
    ASSUME NEW d \in Documents, PauseInPast(d), NEW st \in Statuses
    PROVE  [d EXCEPT !.status = st] \in Documents /\ PauseInPast([d EXCEPT !.status = st])
BY DEF Documents, PauseInPast, Times

LEMMA FinalType ==
    ASSUME NEW d \in Documents, PauseInPast(d), NEW secs \in SectionTable,
           NEW resp \in Responses, NEW by \in EndedBy,
           NEW e, e = [d EXCEPT !.status = "completed", !.result = [by |-> by, scored |-> resp],
                                !.sections = secs]
    PROVE  e \in Documents /\ PauseInPast(e)
BY DEF Documents, Results, PauseInPast, Times, Statuses, SectionTable

LEMMA PauseOverType ==
    ASSUME NEW d \in Documents, PauseInPast(d), NEW secs \in SectionTable, NEW st \in Statuses,
           NEW e, e = [d EXCEPT !.status = st, !.pausedAt = None, !.sections = secs]
    PROVE  e \in Documents /\ PauseInPast(e)
BY DEF Documents, PauseInPast, Times, SectionTable

LEMMA FinalizeType ==
    ASSUME TypeInv, NEW r \in Requests, NEW by \in EndedBy, pc[r] \in Working, FinalizeSave(r, by)
    PROVE  TypeInv'
<1> DEFINE d == local[r]
           secs == Closed(d.sections, InProgress(d))
           new == [doc EXCEPT !.status = "completed", !.result = [by |-> by, scored |-> d.responses],
                              !.sections = secs]
<1>1. secs \in [Sections -> [status : SectionStatuses, startedAt : Times]]
  BY AtWork, ClosedType
<1>2. d.responses \in Responses
  BY AtWork DEF Documents
<1>3. new \in Documents /\ PauseInPast(new)
  BY <1>1, <1>2, AtWork, FinalType DEF SectionTable
<1>4. GuardedSave(r, new, "telemetry", None) /\ UNCHANGED <<serves, stage>>
  BY DEF FinalizeSave
<1> HIDE DEF new
<1> QED
  BY <1>3, <1>4, AtWork, GuardedSaveType DEF Steps, Working

LEMMA ResumeSaveType ==
    ASSUME TypeInv, NEW r \in Requests, ResumeSave(r)
    PROVE  TypeInv'
<1> DEFINE d == Resumed(local[r])
           new == [doc EXCEPT !.status = d.status, !.pausedAt = None, !.sections = d.sections]
           last == call[r].kind = "resume"
<1>1. pc[r] \in Working
  BY DEF ResumeSave, Working
<1>2. d \in Documents /\ d.pausedAt = None
  BY <1>1, AtWork, ResumedType
<1>3. new \in Documents /\ PauseInPast(new) /\ PauseInPast(d)
  <2>1. d.sections \in [Sections -> [status : SectionStatuses, startedAt : Times]] /\ d.status \in Statuses
    BY <1>2 DEF Documents
  <2> QED
    BY <1>1, <1>2, <2>1, AtWork, PauseOverType DEF PauseInPast, SectionTable
<1>4. GuardedSave(r, new, IF last THEN "idle" ELSE "handle", IF last THEN None ELSE d)
      /\ UNCHANGED <<serves, stage>>
  BY DEF ResumeSave
<1> HIDE DEF d, new, last
<1>5. (IF last THEN "idle" ELSE "handle") \in Steps /\ (IF last THEN None ELSE d) \in Documents \cup {None}
  BY <1>2 DEF Steps
<1>6. (IF last THEN "idle" ELSE "handle") \in Working
        => pc[r] \in Working /\ (IF last THEN None ELSE d) \in Documents /\ PauseInPast(IF last THEN None ELSE d)
  BY <1>1, <1>2, <1>3 DEF Working
<1> QED
  BY <1>1, <1>3, <1>4, <1>5, <1>6, AtWork, GuardedSaveType

LEMMA StartSectionSaveType ==
    ASSUME TypeInv, NEW r \in Requests, StartSectionSave(r)
    PROVE  TypeInv'
<1> DEFINE d == local[r]
           s == call[r].section
           others == InProgress(d) \ {s}
           opens == d.sections[s].status = "not_started"
           secs == Closed(d.sections, others \cup (IF TimeUp(d, s) THEN {s} ELSE {}))
           opened == [status |-> "in_progress", startedAt |-> now]
           closing == IF opens THEN [secs EXCEPT ![s] = opened] ELSE secs
<1> DEFINE Secs == [Sections -> [status : SectionStatuses, startedAt : Times]]
<1>1. pc[r] \in Working /\ s \in Sections /\ d \in Documents /\ now \in Nat /\ call[r] \in Calls
      /\ doc \in Documents /\ PauseInPast(doc)
  BY AtWork DEF StartSectionSave, At, Working
<1>2. opened \in [status : SectionStatuses, startedAt : Times]
  BY <1>1 DEF SectionStatuses, Times
<1>3. secs \in Secs
  BY <1>1, ClosedType
<1>4. closing \in Secs
  BY <1>2, <1>3
<1>5. doc.sections \in Secs
  BY <1>1 DEF Documents
<1>6. [doc.sections EXCEPT ![s] = opened] \in Secs
  BY <1>2, <1>5
<1>7. [doc EXCEPT !.sections = closing] \in Documents /\ PauseInPast([doc EXCEPT !.sections = closing])
  BY <1>1, <1>4, SectionsType DEF SectionTable
<1>8. [doc EXCEPT !.sections[s] = opened] \in Documents /\ PauseInPast([doc EXCEPT !.sections[s] = opened])
  <2>1. [doc EXCEPT !.sections[s] = opened] = [doc EXCEPT !.sections = [doc.sections EXCEPT ![s] = opened]]
    OBVIOUS
  <2> QED
    BY <1>1, <1>6, <2>1, SectionsType DEF SectionTable
<1>9. UNCHANGED <<serves, stage>> /\ serves' \in Nat /\ stage' \in Stages
  BY DEF StartSectionSave, TypeInv, TypeOK
<1>10. \/ GuardedSave(r, [doc EXCEPT !.sections = closing], "idle", None)
       \/ ElementSave(r, [doc EXCEPT !.sections[s] = opened], "idle", None)
       \/ Drop(r)
  BY DEF StartSectionSave
<1> HIDE DEF closing, opened, s, d
<1>11. CASE GuardedSave(r, [doc EXCEPT !.sections = closing], "idle", None)
  BY <1>1, <1>7, <1>9, <1>11, GuardedSaveType DEF Steps, Working
<1>12. CASE ElementSave(r, [doc EXCEPT !.sections[s] = opened], "idle", None)
  BY <1>1, <1>8, <1>9, <1>12, ElementSaveType
<1>13. CASE Drop(r)
  BY <1>9, <1>13, DropType
<1> QED
  BY <1>10, <1>11, <1>12, <1>13

LEMMA AnswerSaveType ==
    ASSUME TypeInv, NEW r \in Requests, AnswerSave(r)
    PROVE  TypeInv'
<1> DEFINE d == local[r]
           c == call[r]
           entry == [item |-> c.item, value |-> c.value]
           edited == [d.responses EXCEPT ![EntryFor(d, c.item)] = entry]
           closed == Closed(d.sections, {c.section})
<1>1. pc[r] \in Working /\ d \in Documents /\ c \in Calls /\ doc \in Documents /\ PauseInPast(doc)
      /\ entry \in [item : Items, value : Values]
  BY AtWork DEF AnswerSave, At, Working
<1>2. [doc EXCEPT !.sections = closed] \in Documents /\ PauseInPast([doc EXCEPT !.sections = closed])
  BY <1>1, ClosedType, SectionsType DEF SectionTable
<1>3. [doc EXCEPT !.responses = edited] \in Documents /\ PauseInPast([doc EXCEPT !.responses = edited])
  <2>1. d.responses \in Responses
    BY <1>1 DEF Documents
  <2>2. edited \in Responses
    BY <1>1, <2>1, EditType
  <2> QED
    BY <1>1, <2>2, ResponsesType
<1>4. /\ [doc EXCEPT !.responses = Append(doc.responses, entry)] \in Documents
      /\ PauseInPast([doc EXCEPT !.responses = Append(doc.responses, entry)])
  <2>1. doc.responses \in Responses
    BY <1>1 DEF Documents
  <2>2. Append(doc.responses, entry) \in Responses
    BY <1>1, <2>1, AppendType
  <2> QED
    BY <1>1, <2>2, ResponsesType
<1>5. UNCHANGED <<serves, stage>> /\ serves' \in Nat /\ stage' \in Stages
  BY DEF AnswerSave, TypeInv, TypeOK
<1>6. \/ Drop(r)
      \/ GuardedSave(r, [doc EXCEPT !.sections = closed], "idle", None)
      \/ GuardedSave(r, [doc EXCEPT !.responses = edited], "idle", None)
      \/ Save(r, [doc EXCEPT !.responses = Append(doc.responses, entry)], TRUE, "idle", None)
  BY DEF AnswerSave, OpenSave
<1> HIDE DEF closed, edited, entry, c, d
<1>7. CASE Drop(r)
  BY <1>5, <1>7, DropType
<1>8. CASE GuardedSave(r, [doc EXCEPT !.sections = closed], "idle", None)
  BY <1>1, <1>2, <1>5, <1>8, AtWork, GuardedSaveType DEF Steps, Working
<1>9. CASE GuardedSave(r, [doc EXCEPT !.responses = edited], "idle", None)
  BY <1>1, <1>3, <1>5, <1>9, AtWork, GuardedSaveType DEF Steps, Working
<1>10. CASE Save(r, [doc EXCEPT !.responses = Append(doc.responses, entry)], TRUE, "idle", None)
  BY <1>1, <1>4, <1>5, <1>10, SaveType DEF Steps, Working
<1> QED
  BY <1>6, <1>7, <1>8, <1>9, <1>10

LEMMA StartSaveType ==
    ASSUME TypeInv, NEW r \in Requests, StartSave(r)
    PROVE  TypeInv'
<1> DEFINE blank == [s \in Sections |-> NotStarted]
           new == [doc EXCEPT !.status = "in_progress", !.started = TRUE, !.sections = blank]
<1>1. pc[r] \in Working
  BY DEF StartSave, At, Working
<1>2. blank \in SectionTable
  BY DEF SectionTable, NotStarted, SectionStatuses, Times
<1>3. GuardedSave(r, new, "idle", None) /\ UNCHANGED <<serves, stage>>
  BY DEF StartSave
<1>4. new \in Documents /\ PauseInPast(new)
  BY <1>1, <1>2, AtWork DEF Documents, Statuses, PauseInPast, SectionTable
<1> HIDE DEF new
<1> QED
  BY <1>1, <1>3, <1>4, AtWork, GuardedSaveType DEF Steps, Working

\* Requests that only set the session's status.
LEMMA StatusSaveType ==
    ASSUME TypeInv, NEW r \in Requests, LapseSave(r) \/ CancelSave(r) \/ ExpireSave(r)
    PROVE  TypeInv'
<1>1. pc[r] \in Working /\ doc \in Documents /\ PauseInPast(doc) /\ serves \in Nat /\ stage \in Stages
  BY DEF LapseSave, CancelSave, ExpireSave, At, Working, TypeInv, TypeOK
<1>2. ASSUME NEW st \in Statuses PROVE [doc EXCEPT !.status = st] \in Documents /\ PauseInPast([doc EXCEPT !.status = st])
  BY <1>1, StatusType
<1>3. CASE LapseSave(r)
  <2> DEFINE new == IF local[r].status = "expired" THEN doc ELSE [doc EXCEPT !.status = "expired"]
  <2>1. new \in Documents /\ PauseInPast(new)
    BY <1>1, <1>2 DEF Statuses
  <2>2. Save(r, new, FALSE, "idle", None) /\ UNCHANGED <<serves, stage>>
    BY <1>3 DEF LapseSave, OpenSave
  <2> HIDE DEF new
  <2> QED
    BY <1>1, <2>1, <2>2, SaveType DEF Steps, Working
<1>4. CASE CancelSave(r)
  <2>1. Save(r, [doc EXCEPT !.status = "cancelled"], FALSE, "idle", None) /\ UNCHANGED <<serves, stage>>
    BY <1>4 DEF CancelSave, OpenSave
  <2> QED
    BY <1>1, <1>2, <2>1, SaveType DEF Steps, Working, Statuses
<1>5. CASE ExpireSave(r)
  <2>1. CASE FinalizeSave(r, "expiry")
    BY <1>1, <2>1, FinalizeType DEF EndedBy
  <2>2. CASE Save(r, [doc EXCEPT !.status = "expired"], FALSE, "idle", None) /\ UNCHANGED <<serves, stage>>
    BY <1>1, <1>2, <2>2, SaveType DEF Steps, Working, Statuses
  <2> QED
    BY <1>5, <2>1, <2>2 DEF ExpireSave, OpenSave
<1> QED
  BY <1>3, <1>4, <1>5

LEMMA SubmitSectionSaveType ==
    ASSUME TypeInv, NEW r \in Requests, SubmitSectionSave(r)
    PROVE  TypeInv'
<1> DEFINE new == [doc EXCEPT !.sections = Closed(local[r].sections, {call[r].section})]
<1>1. pc[r] \in Working /\ serves' \in Nat /\ stage' \in Stages
  BY DEF SubmitSectionSave, At, Working, TypeInv, TypeOK
<1>2. new \in Documents /\ PauseInPast(new)
  BY <1>1, AtWork, ClosedType, SectionsType DEF SectionTable
<1>3. Drop(r) \/ (GuardedSave(r, new, "idle", None) /\ UNCHANGED <<serves, stage>>)
  BY DEF SubmitSectionSave
<1> HIDE DEF new
<1> QED
  BY <1>1, <1>2, <1>3, AtWork, DropType, GuardedSaveType DEF Steps, Working

LEMMA FlagsSaveType ==
    ASSUME TypeInv, NEW r \in Requests, FlagsSave(r)
    PROVE  TypeInv'
<1> DEFINE total == local[r].flags + call[r].n
           seen == IF total > Threshold THEN Threshold ELSE total
           new == [doc EXCEPT !.flags = seen]
           kept == [local[r] EXCEPT !.flags = seen]
<1>1. pc[r] \in Working /\ serves' \in Nat /\ stage' \in Stages
  BY DEF FlagsSave, At, Working, TypeInv, TypeOK
<1>2. seen \in Nat
  BY <1>1, AtWork DEF Documents, Calls
<1>3. Save(r, new, FALSE, "softlock", kept)
  BY DEF FlagsSave, OpenSave
<1> HIDE DEF seen
<1>4. new \in Documents /\ PauseInPast(new) /\ kept \in Documents /\ PauseInPast(kept)
  BY <1>1, <1>2, AtWork DEF Documents, PauseInPast, Times
<1> HIDE DEF new, kept
<1>5. call[r] \in Calls
  BY <1>1, AtWork
<1> QED
  BY <1>1, <1>3, <1>4, <1>5, SaveType DEF Steps, Working

LEMMA SoftLockSaveType ==
    ASSUME TypeInv, NEW r \in Requests, SoftLockSave(r)
    PROVE  TypeInv'
<1> DEFINE new == [doc EXCEPT !.status = "paused", !.pausedAt = now]
<1>1. pc[r] \in Working /\ serves \in Nat /\ stage \in Stages
  BY DEF SoftLockSave, Working, TypeInv, TypeOK
<1>2. new \in Documents /\ PauseInPast(new)
  <2>1. doc \in Documents /\ now \in Nat
    BY <1>1, AtWork
  <2>2. new \in Documents
    BY <2>1 DEF Documents, Times, Statuses
  <2>3. new.pausedAt = now
    BY <2>1 DEF Documents
  <2> QED
    BY <2>1, <2>2, <2>3 DEF PauseInPast
<1>3. CASE Drop(r) /\ UNCHANGED <<serves, stage>>
  BY <1>1, <1>3, DropType
<1>4. CASE FinalizeSave(r, "integrity_violation")
  BY <1>1, <1>4, FinalizeType DEF EndedBy
<1>5. CASE Save(r, new, FALSE, "idle", None) /\ UNCHANGED <<serves, stage>>
  <2> HIDE DEF new
  <2> QED
    BY <1>1, <1>2, <1>5, SaveType DEF Steps, Working
<1> QED
  BY <1>3, <1>4, <1>5 DEF SoftLockSave, OpenSave

LEMMA ResendSaveType ==
    ASSUME TypeInv, NEW r \in Requests, ResendSave(r)
    PROVE  TypeInv'
<1> DEFINE status == IF local[r].started THEN "in_progress" ELSE "scheduled"
           st == IF local[r].status \in {"expired", "cancelled"} THEN status ELSE doc.status
           new == [doc EXCEPT !.startDeadline = now + Validity, !.expiresAt = now + Validity,
                              !.status = st]
<1>1. pc[r] \in Working /\ serves' \in Nat /\ stage' \in Stages
  BY DEF ResendSave, At, Working, TypeInv, TypeOK
<1>2. st \in Statuses /\ now + Validity \in Nat
  BY <1>1, AtWork DEF Documents, Statuses
<1>3. Save(r, new, FALSE, "idle", None) \/ Drop(r)
  BY DEF ResendSave, OpenSave
<1> HIDE DEF st
<1>4. new \in Documents /\ PauseInPast(new)
  BY <1>1, <1>2, AtWork DEF Documents, PauseInPast, Times
<1> HIDE DEF new
<1> QED
  BY <1>1, <1>3, <1>4, SaveType, DropType DEF Steps, Working

LEMMA FindStaleType ==
    ASSUME TypeInv, NEW r \in Requests, FindStale(r)
    PROVE  TypeInv'
<1>1. serves' \in Nat /\ stage' \in Stages /\ pc[r] = "find"
  BY DEF FindStale, TypeInv, TypeOK
<1>2. CASE doc.status \in Live /\ ~doc.started
  <2>1. TypeOK'
    <3>1. pc' \in [Requests -> Steps]
      BY <1>2 DEF FindStale, TypeInv, TypeOK, Steps
    <3>2. local' \in [Requests -> Documents \cup {None}] /\ stale' \in [Requests -> BOOLEAN]
      <4>1. local' = [local EXCEPT ![r] = doc] /\ stale' = [stale EXCEPT ![r] = FALSE]
        BY <1>2 DEF FindStale
      <4>2. doc \in Documents /\ local \in [Requests -> Documents \cup {None}]
            /\ stale \in [Requests -> BOOLEAN]
        BY DEF TypeInv, TypeOK
      <4> QED
        BY <4>1, <4>2
    <3> QED
      BY <1>2, <3>1, <3>2 DEF FindStale, TypeInv, TypeOK
  <2>2. PauseInPast(doc)'
    BY <1>2 DEF FindStale, TypeInv, PauseInPast
  <2>3. ASSUME NEW q \in Requests PROVE WorkOK(q)'
    <3>1. CASE q = r
      BY <1>2, <3>1 DEF FindStale, TypeInv, TypeOK, WorkOK, PauseInPast, Working
    <3>2. CASE q # r
      BY <1>2, <3>2 DEF FindStale, TypeInv, TypeOK, WorkOK, PauseInPast, Working
    <3> QED
      BY <3>1, <3>2
  <2> QED
    BY <2>1, <2>2, <2>3 DEF TypeInv
<1>3. CASE ~(doc.status \in Live /\ ~doc.started)
  BY <1>1, <1>3, DropType DEF FindStale
<1> QED
  BY <1>2, <1>3

LEMMA AfterwardsType ==
    ASSUME TypeInv, NEW r \in Requests, Telemetry(r) \/ Advance(r) \/ Fail(r)
    PROVE  TypeInv'
<1>1. serves \in Nat /\ stage \in Stages /\ doc \in Documents /\ PauseInPast(doc)
      /\ (pc[r] # "idle" => call[r] \in Calls)
  BY DEF TypeInv, TypeOK, WorkOK
<1>2. CASE Telemetry(r)
  <2>1. Save(r, doc, FALSE, "advance", None) /\ pc[r] # "idle" /\ stage' = stage
    BY <1>2 DEF Telemetry
  <2>2. serves' = (IF serves < 2 THEN serves + 1 ELSE serves) \/ serves' = serves
    BY <1>2 DEF Telemetry
  <2>3. serves' \in Nat
    BY <1>1, <2>2
  <2> QED
    BY <1>1, <2>1, <2>3, SaveType DEF Steps, Working
<1>3. CASE Advance(r)
  BY <1>1, <1>3, DropType DEF Advance, Stages
<1>4. CASE Fail(r)
  BY <1>1, <1>4, DropType DEF Fail
<1> QED
  BY <1>2, <1>3, <1>4

LEMMA TickType ==
    ASSUME TypeInv, Tick
    PROVE  TypeInv'
<1>1. now' \in Nat /\ now' = now + 1 /\ now \in Nat
  BY DEF Tick, TypeInv, TypeOK
<1>2. TypeOK'
  BY <1>1 DEF Tick, TypeInv, TypeOK
<1>3. ASSUME NEW d \in Documents, PauseInPast(d) PROVE d.pausedAt = None \/ d.pausedAt <= now'
  BY <1>1, <1>3 DEF PauseInPast, Documents, Times
<1>4. PauseInPast(doc)'
  BY <1>3 DEF Tick, TypeInv, TypeOK, PauseInPast
<1>5. ASSUME NEW q \in Requests PROVE WorkOK(q)'
  BY <1>3 DEF Tick, TypeInv, TypeOK, WorkOK, PauseInPast
<1> QED
  BY <1>2, <1>4, <1>5 DEF TypeInv

LEMMA TypeInvInit == Init => TypeInv
<1> SUFFICES ASSUME Init PROVE TypeInv
  OBVIOUS
<1>1. doc \in Documents
  BY EmptySeq DEF Init, Invitation, Documents, NotStarted, Statuses, SectionStatuses, Times, Responses
<1>2. TypeOK
  BY <1>1 DEF Init, TypeOK, Stages, Steps
<1> QED
  BY <1>2 DEF Init, TypeInv, WorkOK, PauseInPast, Invitation, Working

LEMMA TypeInvNext ==
    ASSUME TypeInv, [Next]_vars
    PROVE  TypeInv'
<1>1. CASE Tick
  BY <1>1, TickType
<1>2. ASSUME NEW r \in Requests, Load(r) PROVE TypeInv'
  BY <1>2, LoadTypeInv
<1>3. ASSUME NEW r \in Requests, Proceed(r) PROVE TypeInv'
  <2>1. CASE SubmitSave(r) \/ EndSave(r)
    <3>1. pc[r] \in Working
      BY <2>1 DEF SubmitSave, EndSave, At, Working
    <3> QED
      BY <2>1, <3>1, FinalizeType DEF SubmitSave, EndSave, EndedBy
  <2> QED
    BY <1>3, <2>1, FindStaleType, ResumeSaveType, StartSaveType, StatusSaveType, StartSectionSaveType,
       AnswerSaveType, SubmitSectionSaveType, FlagsSaveType, SoftLockSaveType, ResendSaveType,
       AfterwardsType DEF Proceed
<1>4. ASSUME NEW r \in Requests, Fail(r) PROVE TypeInv'
  BY <1>4, AfterwardsType
<1>5. CASE UNCHANGED vars
  <2>1. TypeOK'
    BY <1>5 DEF vars, TypeInv, TypeOK
  <2>2. PauseInPast(doc)' /\ \A r \in Requests : WorkOK(r)'
    BY <1>5 DEF vars, TypeInv, PauseInPast, WorkOK
  <2> QED
    BY <2>1, <2>2 DEF TypeInv
<1> QED
  BY <1>1, <1>2, <1>3, <1>4, <1>5 DEF Next

LEMMA TypeInvAlways == Spec => []TypeInv
BY TypeInvInit, TypeInvNext, PTL DEF Spec

\* Documents, copies and calls keep the shape of the schema, whatever requests
\* overlap, and no pause lies in the future of the clock that will end it.
THEOREM TypeCorrect == Spec => []TypeOK
<1>1. TypeInv => TypeOK
  BY DEF TypeInv
<1> QED
  BY <1>1, TypeInvAlways, PTL

-----------------------------------------------------------------------------
(* What a copy can be trusted for                                          *)
(*                                                                         *)
(* Neither property below is inductive: a save is made from a copy, so the *)
(* argument is about copies.  While the version has not moved, a copy has  *)
(* the answers of the stored document and knows every closed section; and  *)
(* a copy in which the attempt was begun means it was begun in the store,  *)
(* which never forgets it.                                                 *)

ClosedIn(d) == {s \in Sections : d.sections[s].status = "completed"}

\* Nothing happened in the sections of an attempt that was not begun.
Blank(d) == ~d.started => \A s \in Sections : d.sections[s].status = "not_started"

SyncOK(r) ==
    pc[r] \in Working =>
        /\ Blank(local[r])
        /\ local[r].started => doc.started
        /\ call[r].kind \in {"startSection", "answer", "submitSection"} => local[r].started
        /\ call[r].kind = "start" => ~local[r].started
        /\ ~stale[r] => local[r].responses = doc.responses /\ ClosedIn(doc) \subseteq ClosedIn(local[r])

SyncInv ==
    /\ Blank(doc)
    /\ \A r \in Requests : SyncOK(r)

\* What every write d keeps of the stored document.
Faithful(d) ==
    /\ Blank(d)
    /\ doc.started => d.started
    /\ ClosedIn(doc) \subseteq ClosedIn(d)
    /\ d.result # doc.result => d.result.scored = doc.responses
    /\ \A i \in Items : Answered(doc, i) => Answered(d, i)

\* What a write that does not move the version must leave alone.
Quiet(d) == d.responses = doc.responses /\ ClosedIn(d) \subseteq ClosedIn(doc)

LEMMA SaveSync ==
    ASSUME TypeInv, SyncInv, NEW r \in Requests, NEW d \in Documents, NEW bumps \in BOOLEAN,
           NEW next \in Steps, NEW kept,
           Save(r, d, bumps, next, kept),
           Faithful(d), bumps \/ Quiet(d),
           next \in Working =>
               /\ pc[r] \in Working
               /\ Blank(kept)
               /\ kept.started = local[r].started
               /\ ~stale[r] => kept.responses = d.responses /\ ClosedIn(d) \subseteq ClosedIn(kept)
    PROVE  SyncInv' /\ Faithful(doc')
<1>1. doc' = d
  BY DEF Save
<1>2. Blank(doc)' /\ Faithful(doc')
  BY <1>1 DEF Faithful, Blank
<1>3. ASSUME NEW q \in Requests, q # r PROVE SyncOK(q)'
  <2> SUFFICES ASSUME pc'[q] \in Working PROVE SyncOK(q)'
    BY DEF SyncOK
  <2>1. pc'[q] = pc[q] /\ local'[q] = local[q] /\ call'[q] = call[q]
    BY <1>3 DEF Save, TypeInv, TypeOK
  <2>2. SyncOK(q) /\ pc[q] \in Working
    BY <2>1 DEF SyncInv
  <2>3. stale'[q] = (stale[q] \/ bumps)
    BY <1>3, <2>2 DEF Save, Working
  <2>4. ~stale'[q] => ~stale[q] /\ Quiet(d)
    BY <2>3
  <2> QED
    BY <1>1, <2>1, <2>2, <2>4 DEF SyncOK, Faithful, Quiet, Blank, ClosedIn
<1>4. SyncOK(r)'
  <2> SUFFICES ASSUME pc'[r] \in Working PROVE SyncOK(r)'
    BY DEF SyncOK
  <2>1. pc'[r] = next /\ local'[r] = kept /\ stale'[r] = (stale[r] /\ next # "idle")
    BY DEF Save, TypeInv, TypeOK
  <2>2. next \in Working /\ pc[r] \in Working
    BY <2>1
  <2>3. call'[r] = call[r] /\ stale'[r] = stale[r]
    BY <2>1, <2>2 DEF Save, Working, TypeInv, TypeOK
  <2>4. SyncOK(r)
    BY DEF SyncInv
  <2> QED
    BY <1>1, <2>1, <2>2, <2>3, <2>4 DEF SyncOK, Faithful, Blank, ClosedIn
<1> QED
  BY <1>2, <1>3, <1>4 DEF SyncInv

LEMMA SameIsFaithful == ASSUME SyncInv PROVE Faithful(doc) /\ Quiet(doc)
BY DEF SyncInv, Faithful, Quiet

LEMMA DropSync ==
    ASSUME TypeInv, SyncInv, NEW r \in Requests, Drop(r)
    PROVE  SyncInv' /\ Faithful(doc')
<1>1. doc \in Documents
  BY DEF TypeInv, TypeOK
<1> QED
  BY <1>1, SameIsFaithful, SaveSync DEF Drop, Steps, Working

\* A refused save keeps everything; one let through may trust its copy.
LEMMA GuardedSaveSync ==
    ASSUME TypeInv, SyncInv, NEW r \in Requests, NEW d \in Documents, NEW next \in Steps, NEW kept,
           GuardedSave(r, d, next, kept),
           ~stale[r] => Faithful(d),
           next \in Working =>
               /\ pc[r] \in Working
               /\ Blank(kept)
               /\ kept.started = local[r].started
               /\ ~stale[r] => kept.responses = d.responses /\ ClosedIn(d) \subseteq ClosedIn(kept)
    PROVE  SyncInv' /\ Faithful(doc')
<1>1. CASE stale[r]
  BY <1>1, DropSync DEF GuardedSave
<1>2. CASE ~stale[r]
  <2>1. Save(r, d, TRUE, next, kept) /\ Faithful(d)
    BY <1>2 DEF GuardedSave
  <2> QED
    BY <2>1, SaveSync
<1> QED
  BY <1>1, <1>2

LEMMA BeginSync ==
    ASSUME TypeInv, SyncInv, NEW r \in Requests, NEW c, NEW step \in Working,
           c.kind \in {"startSection", "answer", "submitSection"} => doc.started,
           c.kind = "start" => ~doc.started,
           Begin(r, c, step)
    PROVE  SyncInv' /\ Faithful(doc')
<1>1. doc' = doc
  BY DEF Begin
<1>2. ASSUME NEW q \in Requests, q # r PROVE SyncOK(q)'
  <2>1. pc'[q] = pc[q] /\ local'[q] = local[q] /\ call'[q] = call[q] /\ stale'[q] = stale[q]
    BY <1>2 DEF Begin, TypeInv, TypeOK
  <2> QED
    BY <1>1, <2>1 DEF SyncInv, SyncOK, Blank, ClosedIn
<1>3. SyncOK(r)'
  <2>1. local'[r] = doc /\ call'[r] = c
    BY DEF Begin, TypeInv, TypeOK
  <2> QED
    BY <1>1, <2>1 DEF SyncInv, SyncOK, Blank, ClosedIn
<1>4. Blank(doc)'
  BY <1>1 DEF SyncInv, Blank
<1> QED
  BY <1>1, <1>2, <1>3, <1>4, SameIsFaithful DEF SyncInv

LEMMA LoadSync ==
    ASSUME TypeInv, SyncInv, NEW r \in Requests, Load(r)
    PROVE  SyncInv' /\ Faithful(doc')
<1> USE DEF Ask, Working
<1>1. CASE LoadStart(r)
  <2> DEFINE c == Ask(IF now > doc.startDeadline THEN "lapse" ELSE "start", None, None, None, 0)
  <2>1. c.kind \in {"lapse", "start"}
    OBVIOUS
  <2>2. Begin(r, c, "handle") /\ ~doc.started
    BY <1>1 DEF LoadStart
  <2> HIDE DEF c
  <2> QED
    BY <2>1, <2>2, BeginSync
<1>2. CASE LoadSubmit(r)
  BY <1>2, BeginSync DEF LoadSubmit, BeginLive
<1>3. CASE LoadExpire(r)
  BY <1>3, BeginSync DEF LoadExpire
<1>4. CASE LoadResend(r)
  BY <1>4, BeginSync DEF LoadResend
<1>5. CASE LoadCancel(r)
  BY <1>5, BeginSync DEF LoadCancel
<1>6. CASE LoadResume(r)
  BY <1>6, BeginSync DEF LoadResume
<1>7. CASE LoadEnd(r)
  BY <1>7, BeginSync DEF LoadEnd
<1>8. CASE LoadFlags(r, 1)
  BY <1>8, BeginSync DEF LoadFlags
<1>9. ASSUME NEW s \in Sections, LoadStartSection(r, s) \/ LoadSubmitSection(r, s)
      PROVE  SyncInv' /\ Faithful(doc')
  BY <1>9, BeginSync DEF LoadStartSection, LoadSubmitSection, BeginLive, GuardLive
<1>10. ASSUME NEW i \in Items, NEW v \in Values, LoadAnswer(r, i, v)
       PROVE  SyncInv' /\ Faithful(doc')
  BY <1>10, BeginSync DEF LoadAnswer, BeginLive, GuardLive
<1>11. ASSUME NEW to \in Targets, MoveCandidate(r, to)
       PROVE  SyncInv' /\ Faithful(doc')
  <2>1. doc' = doc /\ local' = local /\ stale' = stale
    BY <1>11 DEF MoveCandidate
  <2>2. ASSUME NEW q \in Requests PROVE SyncOK(q)'
    BY <1>11, <2>1 DEF MoveCandidate, TypeInv, TypeOK, SyncInv, SyncOK, Blank, ClosedIn
  <2> QED
    BY <2>1, <2>2, SameIsFaithful DEF SyncInv, Blank
<1> QED
  BY <1>1, <1>2, <1>3, <1>4, <1>5, <1>6, <1>7, <1>8, <1>9, <1>10, <1>11 DEF Load

LEMMA FinalizeSync ==
    ASSUME TypeInv, SyncInv, NEW r \in Requests, NEW by \in EndedBy, pc[r] \in Working,
           FinalizeSave(r, by)
    PROVE  SyncInv' /\ Faithful(doc')
<1> DEFINE d == local[r]
           secs == Closed(d.sections, InProgress(d))
           new == [doc EXCEPT !.status = "completed", !.result = [by |-> by, scored |-> d.responses],
                              !.sections = secs]
<1>1. doc \in Documents /\ PauseInPast(doc) /\ d \in Documents /\ SyncOK(r)
  BY AtWork DEF SyncInv
<1>2. secs \in SectionTable /\ d.responses \in Responses
  BY <1>1, ClosedType DEF SectionTable, Documents
<1>3. new \in Documents
  BY <1>1, <1>2, FinalType
<1>4. /\ new.started = doc.started /\ new.sections = secs
      /\ new.result.scored = d.responses /\ new.responses = doc.responses
  BY <1>1 DEF Documents
<1>5. ASSUME ~stale[r] PROVE Faithful(new)
  <2>1. d.responses = doc.responses /\ ClosedIn(doc) \subseteq ClosedIn(d) /\ Blank(d)
        /\ (d.started => doc.started)
    BY <1>1, <1>5 DEF SyncOK
  <2>2. Blank(new)
    BY <1>4, <2>1 DEF Blank, Closed, InProgress
  <2>3. ClosedIn(doc) \subseteq ClosedIn(new)
    BY <1>4, <2>1 DEF ClosedIn, Closed, InProgress
  <2> QED
    BY <1>4, <2>1, <2>2, <2>3 DEF Faithful, Answered
<1>6. GuardedSave(r, new, "telemetry", None)
  BY DEF FinalizeSave
<1> HIDE DEF new
<1> QED
  BY <1>3, <1>5, <1>6, GuardedSaveSync DEF Steps, Working

\* A write that touches neither the sections nor the answers nor the result,
\* and never forgets a start, changes nothing a copy is trusted for.
LEMMA ScalarSync ==
    ASSUME TypeInv, SyncInv, NEW r \in Requests, NEW d \in Documents, Save(r, d, FALSE, "idle", None),
           d.sections = doc.sections, d.responses = doc.responses, d.result = doc.result,
           d.started = doc.started
    PROVE  SyncInv' /\ Faithful(doc')
<1>1. Faithful(d) /\ Quiet(d)
  BY DEF SyncInv, Faithful, Quiet, Blank, ClosedIn, Answered
<1> QED
  BY <1>1, SaveSync DEF Steps, Working

LEMMA ScalarSavesSync ==
    ASSUME TypeInv, SyncInv, NEW r \in Requests,
           LapseSave(r) \/ CancelSave(r) \/ ExpireSave(r) \/ ResendSave(r) \/ SoftLockSave(r)
    PROVE  SyncInv' /\ Faithful(doc')
<1>1. pc[r] \in Working /\ doc \in Documents /\ PauseInPast(doc) /\ now \in Nat
  BY DEF LapseSave, CancelSave, ExpireSave, ResendSave, SoftLockSave, At, Working, TypeInv, TypeOK
<1>2. ASSUME NEW st \in Statuses, Save(r, [doc EXCEPT !.status = st], FALSE, "idle", None)
      PROVE  SyncInv' /\ Faithful(doc')
  <2> DEFINE new == [doc EXCEPT !.status = st]
  <2>1. new \in Documents
    BY <1>1, StatusType
  <2>2. /\ new.sections = doc.sections /\ new.responses = doc.responses
        /\ new.result = doc.result /\ new.started = doc.started
    BY <1>1 DEF Documents
  <2>3. Save(r, new, FALSE, "idle", None)
    BY <1>2
  <2> HIDE DEF new
  <2> QED
    BY <2>1, <2>2, <2>3, ScalarSync
<1>3. CASE Save(r, doc, FALSE, "idle", None)
  BY <1>1, <1>3, ScalarSync
<1>4. CASE LapseSave(r)
  <2>1. Save(r, doc, FALSE, "idle", None) \/ Save(r, [doc EXCEPT !.status = "expired"], FALSE, "idle", None)
    BY <1>4 DEF LapseSave, OpenSave
  <2> QED
    BY <1>2, <1>3, <2>1 DEF Statuses
<1>5. CASE CancelSave(r)
  BY <1>2, <1>5 DEF CancelSave, OpenSave, Statuses
<1>6. CASE ExpireSave(r)
  <2>1. FinalizeSave(r, "expiry") \/ Save(r, [doc EXCEPT !.status = "expired"], FALSE, "idle", None)
    BY <1>6 DEF ExpireSave, OpenSave
  <2>2. CASE FinalizeSave(r, "expiry")
    BY <1>1, <2>2, FinalizeSync DEF EndedBy
  <2> QED
    BY <1>2, <2>1, <2>2 DEF Statuses
<1>7. CASE ResendSave(r)
  <2> DEFINE status == IF local[r].started THEN "in_progress" ELSE "scheduled"
             st == IF local[r].status \in {"expired", "cancelled"} THEN status ELSE doc.status
             new == [doc EXCEPT !.startDeadline = now + Validity, !.expiresAt = now + Validity,
                                !.status = st]
  <2>1. st \in Statuses /\ now + Validity \in Nat
    BY <1>1, AtWork DEF Documents, Statuses
  <2>2. Save(r, new, FALSE, "idle", None) \/ Drop(r)
    BY <1>7 DEF ResendSave, OpenSave
  <2> HIDE DEF st
  <2>3. new \in Documents
    BY <1>1, <2>1 DEF Documents
  <2>4. /\ new.sections = doc.sections /\ new.responses = doc.responses
        /\ new.result = doc.result /\ new.started = doc.started
    BY <1>1 DEF Documents
  <2> HIDE DEF new
  <2> QED
    BY <2>2, <2>3, <2>4, ScalarSync, DropSync
<1>8. CASE SoftLockSave(r)
  <2> DEFINE new == [doc EXCEPT !.status = "paused", !.pausedAt = now]
  <2>1. CASE Drop(r)
    BY <2>1, DropSync
  <2>2. CASE FinalizeSave(r, "integrity_violation")
    BY <1>1, <2>2, FinalizeSync DEF EndedBy
  <2>3. CASE Save(r, new, FALSE, "idle", None)
    <3>1. new \in Documents
      BY <1>1 DEF Documents, Times, Statuses
    <3>2. /\ new.sections = doc.sections /\ new.responses = doc.responses
          /\ new.result = doc.result /\ new.started = doc.started
      BY <1>1 DEF Documents
    <3> HIDE DEF new
    <3> QED
      BY <2>3, <3>1, <3>2, ScalarSync
  <2> QED
    BY <1>8, <2>1, <2>2, <2>3 DEF SoftLockSave, OpenSave
<1> QED
  BY <1>4, <1>5, <1>6, <1>7, <1>8

LEMMA FlagsSaveSync ==
    ASSUME TypeInv, SyncInv, NEW r \in Requests, FlagsSave(r)
    PROVE  SyncInv' /\ Faithful(doc')
<1> DEFINE total == local[r].flags + call[r].n
           seen == IF total > Threshold THEN Threshold ELSE total
           new == [doc EXCEPT !.flags = seen]
           kept == [local[r] EXCEPT !.flags = seen]
<1>1. pc[r] \in Working
  BY DEF FlagsSave, At, Working
<1>2. seen \in Nat /\ doc \in Documents /\ local[r] \in Documents
  BY <1>1, AtWork DEF Documents, Calls
<1>3. Save(r, new, FALSE, "softlock", kept)
  BY DEF FlagsSave, OpenSave
<1> HIDE DEF seen
<1>4. new \in Documents
  BY <1>2 DEF Documents
<1>5. /\ new.sections = doc.sections /\ new.responses = doc.responses
      /\ new.result = doc.result /\ new.started = doc.started
      /\ kept.sections = local[r].sections /\ kept.responses = local[r].responses
      /\ kept.started = local[r].started
  BY <1>2 DEF Documents
<1> HIDE DEF new, kept
<1>6. Faithful(new) /\ Quiet(new)
  BY <1>5 DEF SyncInv, Faithful, Quiet, Blank, ClosedIn, Answered
<1>7. Blank(kept) /\ (~stale[r] => kept.responses = new.responses /\ ClosedIn(new) \subseteq ClosedIn(kept))
  BY <1>1, <1>5 DEF SyncInv, SyncOK, Blank, ClosedIn
<1> QED
  BY <1>1, <1>3, <1>4, <1>5, <1>6, <1>7, SaveSync DEF Steps

LEMMA ResumeSaveSync ==
    ASSUME TypeInv, SyncInv, NEW r \in Requests, ResumeSave(r)
    PROVE  SyncInv' /\ Faithful(doc')
<1> DEFINE d == Resumed(local[r])
           new == [doc EXCEPT !.status = d.status, !.pausedAt = None, !.sections = d.sections]
           last == call[r].kind = "resume"
<1>1. pc[r] \in Working
  BY DEF ResumeSave, Working
<1>2. local[r] \in Documents /\ doc \in Documents /\ PauseInPast(local[r]) /\ PauseInPast(doc)
      /\ now \in Nat /\ SyncOK(r)
  BY <1>1, AtWork DEF SyncInv
<1>3. d \in Documents
  BY <1>2, ResumedType
<1>4. new \in Documents
  <2>1. d.sections \in SectionTable /\ d.status \in Statuses
    BY <1>3 DEF Documents, SectionTable
  <2> QED
    BY <1>2, <2>1, PauseOverType
<1>5. /\ d.started = local[r].started /\ d.responses = local[r].responses
      /\ \A s \in Sections : d.sections[s].status = local[r].sections[s].status
  <2>1. local[r].sections \in SectionTable
    BY <1>2 DEF Documents, SectionTable
  <2> QED
    BY <1>2, <2>1 DEF Resumed, Documents, SectionTable
<1>6. /\ new.started = doc.started /\ new.responses = doc.responses
      /\ new.result = doc.result /\ new.sections = d.sections
  BY <1>2 DEF Documents
<1>7. GuardedSave(r, new, IF last THEN "idle" ELSE "handle", IF last THEN None ELSE d)
  BY DEF ResumeSave
<1> HIDE DEF d, new, last
<1>8. Blank(d) /\ Blank(new)
  BY <1>1, <1>2, <1>5, <1>6 DEF SyncOK, Blank
<1>9. ASSUME ~stale[r]
      PROVE  Faithful(new) /\ d.responses = new.responses /\ ClosedIn(new) \subseteq ClosedIn(d)
  <2>1. ClosedIn(d) = ClosedIn(local[r]) /\ ClosedIn(new) = ClosedIn(d)
    BY <1>5, <1>6 DEF ClosedIn
  <2> QED
    BY <1>1, <1>2, <1>5, <1>6, <1>8, <1>9, <2>1 DEF SyncOK, Faithful, Answered
<1>10. (IF last THEN "idle" ELSE "handle") \in Steps
  BY DEF Steps
<1> QED
  <2>1. CASE last
    BY <1>4, <1>7, <1>9, <2>1, GuardedSaveSync DEF Steps, Working
  <2>2. CASE ~last
    BY <1>1, <1>4, <1>5, <1>7, <1>8, <1>9, <2>2, GuardedSaveSync DEF Steps
  <2> QED
    BY <2>1, <2>2

LEMMA StartSaveSync ==
    ASSUME TypeInv, SyncInv, NEW r \in Requests, StartSave(r)
    PROVE  SyncInv' /\ Faithful(doc')
<1> DEFINE blank == [s \in Sections |-> NotStarted]
           new == [doc EXCEPT !.status = "in_progress", !.started = TRUE, !.sections = blank]
<1>1. pc[r] \in Working /\ call[r].kind = "start"
  BY DEF StartSave, At, Working
<1>2. doc \in Documents
  BY <1>1, AtWork
<1>3. blank \in SectionTable
  BY DEF SectionTable, NotStarted, SectionStatuses, Times
<1>4. new \in Documents
  BY <1>2, <1>3 DEF Documents, Statuses, SectionTable
<1>5. new.started /\ new.result = doc.result /\ new.responses = doc.responses
  BY <1>2 DEF Documents
<1>6. ASSUME ~stale[r] PROVE Faithful(new)
  <2>1. ClosedIn(local[r]) = {} /\ ClosedIn(doc) \subseteq ClosedIn(local[r])
    BY <1>1, <1>6 DEF SyncInv, SyncOK, Blank, ClosedIn
  <2> QED
    BY <1>5, <2>1 DEF Faithful, Blank, Answered
<1>7. GuardedSave(r, new, "idle", None)
  BY DEF StartSave
<1> HIDE DEF new
<1> QED
  BY <1>4, <1>6, <1>7, GuardedSaveSync DEF Steps, Working

\* A guarded rewrite of the sections that closes some of the copy's, once the
\* attempt was begun.
LEMMA SectionsSync ==
    ASSUME TypeInv, SyncInv, NEW r \in Requests, pc[r] \in Working, NEW secs \in SectionTable,
           GuardedSave(r, [doc EXCEPT !.sections = secs], "idle", None),
           local[r].started,
           \A s \in Sections : local[r].sections[s].status = "completed" => secs[s].status = "completed"
    PROVE  SyncInv' /\ Faithful(doc')
<1> DEFINE new == [doc EXCEPT !.sections = secs]
<1>1. doc \in Documents /\ PauseInPast(doc) /\ SyncOK(r)
  BY AtWork DEF SyncInv
<1>2. new \in Documents
  BY <1>1, SectionsType
<1>3. /\ new.started = doc.started /\ new.sections = secs
      /\ new.result = doc.result /\ new.responses = doc.responses
  BY <1>1 DEF Documents
<1>4. ~stale[r] => Faithful(new)
  BY <1>1, <1>3 DEF SyncOK, Faithful, Blank, ClosedIn, Answered
<1>5. GuardedSave(r, new, "idle", None)
  OBVIOUS
<1> HIDE DEF new
<1> QED
  BY <1>2, <1>4, <1>5, GuardedSaveSync DEF Steps, Working

LEMMA StartSectionSaveSync ==
    ASSUME TypeInv, SyncInv, NEW r \in Requests, StartSectionSave(r)
    PROVE  SyncInv' /\ Faithful(doc')
<1> DEFINE d == local[r]
           s == call[r].section
           others == InProgress(d) \ {s}
           opens == d.sections[s].status = "not_started"
           over == d.sections[s].status = "completed"
           secs == Closed(d.sections, others \cup (IF TimeUp(d, s) THEN {s} ELSE {}))
           opened == [status |-> "in_progress", startedAt |-> now]
           closing == IF opens THEN [secs EXCEPT ![s] = opened] ELSE secs
<1>1. pc[r] \in Working /\ s \in Sections /\ d \in Documents /\ now \in Nat
      /\ doc \in Documents /\ SyncOK(r) /\ d.started
  BY AtWork DEF StartSectionSave, At, Working, SyncInv, SyncOK
<1>2. opened \in [status : SectionStatuses, startedAt : Times]
  BY <1>1 DEF SectionStatuses, Times
<1>3. secs \in SectionTable
  BY <1>1, ClosedType DEF SectionTable
<1>4. closing \in SectionTable
  BY <1>2, <1>3 DEF SectionTable
<1>5. \A x \in Sections : d.sections[x].status = "completed" => closing[x].status = "completed"
  <2>1. \A x \in Sections : d.sections[x].status = "completed" => secs[x].status = "completed"
    BY <1>1 DEF Closed, Documents
  <2> HIDE DEF secs
  <2> QED
    BY <1>3, <2>1 DEF SectionTable
<1>6. \/ GuardedSave(r, [doc EXCEPT !.sections = closing], "idle", None)
      \/ opens /\ ElementSave(r, [doc EXCEPT !.sections[s] = opened], "idle", None)
      \/ Drop(r)
  BY DEF StartSectionSave
<1> HIDE DEF closing
<1>7. CASE GuardedSave(r, [doc EXCEPT !.sections = closing], "idle", None)
  BY <1>1, <1>4, <1>5, <1>7, SectionsSync
<1>8. CASE opens /\ ElementSave(r, [doc EXCEPT !.sections[s] = opened], "idle", None)
  <2> DEFINE new == [doc EXCEPT !.sections[s] = opened]
  <2>1. doc.sections \in SectionTable
    BY <1>1 DEF Documents, SectionTable
  <2>2. [doc.sections EXCEPT ![s] = opened] \in SectionTable
    BY <1>2, <2>1 DEF SectionTable
  <2>3. new = [doc EXCEPT !.sections = [doc.sections EXCEPT ![s] = opened]]
    OBVIOUS
  <2>4. new \in Documents
    <3>1. PauseInPast(doc)
      BY DEF TypeInv
    <3> QED
      BY <1>1, <2>2, <2>3, <3>1, SectionsType
  <2>5. /\ new.started = doc.started /\ new.result = doc.result /\ new.responses = doc.responses
        /\ new.sections = [doc.sections EXCEPT ![s] = opened]
    BY <1>1, <2>3 DEF Documents
  <2>6. ElementSave(r, new, "idle", None)
    BY <1>8
  <2> HIDE DEF new
  <2>7. ~stale[r] => Faithful(new) /\ Quiet(new)
    <3>1. doc.started
      BY <1>1 DEF SyncOK
    <3>2. ClosedIn(new) = ClosedIn(doc) \ {s}
      BY <1>1, <2>1, <2>5 DEF ClosedIn, SectionTable
    <3>3. ~stale[r] => s \notin ClosedIn(doc)
      BY <1>1, <1>8 DEF SyncOK, ClosedIn
    <3> QED
      BY <2>5, <3>1, <3>2, <3>3 DEF Faithful, Quiet, Blank, Answered
  <2>8. CASE stale[r]
    BY <2>6, <2>8, DropSync DEF ElementSave
  <2>9. CASE ~stale[r]
    BY <2>4, <2>6, <2>7, <2>9, SaveSync DEF ElementSave, Steps, Working
  <2> QED
    BY <2>8, <2>9
<1>9. CASE Drop(r)
  BY <1>9, DropSync
<1> QED
  BY <1>6, <1>7, <1>8, <1>9

\* The answers of a sequence, of which Answered speaks for a document.
Among(resp, i) == \E k \in 1..Len(resp) : resp[k].item = i

\* Every set of naturals with an element has a smallest one.
LEMMA LeastNatural ==
    ASSUME NEW T, T \subseteq Nat, T # {}
    PROVE  \E x \in T : \A y \in T : x <= y
<1> DEFINE R == OpToRel(<, Nat)
<1>1. PICK x \in T : \A y \in T : ~(<<y, x>> \in R)
  <2>1. IsWellFoundedOn(R, Nat)
    BY NatLessThanWellFounded
  <2> HIDE DEF R
  <2> QED
    BY <2>1, WFMin
<1>2. ASSUME NEW y \in T PROVE x <= y
  <2>1. y \in Nat /\ x \in Nat
    OBVIOUS
  <2>2. <<y, x>> \in Nat \X Nat /\ <<y, x>>[1] = y /\ <<y, x>>[2] = x
    BY <2>1
  <2>3. ~(y < x)
    BY <1>1, <2>2 DEF OpToRel
  <2> QED
    BY <2>1, <2>3
<1> QED
  BY <1>2

\* find() returns an entry for the item when there is one.
LEMMA EntryForIs ==
    ASSUME NEW d \in Documents, NEW i, Answered(d, i)
    PROVE  EntryFor(d, i) \in 1..Len(d.responses) /\ d.responses[EntryFor(d, i)].item = i
<1> DEFINE Hits == {k \in 1..Len(d.responses) : d.responses[k].item = i}
<1>1. Len(d.responses) \in Nat
  BY DEF Documents, Responses
<1>2. Hits \subseteq Nat /\ Hits # {}
  BY <1>1 DEF Answered
<1>3. PICK k \in Hits : \A j \in Hits : k <= j
  <2> HIDE DEF Hits
  <2> QED
    BY <1>2, LeastNatural
<1>4. \A j \in 1..(k - 1) : d.responses[j].item # i
  BY <1>1, <1>3
<1> QED
  BY <1>4 DEF EntryFor

\* An answer edited in place replaces an answer to the same item.
LEMMA EditKeeps ==
    ASSUME NEW d \in Documents, NEW e \in [item : Items, value : Values], Answered(d, e.item)
    PROVE  \A i : Among([d.responses EXCEPT ![EntryFor(d, e.item)] = e], i) <=> Among(d.responses, i)
<1> DEFINE k == EntryFor(d, e.item)
           q == [d.responses EXCEPT ![k] = e]
<1>1. d.responses \in Seq([item : Items, value : Values])
  BY DEF Documents, Responses
<1>2. k \in 1..Len(d.responses) /\ d.responses[k].item = e.item
  BY EntryForIs
<1> HIDE DEF k
<1>3. Len(q) = Len(d.responses) /\ \A j \in 1..Len(d.responses) : q[j] = IF j = k THEN e ELSE d.responses[j]
  BY <1>1, <1>2, ExceptSeq
<1> HIDE DEF q
<1>4. \A j \in 1..Len(d.responses) : q[j].item = d.responses[j].item
  BY <1>2, <1>3
<1>5. \A i : Among(q, i) <=> Among(d.responses, i)
  BY <1>3, <1>4 DEF Among
<1> QED
  BY <1>5 DEF q, k

\* A pushed answer is the only one added.
LEMMA PushKeeps ==
    ASSUME NEW resp \in Responses, NEW e \in [item : Items, value : Values]
    PROVE  \A i : Among(Append(resp, e), i) <=> (Among(resp, i) \/ i = e.item)
<1> DEFINE q == Append(resp, e)
<1>1. Len(q) = Len(resp) + 1 /\ q[Len(resp) + 1] = e /\ \A j \in 1..Len(resp) : q[j] = resp[j]
  BY AppendProperties DEF Responses
<1>2. Len(resp) \in Nat
  BY DEF Responses
<1> HIDE DEF q
<1>3. \A j : j \in 1..Len(q) <=> (j \in 1..Len(resp) \/ j = Len(resp) + 1)
  BY <1>1, <1>2
<1>4. \A i : Among(q, i) <=> (Among(resp, i) \/ i = e.item)
  BY <1>1, <1>3 DEF Among
<1> QED
  BY <1>4 DEF q

\* A guarded rewrite of the answers, or a push of one more.
LEMMA ResponsesSync ==
    ASSUME TypeInv, SyncInv, NEW r \in Requests, pc[r] \in Working, NEW resp \in Responses,
           \/ /\ GuardedSave(r, [doc EXCEPT !.responses = resp], "idle", None)
              /\ ~stale[r] => \A i \in Items : Among(doc.responses, i) => Among(resp, i)
           \/ /\ Save(r, [doc EXCEPT !.responses = resp], TRUE, "idle", None)
              /\ \A i \in Items : Among(doc.responses, i) => Among(resp, i)
    PROVE  SyncInv' /\ Faithful(doc')
<1> DEFINE new == [doc EXCEPT !.responses = resp]
<1>1. doc \in Documents /\ PauseInPast(doc)
  BY AtWork
<1>2. new \in Documents
  BY <1>1, ResponsesType
<1>3. /\ new.started = doc.started /\ new.sections = doc.sections
      /\ new.result = doc.result /\ new.responses = resp
  BY <1>1 DEF Documents
<1>4. (\A i \in Items : Among(doc.responses, i) => Among(resp, i)) => Faithful(new)
  BY <1>3 DEF SyncInv, Faithful, Blank, ClosedIn, Answered, Among
<1>5. \/ GuardedSave(r, new, "idle", None) /\ (~stale[r] => Faithful(new))
      \/ Save(r, new, TRUE, "idle", None) /\ Faithful(new)
  BY <1>4
<1> HIDE DEF new
<1> QED
  BY <1>2, <1>5, GuardedSaveSync, SaveSync DEF Steps, Working

LEMMA AnswerSaveSync ==
    ASSUME TypeInv, SyncInv, NEW r \in Requests, AnswerSave(r)
    PROVE  SyncInv' /\ Faithful(doc')
<1> DEFINE d == local[r]
           c == call[r]
           entry == [item |-> c.item, value |-> c.value]
           edited == [d.responses EXCEPT ![EntryFor(d, c.item)] = entry]
           closed == Closed(d.sections, {c.section})
           pushed == Append(doc.responses, entry)
<1>1. pc[r] \in Working /\ d \in Documents /\ doc \in Documents /\ d.started
      /\ entry \in [item : Items, value : Values]
  BY AtWork DEF AnswerSave, At, Working, SyncInv, SyncOK
<1>2. closed \in SectionTable
  BY <1>1, ClosedType DEF SectionTable
<1>3. \A s \in Sections : d.sections[s].status = "completed" => closed[s].status = "completed"
  BY <1>1 DEF Closed, Documents
<1>4. edited \in Responses /\ pushed \in Responses
  <2>1. d.responses \in Responses /\ doc.responses \in Responses
    BY <1>1 DEF Documents
  <2> QED
    BY <1>1, <2>1, EditType, AppendType
<1>5. \/ Drop(r)
      \/ GuardedSave(r, [doc EXCEPT !.sections = closed], "idle", None)
      \/ Answered(d, c.item) /\ GuardedSave(r, [doc EXCEPT !.responses = edited], "idle", None)
      \/ Save(r, [doc EXCEPT !.responses = pushed], TRUE, "idle", None)
  BY DEF AnswerSave, OpenSave
<1>6. ASSUME Answered(d, c.item), ~stale[r]
      PROVE  \A i \in Items : Among(doc.responses, i) => Among(edited, i)
  <2>1. d.responses = doc.responses
    BY <1>1, <1>6 DEF SyncInv, SyncOK
  <2>2. entry.item = c.item
    OBVIOUS
  <2> HIDE DEF entry
  <2> QED
    BY <1>1, <1>6, <2>1, <2>2, EditKeeps
<1>7. \A i \in Items : Among(doc.responses, i) => Among(pushed, i)
  <2>1. doc.responses \in Responses
    BY <1>1 DEF Documents
  <2> QED
    BY <1>1, <2>1, PushKeeps
<1> HIDE DEF closed, edited, pushed
<1> QED
  BY <1>1, <1>2, <1>3, <1>4, <1>5, <1>6, <1>7, DropSync, SectionsSync, ResponsesSync

LEMMA SubmitSectionSaveSync ==
    ASSUME TypeInv, SyncInv, NEW r \in Requests, SubmitSectionSave(r)
    PROVE  SyncInv' /\ Faithful(doc')
<1> DEFINE secs == Closed(local[r].sections, {call[r].section})
<1>1. pc[r] \in Working /\ local[r] \in Documents /\ local[r].started
  BY AtWork DEF SubmitSectionSave, At, Working, SyncInv, SyncOK
<1>2. secs \in SectionTable
  BY <1>1, ClosedType DEF SectionTable
<1>3. \A s \in Sections : local[r].sections[s].status = "completed" => secs[s].status = "completed"
  BY <1>1 DEF Closed, Documents
<1>4. Drop(r) \/ GuardedSave(r, [doc EXCEPT !.sections = secs], "idle", None)
  BY DEF SubmitSectionSave
<1> HIDE DEF secs
<1> QED
  BY <1>1, <1>2, <1>3, <1>4, DropSync, SectionsSync

LEMMA FindStaleSync ==
    ASSUME TypeInv, SyncInv, NEW r \in Requests, FindStale(r)
    PROVE  SyncInv' /\ Faithful(doc')
<1>1. CASE doc.status \in Live /\ ~doc.started
  <2>1. doc' = doc /\ call' = call
    BY <1>1 DEF FindStale
  <2>2. ASSUME NEW q \in Requests PROVE SyncOK(q)'
    <3>1. CASE q = r
      BY <1>1, <2>1, <3>1 DEF FindStale, TypeInv, TypeOK, WorkOK, SyncInv, SyncOK, Blank, ClosedIn
    <3>2. CASE q # r
      BY <1>1, <2>1, <3>2 DEF FindStale, TypeInv, TypeOK, SyncInv, SyncOK, Blank, ClosedIn
    <3> QED
      BY <3>1, <3>2
  <2> QED
    BY <2>1, <2>2, SameIsFaithful DEF SyncInv, Blank
<1>2. CASE Drop(r)
  BY <1>2, DropSync
<1> QED
  BY <1>1, <1>2 DEF FindStale

LEMMA AfterwardsSync ==
    ASSUME TypeInv, SyncInv, NEW r \in Requests, Telemetry(r) \/ Advance(r) \/ Fail(r)
    PROVE  SyncInv' /\ Faithful(doc')
<1>1. doc \in Documents
  BY DEF TypeInv, TypeOK
<1>2. Drop(r) \/ Save(r, doc, FALSE, "advance", None)
  BY DEF Telemetry, Advance, Fail
<1> QED
  BY <1>1, <1>2, DropSync, SameIsFaithful, SaveSync DEF Steps, Working

LEMMA SyncUnchanged ==
    ASSUME SyncInv, UNCHANGED <<doc, pc, call, local, stale>>
    PROVE  SyncInv' /\ Faithful(doc')
BY SameIsFaithful DEF SyncInv, SyncOK, Blank, ClosedIn

LEMMA SyncNext ==
    ASSUME TypeInv, SyncInv, [Next]_vars
    PROVE  SyncInv' /\ Faithful(doc')
<1>1. CASE Tick
  BY <1>1, SyncUnchanged DEF Tick
<1>2. ASSUME NEW r \in Requests, Load(r) PROVE SyncInv' /\ Faithful(doc')
  BY <1>2, LoadSync
<1>3. ASSUME NEW r \in Requests, Proceed(r) PROVE SyncInv' /\ Faithful(doc')
  <2>1. CASE SubmitSave(r) \/ EndSave(r)
    <3>1. pc[r] \in Working
      BY <2>1 DEF SubmitSave, EndSave, At, Working
    <3> QED
      BY <2>1, <3>1, FinalizeSync DEF SubmitSave, EndSave, EndedBy
  <2> QED
    BY <1>3, <2>1, FindStaleSync, ResumeSaveSync, StartSaveSync, ScalarSavesSync, StartSectionSaveSync,
       AnswerSaveSync, SubmitSectionSaveSync, FlagsSaveSync, AfterwardsSync DEF Proceed
<1>4. ASSUME NEW r \in Requests, Fail(r) PROVE SyncInv' /\ Faithful(doc')
  BY <1>4, AfterwardsSync
<1>5. CASE UNCHANGED vars
  BY <1>5, SyncUnchanged DEF vars
<1> QED
  BY <1>1, <1>2, <1>3, <1>4, <1>5 DEF Next

LEMMA SyncInit == Init => SyncInv
BY DEF Init, Invitation, NotStarted, SyncInv, SyncOK, Blank, Working

\* However requests overlap, a completing save scores exactly the answers
\* stored at that instant: finalizeSession works on an old copy, and the
\* version check refuses it when an answer arrived in between.
THEOREM CompletionScoresWhatIsStored == Spec => ScoresWhatIsStored
<1>1. TypeInv /\ SyncInv /\ [Next]_vars => [doc.result # doc'.result => doc'.result.scored = doc.responses]_vars
  BY SyncNext DEF Faithful
<1>2. TypeInv /\ SyncInv /\ [Next]_vars => SyncInv'
  BY SyncNext
<1> QED
  BY <1>1, <1>2, SyncInit, TypeInvAlways, PTL DEF Spec, ScoresWhatIsStored

\* However requests overlap, a section that was submitted or ran out of time
\* never opens again: startSection's element save is the one that moves no
\* version, and only a copy that knows every closed section passes its check.
THEOREM ClosedSectionsNeverReopen == Spec => ClosedSectionsStayClosed
<1>1. TypeInv /\ SyncInv /\ [Next]_vars =>
        [\A s \in Sections : doc.sections[s].status = "completed" => doc'.sections[s].status = "completed"]_vars
  BY SyncNext DEF Faithful, ClosedIn
<1>2. TypeInv /\ SyncInv /\ [Next]_vars => SyncInv'
  BY SyncNext
<1> QED
  BY <1>1, <1>2, SyncInit, TypeInvAlways, PTL DEF Spec, ClosedSectionsStayClosed

\* However requests overlap, an answer once saved stays saved: a push keeps all
\* others, and an edit, which rewrites the array from the copy, passes the
\* version check only when the copy has every answer stored.
THEOREM AnswersAreKept == Spec => AnswersSurvive
<1>1. TypeInv /\ SyncInv /\ [Next]_vars => [\A i \in Items : Answered(doc, i) => Answered(doc', i)]_vars
  BY SyncNext DEF Faithful
<1>2. TypeInv /\ SyncInv /\ [Next]_vars => SyncInv'
  BY SyncNext
<1> QED
  BY <1>1, <1>2, SyncInit, TypeInvAlways, PTL DEF Spec, AnswersSurvive

-----------------------------------------------------------------------------
(* While requests do not overlap                                           *)


\* Requests do not overlap: there is one slot.  With two, each property proved
\* from here on has a run of the code that breaks it.
OneRequest == \A q, r \in Requests : q = r

CandidateWork == {"startSection", "answer", "submitSection", "submit"}

\* What the fields of a stored document say of each other.
DocOK(d) ==
    /\ d.status = "completed" <=> d.result # None
    /\ d.result # None => d.result.scored = d.responses
    /\ d.status \in {"in_progress", "paused", "completed"} => d.started
    /\ d.status \in {"scheduled", "expired"} => ~d.started
    /\ d.status = "expired" => now > d.startDeadline
    /\ d.startDeadline <= d.expiresAt
    /\ d.status = "paused" => d.pausedAt # None
    /\ Blank(d)

\* The clock a section is read against: it stands still during a pause.
Reading(d) == IF d.status = "paused" THEN d.pausedAt ELSE now

ClockOK(d) ==
    /\ \A s, t \in InProgress(d) : s = t
    /\ \A s \in Sections : d.sections[s].status = "not_started" => used[s] = 0
    /\ \A s \in InProgress(d) :
        d.sections[s].startedAt # None /\ used[s] <= Reading(d) - d.sections[s].startedAt
    /\ "resend" \notin Kinds /\ d.status \in {"in_progress", "paused"} =>
        \A s \in InProgress(d) : Reading(d) - d.sections[s].startedAt <= used[s]

\* What a handler's guard still says of the document when the handler saves.
Fits(c, step, d) ==
    /\ step = "resume" => d.status = "paused" /\ c.kind \in CandidateWork \cup {"resume"}
    /\ c.kind = "answer" => c.section = SectionOf[c.item]
    /\ step = "handle" =>
        /\ c.kind \in CandidateWork => d.status = "in_progress"
        /\ c.kind \in {"start", "cancelStale"} => d.status = "scheduled"
        /\ c.kind = "lapse" => d.status \in {"scheduled", "expired"} /\ now > d.startDeadline
        /\ c.kind = "expire" => d.status \in Live /\ Past(d)
        /\ c.kind \in {"resend", "cancel"} => d.status # "completed"
        /\ c.kind = "end" => d.status \in {"in_progress", "paused"}

RequestOK(r) ==
    /\ ~stale[r]
    /\ pc[r] # "idle" => call[r].kind \in Kinds
    /\ pc[r] \in Working => local[r] = doc /\ Fits(call[r], pc[r], doc)
    /\ pc[r] = "telemetry" => doc.status = "completed" /\ serves = 0

\* The inductive invariant of a session whose requests do not overlap.
SerialInv ==
    /\ DocOK(doc)
    /\ ClockOK(doc)
    /\ serves <= 1
    /\ doc.result = None => serves = 0
    /\ \A r \in Requests : RequestOK(r)

USE TimeAssumption, PaperAssumption, PolicyAssumption, NoneAssumption, ResultAssumption

-----------------------------------------------------------------------------
(* What a write may do to the stored document                              *)

Phase(d) ==
    IF d.status = "completed" THEN "scored"
    ELSE IF d.status \in {"expired", "cancelled"} THEN "withdrawn"
    ELSE IF d.started THEN "working" ELSE "invited"

SameAnswers(d) == \A i : Among(d.responses, i) <=> Among(doc.responses, i)

\* A write d is a step of AssessmentPromise, or changes nothing it speaks of.
Keeps(d) ==
    \/ /\ Phase(d) = Phase(doc) /\ d.started = doc.started
       /\ d.result = doc.result /\ SameAnswers(d)
    \/ /\ Phase(doc) = "invited" /\ Phase(d) = "working" /\ d.started
       /\ d.result = doc.result /\ SameAnswers(d)
    \/ /\ Phase(doc) = "working" /\ Phase(d) = "working" /\ d.started = doc.started
       /\ d.result = doc.result
       /\ \E i \in Items : \A j : Among(d.responses, j) <=> (Among(doc.responses, j) \/ j = i)
    \/ /\ Phase(doc) \in {"invited", "working"} /\ Phase(d) = "withdrawn"
       /\ d.started = doc.started /\ d.result = doc.result /\ SameAnswers(d)
    \/ /\ Phase(doc) = "withdrawn" /\ Phase(d) = IF doc.started THEN "working" ELSE "invited"
       /\ d.started = doc.started /\ d.result = doc.result /\ SameAnswers(d)
    \/ /\ Phase(doc) = "working" /\ Phase(d) = "scored" /\ d.started = doc.started
       /\ d.result # None /\ d.result.scored = doc.responses /\ SameAnswers(d)

\* Whatever d adds or changes among the answers is in time.
InTime(d) ==
    \A k \in 1..Len(d.responses) :
        (k > Len(doc.responses) \/ d.responses[k] # doc.responses[k])
        => used[SectionOf[d.responses[k].item]] < SectionLimit

Lawful(d) == DocOK(d) /\ ClockOK(d) /\ Keeps(d) /\ InTime(d)

LEMMA SameIsInTime ==
    ASSUME TypeInv, NEW d, d.responses = doc.responses
    PROVE  InTime(d) /\ SameAnswers(d)
<1>1. Len(doc.responses) \in Nat
  BY DEF TypeInv, TypeOK, Documents, Responses
<1> QED
  BY <1>1 DEF InTime, SameAnswers

LEMMA SameIsLawful == ASSUME TypeInv, SerialInv PROVE Lawful(doc)
BY SameIsInTime DEF SerialInv, Lawful, Keeps

\* The refinement mapping takes a lawful write to a step of the promise.
LEMMA KeepsIsPromised ==
    ASSUME TypeInv, Keeps(doc')
    PROVE  [Promise!Next]_Promise!vars
<1> DEFINE phase == CASE doc.status = "completed" -> "scored"
                      [] doc.status \in {"expired", "cancelled"} -> "withdrawn"
                      [] OTHER -> IF doc.started THEN "working" ELSE "invited"
           answers == {i \in Items : Answered(doc, i)}
           scoreOf == IF doc.result = None THEN None
                      ELSE {i \in Items : \E k \in 1..Len(doc.result.scored) : doc.result.scored[k].item = i}
<1>1. phase = Phase(doc) /\ phase' = Phase(doc')
  BY Zenon DEF Phase
<1>2. /\ answers = {i \in Items : Among(doc.responses, i)}
      /\ answers' = {i \in Items : Among(doc'.responses, i)}
  BY DEF Answered, Among
<1>3. SameAnswers(doc') => answers' = answers
  BY <1>2 DEF SameAnswers
<1>4. doc'.result = doc.result => scoreOf' = scoreOf
  OBVIOUS
<1>5. CASE /\ Phase(doc') = Phase(doc) /\ doc'.started = doc.started
           /\ doc'.result = doc.result /\ SameAnswers(doc')
  <2>1. phase' = phase /\ doc'.started = doc.started /\ answers' = answers /\ scoreOf' = scoreOf
    BY <1>1, <1>3, <1>4, <1>5
  <2> QED
    BY <2>1, Zenon DEF Promise!vars
<1>6. CASE /\ Phase(doc) = "invited" /\ Phase(doc') = "working" /\ doc'.started
           /\ doc'.result = doc.result /\ SameAnswers(doc')
  <2>1. phase = "invited" /\ phase' = "working" /\ doc'.started = TRUE
    BY <1>1, <1>6
  <2>2. answers' = answers /\ scoreOf' = scoreOf
    BY <1>3, <1>4, <1>6
  <2>3. Promise!BeginAttempt
    BY <2>1, <2>2, Zenon DEF Promise!BeginAttempt
  <2> QED
    BY <2>3, Zenon DEF Promise!Next
<1>7. CASE /\ Phase(doc) = "working" /\ Phase(doc') = "working" /\ doc'.started = doc.started
           /\ doc'.result = doc.result
           /\ \E i \in Items : \A j : Among(doc'.responses, j) <=> (Among(doc.responses, j) \/ j = i)
  <2>1. phase = "working" /\ phase' = phase /\ doc'.started = doc.started /\ scoreOf' = scoreOf
    BY <1>1, <1>4, <1>7
  <2>2. \E i \in Items : answers' = answers \cup {i}
    BY <1>2, <1>7
  <2>3. Promise!SaveAnswer
    BY <2>1, <2>2, Zenon DEF Promise!SaveAnswer
  <2> QED
    BY <2>3, Zenon DEF Promise!Next
<1>8. CASE /\ Phase(doc) \in {"invited", "working"} /\ Phase(doc') = "withdrawn"
           /\ doc'.started = doc.started /\ doc'.result = doc.result /\ SameAnswers(doc')
  <2>1. phase \in {"invited", "working"} /\ phase' = "withdrawn" /\ doc'.started = doc.started
    BY <1>1, <1>8
  <2>2. answers' = answers /\ scoreOf' = scoreOf
    BY <1>3, <1>4, <1>8
  <2>3. Promise!Withdraw
    BY <2>1, <2>2, Zenon DEF Promise!Withdraw
  <2> QED
    BY <2>3, Zenon DEF Promise!Next
<1>9. CASE /\ Phase(doc) = "withdrawn" /\ Phase(doc') = IF doc.started THEN "working" ELSE "invited"
           /\ doc'.started = doc.started /\ doc'.result = doc.result /\ SameAnswers(doc')
  <2>1. /\ phase = "withdrawn" /\ phase' = IF doc.started THEN "working" ELSE "invited"
        /\ doc'.started = doc.started
    BY <1>1, <1>9
  <2>2. answers' = answers /\ scoreOf' = scoreOf
    BY <1>3, <1>4, <1>9
  <2>3. Promise!Reissue
    BY <2>1, <2>2, Zenon DEF Promise!Reissue
  <2> QED
    BY <2>3, Zenon DEF Promise!Next
<1>10. CASE /\ Phase(doc) = "working" /\ Phase(doc') = "scored" /\ doc'.started = doc.started
            /\ doc'.result # None /\ doc'.result.scored = doc.responses /\ SameAnswers(doc')
  <2>1. phase = "working" /\ phase' = "scored" /\ doc'.started = doc.started /\ answers' = answers
    BY <1>1, <1>3, <1>10
  <2>2. scoreOf' = answers
    BY <1>10 DEF Answered
  <2>3. Promise!Score
    BY <2>1, <2>2, Zenon DEF Promise!Score
  <2> QED
    BY <2>3, Zenon DEF Promise!Next
<1> QED
  BY <1>5, <1>6, <1>7, <1>8, <1>9, <1>10, Zenon DEF Keeps

-----------------------------------------------------------------------------
(* The ways a request changes the document                                 *)

LEMMA SaveSerial ==
    ASSUME OneRequest, TypeInv, SerialInv,
           NEW r \in Requests, NEW d, NEW bumps \in BOOLEAN, NEW next \in Steps, NEW kept,
           Save(r, d, bumps, next, kept), Lawful(d),
           next # "idle" => pc[r] # "idle",
           next \in Working => kept = d /\ Fits(call[r], next, d),
           next = "telemetry" => d.status = "completed" /\ serves' = 0,
           serves' <= 1, d.result = None => serves' = 0
    PROVE  SerialInv' /\ Keeps(doc') /\ InTime(doc')
<1>1. doc' = d /\ now' = now /\ used' = used
  BY DEF Save
<1>2. DocOK(doc)' /\ ClockOK(doc)'
  BY <1>1 DEF Lawful, DocOK, ClockOK, Blank, InProgress, Reading
<1>3. ASSUME NEW q \in Requests PROVE RequestOK(q)'
  <2>1. q = r
    BY DEF OneRequest
  <2>2. pc'[q] = next /\ local'[q] = kept /\ ~stale'[q]
    BY <2>1 DEF Save, TypeInv, TypeOK, SerialInv, RequestOK
  <2>3. next # "idle" => call'[q] = call[r] /\ call[r].kind \in Kinds
    BY <2>1 DEF Save, SerialInv, RequestOK
  <2>4. next \in Working => Fits(call[q], pc[q], doc)'
    BY <1>1, <2>1, <2>2, <2>3 DEF Fits, Past, Working
  <2> QED
    BY <1>1, <2>2, <2>3, <2>4 DEF RequestOK
<1>4. (serves <= 1)' /\ (doc.result = None => serves = 0)'
  BY <1>1
<1> QED
  BY <1>1, <1>2, <1>3, <1>4 DEF SerialInv, Lawful

LEMMA GuardedSaveSerial ==
    ASSUME OneRequest, TypeInv, SerialInv,
           NEW r \in Requests, NEW d, NEW next \in Steps, NEW kept,
           GuardedSave(r, d, next, kept), Lawful(d), UNCHANGED serves,
           next # "idle" => pc[r] # "idle",
           next \in Working => kept = d /\ Fits(call[r], next, d),
           next = "telemetry" => d.status = "completed" /\ serves = 0,
           d.result = None => doc.result = None
    PROVE  SerialInv' /\ Keeps(doc') /\ InTime(doc')
<1>1. Save(r, d, TRUE, next, kept)
  BY DEF GuardedSave, SerialInv, RequestOK
<1>2. serves' <= 1 /\ (d.result = None => serves' = 0)
  BY DEF SerialInv
<1> QED
  BY <1>1, <1>2, SaveSerial

LEMMA LastSaveSerial ==
    ASSUME OneRequest, TypeInv, SerialInv,
           NEW r \in Requests, NEW d, NEW bumps \in BOOLEAN,
           Save(r, d, bumps, "idle", None), Lawful(d), UNCHANGED serves,
           d.result = None => doc.result = None
    PROVE  SerialInv' /\ Keeps(doc') /\ InTime(doc')
<1>1. serves' <= 1 /\ (d.result = None => serves' = 0)
  BY DEF SerialInv
<1> QED
  BY <1>1, SaveSerial DEF Steps, Working

LEMMA DropSerial ==
    ASSUME OneRequest, TypeInv, SerialInv, NEW r \in Requests, Drop(r), UNCHANGED serves
    PROVE  SerialInv' /\ Keeps(doc') /\ InTime(doc')
BY SameIsLawful, LastSaveSerial DEF Drop

\* A request that begins holds the document as it is.
LEMMA BeginSerial ==
    ASSUME OneRequest, TypeInv, SerialInv, NEW r \in Requests, NEW c, NEW step \in Working,
           Begin(r, c, step), Fits(c, step, doc)
    PROVE  SerialInv' /\ Keeps(doc') /\ InTime(doc')
<1>1. doc' = doc /\ now' = now /\ used' = used /\ serves' = serves
  BY DEF Begin
<1>2. DocOK(doc)' /\ ClockOK(doc)'
  BY <1>1 DEF SerialInv, DocOK, ClockOK, Blank, InProgress, Reading
<1>3. ASSUME NEW q \in Requests PROVE RequestOK(q)'
  <2>1. q = r
    BY DEF OneRequest
  <2>2. pc'[q] = step /\ local'[q] = doc /\ call'[q] = c /\ ~stale'[q] /\ c.kind \in Kinds
    BY <2>1 DEF Begin, TypeInv, TypeOK, SerialInv, RequestOK
  <2>3. Fits(call[q], pc[q], doc)'
    BY <1>1, <2>2 DEF Fits, Past
  <2> QED
    BY <1>1, <2>2, <2>3 DEF RequestOK, Working
<1> QED
  BY <1>1, <1>2, <1>3, SameIsLawful DEF SerialInv, Lawful

\* What a request at work can count on.
LEMMA AtWorkSerial ==
    ASSUME TypeInv, SerialInv, NEW r \in Requests, pc[r] \in Working
    PROVE  /\ doc \in Documents /\ local[r] = doc /\ ~stale[r] /\ now \in Nat
           /\ call[r] \in Calls /\ Fits(call[r], pc[r], doc) /\ PauseInPast(doc)
           /\ DocOK(doc) /\ ClockOK(doc)
BY AtWork DEF SerialInv, RequestOK

-----------------------------------------------------------------------------
(* Every action keeps the invariant and the promise                        *)

LEMMA LoadSerial ==
    ASSUME OneRequest, TypeInv, SerialInv, NEW r \in Requests, Load(r)
    PROVE  SerialInv' /\ Keeps(doc') /\ InTime(doc')
<1> USE DEF Ask
<1>1. doc \in Documents /\ DocOK(doc) /\ doc.status \in Statuses /\ now \in Nat
  BY DEF SerialInv, TypeInv, TypeOK, Documents
<1>2. CASE LoadStart(r)
  <2> DEFINE c == Ask(IF now > doc.startDeadline THEN "lapse" ELSE "start", None, None, None, 0)
  <2>1. Begin(r, c, "handle")
    BY <1>2 DEF LoadStart
  <2>2. doc.status \in {"scheduled", "expired"}
    BY <1>1, <1>2 DEF LoadStart, AuthPasses, DocOK, Statuses
  <2>3. Fits(c, "handle", doc)
    BY <1>1, <2>2 DEF Fits, DocOK, CandidateWork
  <2> HIDE DEF c
  <2> QED
    BY <2>1, <2>3, BeginSerial DEF Working
<1>3. ASSUME NEW c, c.kind \in CandidateWork, c.kind = "answer" => c.section = SectionOf[c.item],
             BeginLive(r, c)
      PROVE  SerialInv' /\ Keeps(doc') /\ InTime(doc')
  <2>1. doc.status \in {"in_progress", "paused"}
    BY <1>1, <1>3 DEF BeginLive, GuardLive, DocOK, Statuses
  <2>2. CASE doc.status = "paused"
    <3>1. Fits(c, "resume", doc) /\ Begin(r, c, "resume")
      BY <1>3, <2>2 DEF Fits, BeginLive
    <3> QED
      BY <3>1, BeginSerial DEF Working
  <2>3. CASE doc.status = "in_progress"
    <3>1. Fits(c, "handle", doc) /\ Begin(r, c, "handle")
      BY <1>3, <2>3 DEF Fits, BeginLive, CandidateWork
    <3> QED
      BY <3>1, BeginSerial DEF Working
  <2> QED
    BY <2>1, <2>2, <2>3
<1>4. CASE LoadSubmit(r)
  BY <1>3, <1>4 DEF LoadSubmit, CandidateWork
<1>5. ASSUME NEW s \in Sections, LoadStartSection(r, s) \/ LoadSubmitSection(r, s)
      PROVE  SerialInv' /\ Keeps(doc') /\ InTime(doc')
  BY <1>3, <1>5 DEF LoadStartSection, LoadSubmitSection, CandidateWork
<1>6. ASSUME NEW i \in Items, NEW v \in Values, LoadAnswer(r, i, v)
      PROVE  SerialInv' /\ Keeps(doc') /\ InTime(doc')
  BY <1>3, <1>6 DEF LoadAnswer, CandidateWork
<1>7. CASE LoadFlags(r, 1)
  BY <1>7, BeginSerial DEF LoadFlags, Fits, CandidateWork, Working
<1>8. CASE LoadExpire(r)
  BY <1>8, BeginSerial DEF LoadExpire, Fits, CandidateWork, Working
<1>9. CASE LoadResend(r)
  BY <1>9, BeginSerial DEF LoadResend, Fits, CandidateWork, Working
<1>10. CASE LoadCancel(r)
  BY <1>10, BeginSerial DEF LoadCancel, Fits, CandidateWork, Working
<1>11. CASE LoadResume(r)
  BY <1>11, BeginSerial DEF LoadResume, Fits, CandidateWork, Working
<1>12. CASE LoadEnd(r)
  BY <1>12, BeginSerial DEF LoadEnd, Fits, CandidateWork, Working
<1>13. ASSUME NEW to \in Targets, MoveCandidate(r, to)
       PROVE  SerialInv' /\ Keeps(doc') /\ InTime(doc')
  <2>1. doc' = doc /\ now' = now /\ used' = used /\ serves' = serves /\ stale' = stale
    BY <1>13 DEF MoveCandidate
  <2>2. DocOK(doc)' /\ ClockOK(doc)'
    BY <2>1 DEF SerialInv, DocOK, ClockOK, Blank, InProgress, Reading
  <2>3. ASSUME NEW q \in Requests PROVE RequestOK(q)'
    <3>1. q = r /\ pc'[q] = "find" /\ call'[q].kind \in Kinds
      BY <1>13 DEF OneRequest, MoveCandidate, TypeInv, TypeOK
    <3> QED
      BY <2>1, <3>1 DEF SerialInv, RequestOK, Working
  <2> QED
    BY <2>1, <2>2, <2>3, SameIsLawful DEF SerialInv, Lawful
<1> QED
  BY <1>2, <1>4, <1>5, <1>6, <1>7, <1>8, <1>9, <1>10, <1>11, <1>12, <1>13 DEF Load

\* Scoring a session that was begun.
LEMMA FinalizeSerial ==
    ASSUME OneRequest, TypeInv, SerialInv, NEW r \in Requests, NEW by \in EndedBy, pc[r] \in Working,
           doc.status \in {"in_progress", "paused"}, FinalizeSave(r, by)
    PROVE  SerialInv' /\ Keeps(doc') /\ InTime(doc')
<1> DEFINE secs == Closed(doc.sections, InProgress(doc))
           new == [doc EXCEPT !.status = "completed", !.result = [by |-> by, scored |-> doc.responses],
                              !.sections = secs]
<1>1. GuardedSave(r, new, "telemetry", None) /\ UNCHANGED serves
  BY AtWorkSerial DEF FinalizeSave
<1>2. doc \in Documents /\ DocOK(doc) /\ ClockOK(doc) /\ doc.started /\ doc.result = None /\ serves = 0
  BY AtWorkSerial DEF DocOK, SerialInv
<1>3. /\ new.status = "completed" /\ new.started = doc.started /\ new.responses = doc.responses
      /\ new.result = [by |-> by, scored |-> doc.responses] /\ new.sections = secs
      /\ new.startDeadline = doc.startDeadline /\ new.expiresAt = doc.expiresAt
  BY <1>2 DEF Documents
<1>4. new.result # None /\ new.result.scored = doc.responses
  <2>1. new.result \in Results
    BY <1>2, <1>3 DEF Results, Documents
  <2> QED
    BY <1>3, <2>1
<1>5. InProgress(new) = {} /\ \A s \in Sections : secs[s].status = "not_started" => doc.sections[s].status = "not_started"
  BY <1>2, <1>3 DEF InProgress, Closed, Documents
<1> HIDE DEF new, secs
<1>6. DocOK(new)
  BY <1>2, <1>3, <1>4 DEF DocOK, Blank
<1>7. ClockOK(new)
  BY <1>2, <1>3, <1>5 DEF ClockOK
<1>8. Keeps(new) /\ InTime(new)
  BY <1>2, <1>3, <1>4, SameIsInTime DEF Keeps, Phase
<1> QED
  BY <1>1, <1>2, <1>3, <1>4, <1>6, <1>7, <1>8, GuardedSaveSerial DEF Lawful, Steps, Working

\* Withdrawing a session.
LEMMA StatusLawful ==
    ASSUME TypeInv, SerialInv, NEW st \in {"expired", "cancelled"}, doc.status # "completed",
           st = "expired" => ~doc.started /\ now > doc.startDeadline
    PROVE  Lawful([doc EXCEPT !.status = st])
<1> DEFINE new == [doc EXCEPT !.status = st]
<1>1. doc \in Documents /\ DocOK(doc) /\ ClockOK(doc) /\ PauseInPast(doc) /\ now \in Nat /\ used \in [Sections -> Nat]
  BY DEF SerialInv, TypeInv, TypeOK
<1>2. /\ new.status = st /\ new.started = doc.started /\ new.responses = doc.responses
      /\ new.result = doc.result /\ new.sections = doc.sections /\ new.pausedAt = doc.pausedAt
      /\ new.startDeadline = doc.startDeadline /\ new.expiresAt = doc.expiresAt
  BY <1>1 DEF Documents
<1> HIDE DEF new
<1>3. DocOK(new)
  BY <1>1, <1>2 DEF DocOK, Blank
<1>4. ClockOK(new)
  <2>1. InProgress(new) = InProgress(doc)
    BY <1>2 DEF InProgress
  <2>2. ASSUME NEW s \in InProgress(doc), doc.sections[s].startedAt # None
        PROVE  Reading(doc) - doc.sections[s].startedAt <= Reading(new) - doc.sections[s].startedAt
    <3>1. doc.sections[s].startedAt \in Nat /\ Reading(doc) \in Nat /\ Reading(doc) <= now
      BY <1>1, <2>2 DEF Documents, Times, InProgress, Reading, DocOK, PauseInPast
    <3>2. Reading(new) = now
      BY <1>2 DEF Reading
    <3> QED
      BY <1>1, <3>1, <3>2
  <2>3. \A s \in InProgress(doc) : used[s] \in Nat /\ Reading(doc) \in Int /\ Reading(new) \in Int
          /\ (doc.sections[s].startedAt # None => doc.sections[s].startedAt \in Int)
    BY <1>1, <1>2 DEF Documents, Times, InProgress, Reading, DocOK
  <2> QED
    BY <1>1, <1>2, <2>1, <2>2, <2>3 DEF ClockOK
<1>5. Keeps(new) /\ InTime(new)
  <2>1. doc.status \in Statuses
    BY <1>1 DEF Documents
  <2> QED
    BY <1>1, <1>2, <2>1, SameIsInTime DEF Keeps, Phase, Statuses, DocOK
<1> QED
  BY <1>3, <1>4, <1>5 DEF Lawful, new

LEMMA StatusSaveSerial ==
    ASSUME OneRequest, TypeInv, SerialInv, NEW r \in Requests,
           LapseSave(r) \/ CancelSave(r) \/ ExpireSave(r)
    PROVE  SerialInv' /\ Keeps(doc') /\ InTime(doc')
<1>1. pc[r] \in Working /\ pc[r] = "handle"
  BY DEF LapseSave, CancelSave, ExpireSave, At, Working
<1>2. /\ local[r] = doc /\ Fits(call[r], pc[r], doc) /\ DocOK(doc) /\ doc \in Documents
      /\ doc.startDeadline \in Nat /\ doc.expiresAt \in Nat /\ now \in Nat
  BY <1>1, AtWorkSerial DEF Documents
<1>3. ASSUME NEW st \in {"expired", "cancelled"}, Save(r, [doc EXCEPT !.status = st], FALSE, "idle", None),
             UNCHANGED serves, doc.status # "completed",
             st = "expired" => ~doc.started /\ now > doc.startDeadline
      PROVE  SerialInv' /\ Keeps(doc') /\ InTime(doc')
  <2> DEFINE new == [doc EXCEPT !.status = st]
  <2>1. Lawful(new)
    BY <1>3, StatusLawful
  <2>2. new.result = doc.result
    BY <1>2 DEF Documents
  <2>3. Save(r, new, FALSE, "idle", None)
    BY <1>3
  <2> HIDE DEF new
  <2> QED
    BY <1>3, <2>1, <2>2, <2>3, LastSaveSerial
<1>4. CASE LapseSave(r)
  <2>1. doc.status \in {"scheduled", "expired"} /\ now > doc.startDeadline /\ ~doc.started
    BY <1>1, <1>2, <1>4 DEF LapseSave, At, Fits, DocOK
  <2>2. CASE doc.status = "expired"
    <3>1. Drop(r) /\ UNCHANGED serves
      BY <1>2, <1>4, <2>2 DEF LapseSave, OpenSave, Drop
    <3> QED
      BY <3>1, DropSerial
  <2>3. CASE doc.status # "expired"
    <3>1. Save(r, [doc EXCEPT !.status = "expired"], FALSE, "idle", None) /\ UNCHANGED serves
      BY <1>2, <1>4, <2>3 DEF LapseSave, OpenSave
    <3> QED
      BY <1>3, <2>1, <3>1
  <2> QED
    BY <2>2, <2>3
<1>5. CASE CancelSave(r)
  <2>1. doc.status # "completed"
    BY <1>1, <1>2, <1>5 DEF CancelSave, At, Fits
  <2>2. Save(r, [doc EXCEPT !.status = "cancelled"], FALSE, "idle", None) /\ UNCHANGED serves
    BY <1>5 DEF CancelSave, OpenSave
  <2> QED
    BY <1>3, <2>1, <2>2
<1>6. CASE ExpireSave(r)
  <2>1. doc.status \in Live /\ now > doc.expiresAt
    BY <1>1, <1>2, <1>6 DEF ExpireSave, At, Fits, Past
  <2>2. CASE doc.started
    <3>1. doc.status \in {"in_progress", "paused"} /\ FinalizeSave(r, "expiry")
      BY <1>2, <1>6, <2>1, <2>2 DEF ExpireSave, DocOK, Live
    <3> QED
      BY <1>1, <3>1, FinalizeSerial DEF EndedBy
  <2>3. CASE ~doc.started
    <3>1. Save(r, [doc EXCEPT !.status = "expired"], FALSE, "idle", None) /\ UNCHANGED serves
      BY <1>2, <1>6, <2>3 DEF ExpireSave, OpenSave
    <3>2. now > doc.startDeadline
      BY <1>2, <2>1 DEF DocOK
    <3> QED
      BY <1>3, <2>1, <2>3, <3>1, <3>2 DEF Live
  <2> QED
    BY <2>2, <2>3
<1> QED
  BY <1>4, <1>5, <1>6

\* submit and endSession score a session that is under way.
LEMMA ScoringSerial ==
    ASSUME OneRequest, TypeInv, SerialInv, NEW r \in Requests, SubmitSave(r) \/ EndSave(r)
    PROVE  SerialInv' /\ Keeps(doc') /\ InTime(doc')
<1>1. pc[r] \in Working /\ pc[r] = "handle"
  BY DEF SubmitSave, EndSave, At, Working
<1>2. doc.status \in {"in_progress", "paused"}
  BY <1>1, AtWorkSerial DEF SubmitSave, EndSave, At, Fits, CandidateWork
<1> QED
  BY <1>1, <1>2, FinalizeSerial DEF SubmitSave, EndSave, EndedBy

\* An auto-resume, or a recruiter's, shifts the running section's clock by the
\* pause, so the section reads what it read when the pause began.
LEMMA ResumeSaveSerial ==
    ASSUME OneRequest, TypeInv, SerialInv, NEW r \in Requests, ResumeSave(r)
    PROVE  SerialInv' /\ Keeps(doc') /\ InTime(doc')
<1> DEFINE d == Resumed(doc)
           last == call[r].kind = "resume"
           shift == now - doc.pausedAt
<1>1. pc[r] \in Working /\ pc[r] = "resume"
  BY DEF ResumeSave, Working
<1>2. /\ local[r] = doc /\ doc \in Documents /\ DocOK(doc) /\ ClockOK(doc) /\ now \in Nat
      /\ doc.status = "paused" /\ call[r].kind \in CandidateWork \cup {"resume"}
      /\ Fits(call[r], pc[r], doc) /\ doc.pausedAt \in Nat /\ doc.pausedAt <= now
      /\ used \in [Sections -> Nat]
  BY <1>1, AtWorkSerial DEF Fits, DocOK, Documents, Times, PauseInPast, TypeInv, TypeOK
<1>3. /\ d.status = "in_progress" /\ d.pausedAt = None /\ d.started = doc.started
      /\ d.responses = doc.responses /\ d.result = doc.result
      /\ d.startDeadline = doc.startDeadline /\ d.expiresAt = doc.expiresAt
      /\ d.sections = [s \in Sections |->
              IF s \in InProgress(doc) /\ doc.sections[s].startedAt # None
              THEN [doc.sections[s] EXCEPT !.startedAt = @ + shift] ELSE doc.sections[s]]
  BY <1>2 DEF Resumed, Documents
<1>4. [doc EXCEPT !.status = d.status, !.pausedAt = None, !.sections = d.sections] = d
  BY <1>2, <1>3 DEF Resumed
<1>5. /\ GuardedSave(r, d, IF last THEN "idle" ELSE "handle", IF last THEN None ELSE d)
      /\ UNCHANGED serves
  BY <1>2, <1>4 DEF ResumeSave
<1> HIDE DEF d
<1>6. DocOK(d)
  BY <1>2, <1>3 DEF DocOK, Blank
<1>7. ClockOK(d)
  <2>1. \A s \in Sections : d.sections[s].status = doc.sections[s].status
    BY <1>2, <1>3 DEF Documents
  <2>2. InProgress(d) = InProgress(doc)
    BY <2>1 DEF InProgress
  <2>3. ASSUME NEW s \in InProgress(doc)
        PROVE  /\ d.sections[s].startedAt # None /\ used[s] <= now - d.sections[s].startedAt
               /\ "resend" \notin Kinds => now - d.sections[s].startedAt <= used[s]
    <3>1. s \in Sections /\ doc.sections[s] \in [status : SectionStatuses, startedAt : Times]
      BY <1>2 DEF InProgress, Documents
    <3>2. /\ doc.sections[s].startedAt \in Nat /\ used[s] <= doc.pausedAt - doc.sections[s].startedAt
          /\ "resend" \notin Kinds => doc.pausedAt - doc.sections[s].startedAt <= used[s]
      BY <1>2, <3>1 DEF ClockOK, Reading, Times
    <3>3. d.sections[s].startedAt = doc.sections[s].startedAt + shift
      BY <1>2, <1>3, <3>1, <3>2
    <3>4. used[s] \in Nat
      BY <1>2, <3>1
    <3> QED
      BY <1>2, <3>2, <3>3, <3>4
  <2>4. Reading(d) = now
    BY <1>3 DEF Reading
  <2> QED
    BY <1>2, <2>1, <2>2, <2>3, <2>4 DEF ClockOK
<1>8. Keeps(d) /\ InTime(d)
  BY <1>2, <1>3, SameIsInTime DEF Keeps, Phase, DocOK
<1>9. ~last => Fits(call[r], "handle", d)
  BY <1>2, <1>3 DEF Fits, CandidateWork
<1>10. Lawful(d)
  BY <1>6, <1>7, <1>8 DEF Lawful
<1>11. CASE last
  BY <1>3, <1>5, <1>10, <1>11, GuardedSaveSerial DEF Steps, Working
<1>12. CASE ~last
  <2>1. pc[r] # "idle"
    BY <1>1
  <2> HIDE DEF last
  <2> QED
    BY <1>3, <1>5, <1>9, <1>10, <1>12, <2>1, GuardedSaveSerial DEF Steps
<1> QED
  BY <1>11, <1>12

LEMMA StartSaveSerial ==
    ASSUME OneRequest, TypeInv, SerialInv, NEW r \in Requests, StartSave(r)
    PROVE  SerialInv' /\ Keeps(doc') /\ InTime(doc')
<1> DEFINE blank == [s \in Sections |-> NotStarted]
           new == [doc EXCEPT !.status = "in_progress", !.started = TRUE, !.sections = blank]
<1>1. pc[r] \in Working /\ pc[r] = "handle"
  BY DEF StartSave, At, Working
<1>2. /\ doc \in Documents /\ DocOK(doc) /\ ClockOK(doc)
      /\ doc.status = "scheduled" /\ ~doc.started /\ doc.result = None
  BY <1>1, AtWorkSerial DEF StartSave, At, Fits, DocOK
<1>3. /\ new.status = "in_progress" /\ new.started /\ new.responses = doc.responses
      /\ new.result = doc.result /\ new.sections = blank
      /\ new.startDeadline = doc.startDeadline /\ new.expiresAt = doc.expiresAt
  BY <1>2 DEF Documents
<1>4. GuardedSave(r, new, "idle", None) /\ UNCHANGED serves
  BY DEF StartSave
<1> HIDE DEF new
<1>5. DocOK(new)
  BY <1>2, <1>3 DEF DocOK, Blank
<1>6. ClockOK(new)
  <2>1. InProgress(new) = {}
    BY <1>3 DEF InProgress, NotStarted
  <2>2. \A s \in Sections : used[s] = 0
    BY <1>2 DEF ClockOK, DocOK, Blank
  <2> QED
    BY <2>1, <2>2 DEF ClockOK
<1>7. Keeps(new) /\ InTime(new)
  BY <1>2, <1>3, SameIsInTime DEF Keeps, Phase
<1> QED
  BY <1>3, <1>4, <1>5, <1>6, <1>7, GuardedSaveSerial DEF Lawful, Steps, Working

\* A write of the sections of a running session.
LEMMA SectionsLawful ==
    ASSUME TypeInv, SerialInv, doc.status = "in_progress", NEW secs \in SectionTable,
           \A s, t \in Sections :
               secs[s].status = "in_progress" /\ secs[t].status = "in_progress" => s = t,
           \A s \in Sections :
               /\ secs[s].status = "not_started" => doc.sections[s].status = "not_started"
               /\ secs[s].status = "in_progress" =>
                     \/ secs[s] = doc.sections[s]
                     \/ doc.sections[s].status = "not_started" /\ secs[s].startedAt = now
    PROVE  Lawful([doc EXCEPT !.sections = secs])
<1> DEFINE new == [doc EXCEPT !.sections = secs]
<1>1. /\ doc \in Documents /\ DocOK(doc) /\ ClockOK(doc) /\ now \in Nat /\ doc.started
      /\ used \in [Sections -> Nat] /\ doc.sections \in SectionTable
  BY DEF SerialInv, TypeInv, TypeOK, DocOK, Documents, SectionTable
<1>2. /\ new.status = doc.status /\ new.started = doc.started /\ new.responses = doc.responses
      /\ new.result = doc.result /\ new.sections = secs /\ new.pausedAt = doc.pausedAt
      /\ new.startDeadline = doc.startDeadline /\ new.expiresAt = doc.expiresAt
  BY <1>1 DEF Documents
<1> HIDE DEF new
<1>3. DocOK(new)
  BY <1>1, <1>2 DEF DocOK, Blank
<1>4. ClockOK(new)
  <2>1. Reading(new) = now /\ Reading(doc) = now
    BY <1>2 DEF Reading
  <2>2. \A s \in Sections : s \in InProgress(new) <=> secs[s].status = "in_progress"
    BY <1>2 DEF InProgress
  <2>3. ASSUME NEW s \in InProgress(new)
        PROVE  /\ new.sections[s].startedAt # None /\ used[s] <= now - new.sections[s].startedAt
               /\ "resend" \notin Kinds => now - new.sections[s].startedAt <= used[s]
    <3>1. s \in Sections /\ secs[s].status = "in_progress" /\ used[s] \in Nat
      BY <1>1, <1>2 DEF InProgress
    <3>2. CASE secs[s] = doc.sections[s]
      BY <1>1, <1>2, <2>1, <3>1, <3>2 DEF ClockOK, InProgress
    <3>3. CASE doc.sections[s].status = "not_started" /\ secs[s].startedAt = now
      <4>1. used[s] = 0
        BY <1>1, <3>1, <3>3 DEF ClockOK
      <4> QED
        BY <1>1, <1>2, <3>3, <4>1
    <3> QED
      BY <3>1, <3>2, <3>3
  <2>4. \A s, t \in InProgress(new) : s = t
    BY <1>2 DEF InProgress
  <2>5. \A s \in Sections : new.sections[s].status = "not_started" => used[s] = 0
    BY <1>1, <1>2 DEF ClockOK
  <2> QED
    BY <2>1, <2>3, <2>4, <2>5 DEF ClockOK
<1>5. Keeps(new) /\ InTime(new)
  BY <1>1, <1>2, SameIsInTime DEF Keeps, Phase
<1> QED
  BY <1>3, <1>4, <1>5 DEF Lawful, new

\* Closing sections of a running session, and nothing else.
LEMMA ClosingLawful ==
    ASSUME TypeInv, SerialInv, doc.status = "in_progress", NEW which
    PROVE  Lawful([doc EXCEPT !.sections = Closed(doc.sections, which)])
<1> DEFINE secs == Closed(doc.sections, which)
<1>1. doc \in Documents /\ ClockOK(doc)
  BY DEF SerialInv, TypeInv, TypeOK
<1>2. secs \in SectionTable
  BY <1>1, ClosedType DEF SectionTable
<1>3. \A s \in Sections : secs[s] = doc.sections[s] \/ secs[s].status = "completed"
  BY <1>1 DEF Closed, Documents
<1> HIDE DEF secs
<1>4. \A s, t \in Sections : secs[s].status = "in_progress" /\ secs[t].status = "in_progress" => s = t
  BY <1>1, <1>3 DEF ClockOK, InProgress
<1>5. Lawful([doc EXCEPT !.sections = secs])
  BY <1>2, <1>3, <1>4, SectionsLawful
<1> QED
  BY <1>5 DEF secs

\* One guarded write of the sections that ends the request.
LEMMA SectionsSaveSerial ==
    ASSUME OneRequest, TypeInv, SerialInv, NEW r \in Requests, NEW secs,
           Lawful([doc EXCEPT !.sections = secs]), UNCHANGED serves,
           \/ GuardedSave(r, [doc EXCEPT !.sections = secs], "idle", None)
           \/ ElementSave(r, [doc EXCEPT !.sections = secs], "idle", None)
    PROVE  SerialInv' /\ Keeps(doc') /\ InTime(doc')
<1> DEFINE new == [doc EXCEPT !.sections = secs]
<1>1. new.result = doc.result
  BY DEF TypeInv, TypeOK, Documents
<1>2. \E bumps \in BOOLEAN : Save(r, new, bumps, "idle", None)
  BY DEF GuardedSave, ElementSave, SerialInv, RequestOK
<1>3. Lawful(new)
  OBVIOUS
<1> HIDE DEF new
<1> QED
  BY <1>1, <1>2, <1>3, LastSaveSerial

LEMMA StartSectionSaveSerial ==
    ASSUME OneRequest, TypeInv, SerialInv, NEW r \in Requests, StartSectionSave(r)
    PROVE  SerialInv' /\ Keeps(doc') /\ InTime(doc')
<1> DEFINE s == call[r].section
           others == InProgress(doc) \ {s}
           opens == doc.sections[s].status = "not_started"
           over == doc.sections[s].status = "completed"
           which == others \cup (IF TimeUp(doc, s) THEN {s} ELSE {})
           secs == Closed(doc.sections, which)
           opened == [status |-> "in_progress", startedAt |-> now]
           closing == IF opens THEN [secs EXCEPT ![s] = opened] ELSE secs
           alone == [doc.sections EXCEPT ![s] = opened]
<1>1. pc[r] \in Working /\ pc[r] = "handle" /\ call[r].kind = "startSection"
  BY DEF StartSectionSave, At, Working
<1>2. /\ local[r] = doc /\ doc \in Documents /\ ClockOK(doc) /\ s \in Sections /\ now \in Nat
      /\ doc.status = "in_progress" /\ doc.sections \in SectionTable
  <2>1. Fits(call[r], pc[r], doc) /\ local[r] = doc /\ doc \in Documents /\ ClockOK(doc) /\ now \in Nat
    BY <1>1, AtWorkSerial
  <2>2. s \in Sections
    BY <1>1, AtWork
  <2> QED
    BY <1>1, <2>1, <2>2 DEF Fits, CandidateWork, Documents, SectionTable
<1>3. UNCHANGED serves
  BY DEF StartSectionSave
<1>4. \/ GuardedSave(r, [doc EXCEPT !.sections = closing], "idle", None)
      \/ others = {} /\ opens /\ ElementSave(r, [doc EXCEPT !.sections[s] = opened], "idle", None)
      \/ Drop(r)
  BY <1>2 DEF StartSectionSave
<1>5. opened \in [status : SectionStatuses, startedAt : Times]
  BY <1>2 DEF SectionStatuses, Times
<1>6. ASSUME NEW x \in Sections
      PROVE  /\ secs[x] = doc.sections[x] \/ secs[x].status = "completed"
             /\ x # s /\ x \in InProgress(doc) => secs[x].status = "completed"
  BY <1>2, <1>6 DEF Closed, SectionTable
<1>7. secs \in SectionTable
  BY <1>2, ClosedType DEF SectionTable
<1>8. Lawful([doc EXCEPT !.sections = closing])
  <2>1. closing \in SectionTable
    BY <1>5, <1>7 DEF SectionTable
  <2>2. \A x \in Sections : closing[x] = (IF opens /\ x = s THEN opened ELSE secs[x])
    BY <1>7 DEF SectionTable
  <2> HIDE DEF closing, secs
  <2>3. \A x \in Sections : closing[x].status = "in_progress" => x = s
    BY <1>2, <1>6, <2>2 DEF InProgress
  <2>4. \A x \in Sections :
            /\ closing[x].status = "not_started" => doc.sections[x].status = "not_started"
            /\ closing[x].status = "in_progress" =>
                  \/ closing[x] = doc.sections[x]
                  \/ doc.sections[x].status = "not_started" /\ closing[x].startedAt = now
    BY <1>2, <1>6, <2>2
  <2>5. \A x, y \in Sections : closing[x].status = "in_progress" /\ closing[y].status = "in_progress" => x = y
    BY <2>3
  <2> QED
    BY <1>2, <2>1, <2>4, <2>5, SectionsLawful
<1>9. others = {} /\ opens => Lawful([doc EXCEPT !.sections = alone])
  <2> SUFFICES ASSUME others = {}, opens PROVE Lawful([doc EXCEPT !.sections = alone])
    OBVIOUS
  <2>1. alone \in SectionTable
    BY <1>2, <1>5 DEF SectionTable
  <2>2. \A x \in Sections : alone[x] = (IF x = s THEN opened ELSE doc.sections[x])
    BY <1>2 DEF SectionTable
  <2> HIDE DEF alone
  <2>3. \A x \in Sections : alone[x].status = "in_progress" => x = s
    BY <1>2, <2>2 DEF InProgress
  <2>4. \A x \in Sections :
            /\ alone[x].status = "not_started" => doc.sections[x].status = "not_started"
            /\ alone[x].status = "in_progress" =>
                  \/ alone[x] = doc.sections[x]
                  \/ doc.sections[x].status = "not_started" /\ alone[x].startedAt = now
    BY <1>2, <2>2
  <2>5. \A x, y \in Sections : alone[x].status = "in_progress" /\ alone[y].status = "in_progress" => x = y
    BY <2>3
  <2> QED
    BY <1>2, <2>1, <2>4, <2>5, SectionsLawful
<1>10. [doc EXCEPT !.sections[s] = opened] = [doc EXCEPT !.sections = alone]
  OBVIOUS
<1> HIDE DEF closing, alone, opens, others
<1> QED
  BY <1>3, <1>4, <1>8, <1>9, <1>10, SectionsSaveSerial, DropSerial

\* An answer is written only while its section's clock runs below the limit,
\* and the section was worked in for no longer than its clock says.
LEMMA AnswerSaveSerial ==
    ASSUME OneRequest, TypeInv, SerialInv, NEW r \in Requests, AnswerSave(r)
    PROVE  SerialInv' /\ Keeps(doc') /\ InTime(doc')
<1> DEFINE c == call[r]
           entry == [item |-> c.item, value |-> c.value]
           edited == [doc.responses EXCEPT ![EntryFor(doc, c.item)] = entry]
           pushed == Append(doc.responses, entry)
           open == c.section \in InProgress(doc) /\ ~TimeUp(doc, c.section)
<1>1. pc[r] \in Working /\ pc[r] = "handle" /\ c.kind = "answer"
  BY DEF AnswerSave, At, Working
<1>2. /\ local[r] = doc /\ doc \in Documents /\ DocOK(doc) /\ ClockOK(doc) /\ now \in Nat
      /\ doc.status = "in_progress" /\ c.section = SectionOf[c.item] /\ doc.started
  BY <1>1, AtWorkSerial DEF Fits, CandidateWork, DocOK
<1>3. /\ c.item \in Items /\ c.section \in Sections /\ entry \in [item : Items, value : Values]
      /\ entry.item = c.item /\ doc.responses \in Responses /\ Len(doc.responses) \in Nat
  BY <1>1, <1>2, AtWork DEF Documents, Responses
<1>4. \/ Drop(r)
      \/ GuardedSave(r, [doc EXCEPT !.sections = Closed(doc.sections, {c.section})], "idle", None)
      \/ open /\ Answered(doc, c.item) /\ GuardedSave(r, [doc EXCEPT !.responses = edited], "idle", None)
      \/ open /\ Save(r, [doc EXCEPT !.responses = pushed], TRUE, "idle", None)
  BY <1>2 DEF AnswerSave, OpenSave
<1>5. UNCHANGED serves
  BY DEF AnswerSave
<1>6. open => used[SectionOf[c.item]] < SectionLimit
  <2> SUFFICES ASSUME open PROVE used[c.section] < SectionLimit
    BY <1>2
  <2>1. doc.sections[c.section] \in [status : SectionStatuses, startedAt : Times] /\ used[c.section] \in Nat
    BY <1>2, <1>3 DEF Documents, TypeInv, TypeOK
  <2>2. doc.sections[c.section].startedAt \in Nat /\ used[c.section] <= now - doc.sections[c.section].startedAt
    BY <1>2, <2>1 DEF ClockOK, Reading, Times
  <2>3. now - doc.sections[c.section].startedAt < SectionLimit
    BY <1>2, <2>2 DEF TimeUp, InProgress
  <2> QED
    BY <1>2, <2>1, <2>2, <2>3
<1>7. ASSUME NEW resp \in Responses, open,
             \E i \in Items : \A j : Among(resp, j) <=> (Among(doc.responses, j) \/ j = i),
             \A k \in 1..Len(resp) :
                 (k > Len(doc.responses) \/ resp[k] # doc.responses[k]) => resp[k] = entry,
             NEW bumps \in BOOLEAN, Save(r, [doc EXCEPT !.responses = resp], bumps, "idle", None)
      PROVE  SerialInv' /\ Keeps(doc') /\ InTime(doc')
  <2> DEFINE new == [doc EXCEPT !.responses = resp]
  <2>1. /\ new.status = doc.status /\ new.started = doc.started /\ new.responses = resp
        /\ new.result = doc.result /\ new.sections = doc.sections /\ new.pausedAt = doc.pausedAt
        /\ new.startDeadline = doc.startDeadline /\ new.expiresAt = doc.expiresAt
    BY <1>2 DEF Documents
  <2>2. Save(r, new, bumps, "idle", None)
    BY <1>7
  <2> HIDE DEF new
  <2>3. DocOK(new)
    BY <1>2, <2>1 DEF DocOK, Blank
  <2>4. ClockOK(new)
    BY <1>2, <2>1 DEF ClockOK, InProgress, Reading
  <2>5. Keeps(new)
    BY <1>2, <1>7, <2>1 DEF Keeps, Phase
  <2>6. InTime(new)
    BY <1>3, <1>6, <1>7, <2>1 DEF InTime
  <2> QED
    BY <1>5, <2>1, <2>2, <2>3, <2>4, <2>5, <2>6, LastSaveSerial DEF Lawful
<1>8. CASE open /\ Answered(doc, c.item) /\ GuardedSave(r, [doc EXCEPT !.responses = edited], "idle", None)
  <2>1. edited \in Responses
    BY <1>3, EditType
  <2>2. \A j : Among(edited, j) <=> Among(doc.responses, j)
    <3> HIDE DEF entry
    <3> QED
      BY <1>2, <1>3, <1>8, EditKeeps
  <2>3. Among(doc.responses, c.item)
    BY <1>8 DEF Answered, Among
  <2>4. \A k \in 1..Len(edited) : edited[k] # doc.responses[k] => edited[k] = entry
    <3>1. EntryFor(doc, c.item) \in 1..Len(doc.responses)
      BY <1>2, <1>8, EntryForIs
    <3> QED
      BY <1>3, <3>1, ExceptSeq DEF Responses
  <2>5. Len(edited) = Len(doc.responses)
    <3>1. EntryFor(doc, c.item) \in 1..Len(doc.responses)
      BY <1>2, <1>8, EntryForIs
    <3> QED
      BY <1>3, <3>1, ExceptSeq DEF Responses
  <2>6. Save(r, [doc EXCEPT !.responses = edited], TRUE, "idle", None)
    BY <1>8 DEF GuardedSave, SerialInv, RequestOK
  <2>7. \E i \in Items : \A j : Among(edited, j) <=> (Among(doc.responses, j) \/ j = i)
    BY <1>3, <2>2, <2>3
  <2>8. \A k \in 1..Len(edited) :
            (k > Len(doc.responses) \/ edited[k] # doc.responses[k]) => edited[k] = entry
    <3> HIDE DEF edited, entry
    <3> QED
      BY <1>3, <2>4, <2>5
  <2> HIDE DEF edited, entry, open, c
  <2> QED
    BY <1>7, <1>8, <2>1, <2>6, <2>7, <2>8
<1>9. CASE open /\ Save(r, [doc EXCEPT !.responses = pushed], TRUE, "idle", None)
  <2>1. pushed \in Responses
    BY <1>3, AppendType
  <2>2. \A j : Among(pushed, j) <=> (Among(doc.responses, j) \/ j = c.item)
    <3> HIDE DEF entry
    <3> QED
      BY <1>3, PushKeeps
  <2>3. \A k \in 1..Len(pushed) : (k > Len(doc.responses) \/ pushed[k] # doc.responses[k]) => pushed[k] = entry
    BY <1>3, AppendProperties DEF Responses
  <2> HIDE DEF pushed, entry
  <2> QED
    BY <1>3, <1>7, <1>9, <2>1, <2>2, <2>3
<1> HIDE DEF edited, pushed, open
<1> QED
  BY <1>2, <1>4, <1>5, <1>8, <1>9, ClosingLawful, SectionsSaveSerial, DropSerial

LEMMA SubmitSectionSaveSerial ==
    ASSUME OneRequest, TypeInv, SerialInv, NEW r \in Requests, SubmitSectionSave(r)
    PROVE  SerialInv' /\ Keeps(doc') /\ InTime(doc')
<1>1. pc[r] \in Working /\ pc[r] = "handle" /\ call[r].kind = "submitSection"
  BY DEF SubmitSectionSave, At, Working
<1>2. local[r] = doc /\ doc.status = "in_progress"
  BY <1>1, AtWorkSerial DEF Fits, CandidateWork
<1>3. UNCHANGED serves
  BY DEF SubmitSectionSave
<1>4. \/ Drop(r)
      \/ GuardedSave(r, [doc EXCEPT !.sections = Closed(doc.sections, {call[r].section})], "idle", None)
  BY <1>2 DEF SubmitSectionSave
<1> QED
  BY <1>2, <1>3, <1>4, ClosingLawful, SectionsSaveSerial, DropSerial

LEMMA FlagsSaveSerial ==
    ASSUME OneRequest, TypeInv, SerialInv, NEW r \in Requests, FlagsSave(r)
    PROVE  SerialInv' /\ Keeps(doc') /\ InTime(doc')
<1> DEFINE total == doc.flags + call[r].n
           seen == IF total > Threshold THEN Threshold ELSE total
           new == [doc EXCEPT !.flags = seen]
<1>1. pc[r] \in Working /\ pc[r] = "handle" /\ call[r].kind = "flags"
  BY DEF FlagsSave, At, Working
<1>2. local[r] = doc /\ doc \in Documents /\ DocOK(doc) /\ ClockOK(doc)
  BY <1>1, AtWorkSerial
<1>3. Save(r, new, FALSE, "softlock", new) /\ UNCHANGED serves
  BY <1>2 DEF FlagsSave, OpenSave
<1> HIDE DEF seen
<1>4. /\ new.status = doc.status /\ new.started = doc.started /\ new.responses = doc.responses
      /\ new.result = doc.result /\ new.sections = doc.sections /\ new.pausedAt = doc.pausedAt
      /\ new.startDeadline = doc.startDeadline /\ new.expiresAt = doc.expiresAt
  BY <1>2 DEF Documents
<1> HIDE DEF new
<1>5. DocOK(new) /\ ClockOK(new)
  BY <1>2, <1>4 DEF DocOK, Blank, ClockOK, InProgress, Reading
<1>6. Keeps(new) /\ InTime(new)
  BY <1>4, SameIsInTime DEF Keeps, Phase
<1>7. Fits(call[r], "softlock", new)
  BY <1>1 DEF Fits
<1>8. serves' <= 1 /\ (new.result = None => serves' = 0)
  BY <1>3, <1>4 DEF SerialInv
<1> QED
  BY <1>1, <1>3, <1>5, <1>6, <1>7, <1>8, SaveSerial DEF Lawful, Steps, Working

LEMMA SoftLockSaveSerial ==
    ASSUME OneRequest, TypeInv, SerialInv, NEW r \in Requests, SoftLockSave(r)
    PROVE  SerialInv' /\ Keeps(doc') /\ InTime(doc')
<1> DEFINE new == [doc EXCEPT !.status = "paused", !.pausedAt = now]
<1>1. pc[r] \in Working
  BY DEF SoftLockSave, Working
<1>2. local[r] = doc /\ doc \in Documents /\ DocOK(doc) /\ ClockOK(doc) /\ now \in Nat
  BY <1>1, AtWorkSerial
<1>3. CASE Drop(r) /\ UNCHANGED serves
  BY <1>3, DropSerial
<1>4. CASE doc.status = "in_progress" /\ FinalizeSave(r, "integrity_violation")
  BY <1>1, <1>4, FinalizeSerial DEF EndedBy
<1>5. CASE doc.status = "in_progress" /\ Save(r, new, FALSE, "idle", None) /\ UNCHANGED serves
  <2>1. /\ new.status = "paused" /\ new.started = doc.started /\ new.responses = doc.responses
        /\ new.result = doc.result /\ new.sections = doc.sections /\ new.pausedAt = now
        /\ new.startDeadline = doc.startDeadline /\ new.expiresAt = doc.expiresAt
    BY <1>2 DEF Documents
  <2> HIDE DEF new
  <2>2. DocOK(new) /\ ClockOK(new)
    BY <1>2, <1>5, <2>1 DEF DocOK, Blank, ClockOK, InProgress, Reading
  <2>3. Keeps(new) /\ InTime(new)
    BY <1>5, <2>1, SameIsInTime DEF Keeps, Phase
  <2> QED
    BY <1>5, <2>1, <2>2, <2>3, LastSaveSerial DEF Lawful
<1> QED
  BY <1>2, <1>3, <1>4, <1>5 DEF SoftLockSave, OpenSave

LEMMA ResendSaveSerial ==
    ASSUME OneRequest, TypeInv, SerialInv, NEW r \in Requests, ResendSave(r)
    PROVE  SerialInv' /\ Keeps(doc') /\ InTime(doc')
<1> DEFINE st == IF doc.status \in {"expired", "cancelled"}
                 THEN IF doc.started THEN "in_progress" ELSE "scheduled" ELSE doc.status
           new == [doc EXCEPT !.startDeadline = now + Validity, !.expiresAt = now + Validity, !.status = st]
<1>1. pc[r] \in Working /\ pc[r] = "handle"
  BY DEF ResendSave, At, Working
<1>2. /\ local[r] = doc /\ doc \in Documents /\ DocOK(doc) /\ ClockOK(doc) /\ now \in Nat
      /\ doc.status # "completed" /\ doc.status \in Statuses /\ "resend" \in Kinds
  BY <1>1, AtWorkSerial DEF ResendSave, At, Fits, Documents, SerialInv, RequestOK
<1>3. Drop(r) \/ Save(r, new, FALSE, "idle", None)
  BY <1>2 DEF ResendSave, OpenSave
<1>4. UNCHANGED serves
  BY DEF ResendSave
<1>5. now + Validity <= now + Validity
  BY <1>2
<1> HIDE DEF st
<1>6. /\ new.status = st /\ new.started = doc.started /\ new.responses = doc.responses
      /\ new.result = doc.result /\ new.sections = doc.sections /\ new.pausedAt = doc.pausedAt
      /\ new.startDeadline = now + Validity /\ new.expiresAt = now + Validity
  BY <1>2 DEF Documents
<1> HIDE DEF new
<1>7. DocOK(new)
  BY <1>2, <1>5, <1>6 DEF DocOK, Blank, st
<1>8. ClockOK(new)
  <2>1. Reading(new) = Reading(doc)
    BY <1>6 DEF Reading, st
  <2> QED
    BY <1>2, <1>6, <2>1 DEF ClockOK, InProgress
<1>9. Keeps(new) /\ InTime(new)
  BY <1>2, <1>6, SameIsInTime DEF Keeps, Phase, st, Statuses
<1> QED
  BY <1>3, <1>4, <1>6, <1>7, <1>8, <1>9, LastSaveSerial, DropSerial DEF Lawful

LEMMA FindStaleSerial ==
    ASSUME OneRequest, TypeInv, SerialInv, NEW r \in Requests, FindStale(r)
    PROVE  SerialInv' /\ Keeps(doc') /\ InTime(doc')
<1>1. CASE Drop(r) /\ UNCHANGED serves
  BY <1>1, DropSerial
<1>2. CASE doc.status \in Live /\ ~doc.started
  <2>1. /\ doc' = doc /\ now' = now /\ used' = used /\ serves' = serves /\ call' = call
        /\ pc' = [pc EXCEPT ![r] = "handle"] /\ local' = [local EXCEPT ![r] = doc]
        /\ stale' = [stale EXCEPT ![r] = FALSE]
    BY <1>2 DEF FindStale
  <2>2. DocOK(doc)' /\ ClockOK(doc)'
    BY <2>1 DEF SerialInv, DocOK, ClockOK, Blank, InProgress, Reading
  <2>3. call[r].kind = "cancelStale" /\ doc.status = "scheduled"
    BY <1>2 DEF FindStale, TypeInv, WorkOK, SerialInv, DocOK, Live
  <2>4. ASSUME NEW q \in Requests PROVE RequestOK(q)'
    <3>1. q = r
      BY DEF OneRequest
    <3>2. pc'[q] = "handle" /\ local'[q] = doc /\ ~stale'[q] /\ call'[q].kind \in Kinds
      BY <1>2, <2>1, <3>1 DEF FindStale, TypeInv, TypeOK, SerialInv, RequestOK
    <3>3. Fits(call[q], pc[q], doc)'
      BY <2>1, <2>3, <3>1, <3>2 DEF Fits, CandidateWork
    <3> QED
      BY <2>1, <3>2, <3>3 DEF RequestOK
  <2> QED
    BY <2>1, <2>2, <2>4, SameIsLawful DEF SerialInv, Lawful
<1> QED
  BY <1>1, <1>2 DEF FindStale

LEMMA AfterwardsSerial ==
    ASSUME OneRequest, TypeInv, SerialInv, NEW r \in Requests, Telemetry(r) \/ Advance(r) \/ Fail(r)
    PROVE  SerialInv' /\ Keeps(doc') /\ InTime(doc')
<1>1. CASE Telemetry(r)
  <2>1. Save(r, doc, FALSE, "advance", None) /\ doc.status = "completed" /\ serves = 0
    BY <1>1 DEF Telemetry, SerialInv, RequestOK
  <2>2. serves' <= 1 /\ doc.result # None
    BY <1>1, <2>1 DEF Telemetry, SerialInv, DocOK
  <2> QED
    BY <1>1, <2>1, <2>2, SameIsLawful, SaveSerial DEF Steps, Working, Telemetry
<1>2. CASE Advance(r) \/ Fail(r)
  BY <1>2, DropSerial DEF Advance, Fail
<1> QED
  BY <1>1, <1>2

\* Time passes for the document and for the handlers that hold it.
LEMMA TickSerial ==
    ASSUME TypeInv, SerialInv, Tick
    PROVE  SerialInv' /\ Keeps(doc') /\ InTime(doc')
<1>1. /\ doc' = doc /\ pc' = pc /\ local' = local /\ call' = call /\ stale' = stale /\ serves' = serves
      /\ now \in Nat /\ now' = now + 1 /\ doc \in Documents /\ used \in [Sections -> Nat]
      /\ used' = [s \in Sections |->
                     IF doc.status = "in_progress" /\ s \in InProgress(doc) THEN used[s] + 1 ELSE used[s]]
      /\ DocOK(doc) /\ ClockOK(doc)
  BY DEF Tick, TypeInv, TypeOK, SerialInv
<1>2. \A n \in Nat : now > n => now' > n
  BY <1>1
<1>3. doc.startDeadline \in Nat /\ doc.expiresAt \in Nat
  BY <1>1 DEF Documents
<1>4. DocOK(doc)'
  BY <1>1, <1>2, <1>3 DEF DocOK, Blank
<1>5. ClockOK(doc)'
  <2>1. ASSUME NEW s \in InProgress(doc)
        PROVE  /\ used'[s] <= Reading(doc)' - doc.sections[s].startedAt
               /\ "resend" \notin Kinds /\ doc.status \in {"in_progress", "paused"} =>
                     Reading(doc)' - doc.sections[s].startedAt <= used'[s]
    <3>1. /\ doc.sections[s].startedAt \in Nat /\ s \in Sections /\ used[s] \in Nat
          /\ used[s] <= Reading(doc) - doc.sections[s].startedAt
          /\ "resend" \notin Kinds /\ doc.status \in {"in_progress", "paused"} =>
                Reading(doc) - doc.sections[s].startedAt <= used[s]
      BY <1>1 DEF ClockOK, Documents, Times, InProgress
    <3>2. CASE doc.status = "paused"
      <4>1. Reading(doc)' = Reading(doc) /\ used'[s] = used[s]
        BY <1>1, <3>1, <3>2 DEF Reading
      <4> QED
        BY <3>1, <4>1
    <3>3. CASE doc.status # "paused"
      <4>1. Reading(doc) = now /\ Reading(doc)' = now + 1 /\ used'[s] \in {used[s], used[s] + 1}
            /\ (doc.status = "in_progress" => used'[s] = used[s] + 1)
        BY <1>1, <3>1, <3>3 DEF Reading
      <4>2. used'[s] <= Reading(doc)' - doc.sections[s].startedAt
        BY <1>1, <3>1, <4>1
      <4>3. CASE doc.status = "in_progress"
        BY <1>1, <3>1, <4>1, <4>2, <4>3
      <4>4. CASE doc.status # "in_progress"
        BY <3>3, <4>2, <4>4
      <4> QED
        BY <4>3, <4>4
    <3> QED
      BY <3>2, <3>3
  <2>2. \A s \in Sections : doc.sections[s].status = "not_started" => used'[s] = used[s]
    BY <1>1 DEF InProgress
  <2>3. InProgress(doc)' = InProgress(doc)
    BY <1>1 DEF InProgress
  <2> QED
    BY <1>1, <2>1, <2>2, <2>3 DEF ClockOK
<1>6. ASSUME NEW q \in Requests PROVE RequestOK(q)'
  <2>1. Fits(call[q], pc[q], doc) => Fits(call[q], pc[q], doc)'
    BY <1>1, <1>2, <1>3 DEF Fits, Past
  <2> QED
    BY <1>1, <2>1 DEF SerialInv, RequestOK
<1> QED
  BY <1>1, <1>4, <1>5, <1>6, SameIsLawful DEF SerialInv, Lawful

LEMMA SerialNext ==
    ASSUME OneRequest, TypeInv, SerialInv, [Next]_vars
    PROVE  SerialInv' /\ Keeps(doc') /\ InTime(doc')
<1>1. CASE Tick
  BY <1>1, TickSerial
<1>2. ASSUME NEW r \in Requests, Load(r) PROVE SerialInv' /\ Keeps(doc') /\ InTime(doc')
  BY <1>2, LoadSerial
<1>3. ASSUME NEW r \in Requests, Proceed(r) PROVE SerialInv' /\ Keeps(doc') /\ InTime(doc')
  BY <1>3, FindStaleSerial, ResumeSaveSerial, StartSaveSerial, StatusSaveSerial, StartSectionSaveSerial,
     AnswerSaveSerial, SubmitSectionSaveSerial, ScoringSerial, FlagsSaveSerial, SoftLockSaveSerial,
     ResendSaveSerial, AfterwardsSerial DEF Proceed
<1>4. ASSUME NEW r \in Requests, Fail(r) PROVE SerialInv' /\ Keeps(doc') /\ InTime(doc')
  BY <1>4, AfterwardsSerial
<1>5. CASE UNCHANGED vars
  <2>1. DocOK(doc)' /\ ClockOK(doc)'
    BY <1>5 DEF vars, SerialInv, DocOK, ClockOK, Blank, InProgress, Reading
  <2>2. ASSUME NEW q \in Requests PROVE RequestOK(q)'
    <3>1. Fits(call[q], pc[q], doc) => Fits(call[q], pc[q], doc)'
      BY <1>5 DEF vars, Fits, Past
    <3> QED
      BY <1>5, <3>1 DEF vars, SerialInv, RequestOK
  <2> QED
    BY <1>5, <2>1, <2>2, SameIsLawful DEF vars, SerialInv, Lawful
<1> QED
  BY <1>1, <1>2, <1>3, <1>4, <1>5 DEF Next

LEMMA SerialInit == Init => SerialInv
<1> SUFFICES ASSUME Init PROVE SerialInv
  OBVIOUS
<1>1. /\ doc.status = "scheduled" /\ ~doc.started /\ doc.result = None /\ doc.pausedAt = None
      /\ doc.sections = [s \in Sections |-> NotStarted]
      /\ doc.startDeadline = (IF StartWindow < Validity THEN StartWindow ELSE Validity)
      /\ doc.expiresAt = Validity
  BY DEF Init, Invitation
<1>2. DocOK(doc)
  BY <1>1 DEF DocOK, Blank, NotStarted
<1>3. ClockOK(doc)
  BY <1>1 DEF Init, ClockOK, InProgress, NotStarted
<1>4. \A r \in Requests : RequestOK(r)
  BY DEF Init, RequestOK, Working
<1> QED
  BY <1>2, <1>3, <1>4 DEF Init, SerialInv

LEMMA SerialAlways == ASSUME OneRequest PROVE Spec => []SerialInv
<1>1. TypeInv /\ SerialInv /\ [Next]_vars => SerialInv'
  BY SerialNext
<1> QED
  BY <1>1, SerialInit, TypeInvAlways, PTL DEF Spec

-----------------------------------------------------------------------------
(* The theorems                                                            *)

LEMMA SittingFollows == ASSUME TypeInv, SerialInv PROVE SittingIsExact
<1>1. DocOK(doc) /\ ClockOK(doc)
  BY DEF SerialInv
<1>2. OneSectionAtATime
  <2>1. CASE InProgress(doc) = {}
    BY <2>1, FS_EmptySet DEF OneSectionAtATime
  <2>2. CASE InProgress(doc) # {}
    <3>1. PICK s : s \in InProgress(doc)
      BY <2>2
    <3>2. InProgress(doc) = {s}
      BY <1>1, <3>1 DEF ClockOK
    <3>3. Cardinality({s}) = 1
      BY FS_Singleton
    <3> QED
      BY <3>2, <3>3 DEF OneSectionAtATime
  <2> QED
    BY <2>1, <2>2
<1>3. NoTimeGained
  BY <1>1 DEF NoTimeGained, ClockOK, Reading
<1>4. SavedAnswersAreScored /\ ExpiredMeansUntouched
  BY <1>1 DEF SavedAnswersAreScored, ExpiredMeansUntouched, DocOK
<1>5. ExposureCountedOnce
  BY DEF SerialInv, ExposureCountedOnce
<1> QED
  BY <1>2, <1>3, <1>4, <1>5 DEF SittingIsExact

\* While requests do not overlap a sitting is exact: one section at a time, no
\* clock gives time away, all saved answers are scored, begun work does not
\* expire unscored and exposure counts a session once.
THEOREM SittingsAreExact == ASSUME OneRequest PROVE Spec => []SittingIsExact
<1>1. TypeInv /\ SerialInv => SittingIsExact
  BY SittingFollows
<1> QED
  BY <1>1, SerialAlways, TypeInvAlways, PTL

\* Unless a recruiter issues a session again, the clock of a running section is
\* exactly the time the candidate could work in it, whatever pauses it had.
THEOREM ClocksAreExact ==
    ASSUME OneRequest, "resend" \notin Kinds
    PROVE  Spec => []SectionClockIsExact
<1>1. TypeInv /\ SerialInv => SectionClockIsExact
  <2> SUFFICES ASSUME TypeInv, SerialInv, doc.status = "in_progress", NEW s \in InProgress(doc)
               PROVE  now - doc.sections[s].startedAt = used[s]
    BY DEF SectionClockIsExact
  <2>1. s \in Sections /\ used[s] \in Nat /\ now \in Nat /\ doc.sections[s].startedAt \in Times
    BY DEF TypeInv, TypeOK, InProgress, Documents
  <2>2. /\ doc.sections[s].startedAt # None /\ used[s] <= now - doc.sections[s].startedAt
        /\ now - doc.sections[s].startedAt <= used[s]
    BY DEF SerialInv, ClockOK, Reading
  <2> QED
    BY <2>1, <2>2 DEF Times
<1> QED
  BY <1>1, SerialAlways, TypeInvAlways, PTL

\* While requests do not overlap nothing is written into a section whose time is
\* up, and a stage move never cancels an attempt in progress.
THEOREM WorkStaysRespected == ASSUME OneRequest PROVE Spec => WorkIsRespected
<1>1. TypeInv /\ SerialInv /\ [Next]_vars =>
        [\A k \in 1..Len(doc'.responses) :
            (k > Len(doc.responses) \/ doc'.responses[k] # doc.responses[k])
            => used[SectionOf[doc'.responses[k].item]] < SectionLimit]_vars
  BY SerialNext DEF InTime
<1>2. SerialInv =>
        [\A r \in Requests :
            (At(r, "handle", {"cancelStale"}) /\ doc.started) => doc'.status = doc.status \/ pc'[r] # "idle"]_vars
  BY DEF SerialInv, RequestOK, DocOK, Fits, At, Working
<1>3. Spec => NoLateAnswers
  BY <1>1, SerialAlways, TypeInvAlways, PTL DEF Spec, NoLateAnswers
<1>4. Spec => AttemptsAreNotKilled
  BY <1>2, SerialAlways, PTL DEF Spec, AttemptsAreNotKilled
<1> QED
  BY <1>3, <1>4 DEF WorkIsRespected

LEMMA PromiseInit == Init => Promise!Init
<1> SUFFICES ASSUME Init PROVE Promise!Init
  OBVIOUS
<1>1. doc.status = "scheduled" /\ doc.started = FALSE /\ doc.result = None /\ doc.responses = <<>>
  BY DEF Init, Invitation
<1>2. {i \in Items : Answered(doc, i)} = {}
  BY <1>1 DEF Answered
<1> QED
  BY <1>1, <1>2, Zenon DEF Promise!Init

\* While requests do not overlap the session implements AssessmentPromise: it is
\* begun once, keeps its answers, is withdrawn and reissued, and is scored once,
\* for good, over every answer it kept.
THEOREM PromiseIsKept == ASSUME OneRequest PROVE Spec => KeepsPromise
<1>1. TypeInv /\ SerialInv /\ [Next]_vars => [Promise!Next]_Promise!vars
  BY SerialNext, KeepsIsPromised
<1> QED
  BY <1>1, PromiseInit, SerialAlways, TypeInvAlways, PTL DEF Spec, KeepsPromise, Promise!Spec

=============================================================================
