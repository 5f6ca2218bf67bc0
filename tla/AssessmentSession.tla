--------------------------- MODULE AssessmentSession ---------------------------
(***************************************************************************)
(* One assessment session document, shared by every request, cron run and  *)
(* pipeline hook that may touch it: src/services/assessmentService.js, the *)
(* recruiter and portal controllers over it, the portal's auth middleware  *)
(* and the expiry sweep of src/jobs/assessmentReminderJob.js.              *)
(*                                                                         *)
(* Every handler has the same shape: it loads the document, decides on its *)
(* copy, awaits other collections, and saves.  A request slot r therefore  *)
(* holds a copy local[r] between its load and its saves, and the requests  *)
(* of all processes interleave between those points.                       *)
(*                                                                         *)
(* Saves are Mongoose saves (external).  A save writes only the paths the  *)
(* handler modified, and it checks the document's version only when it     *)
(* rewrites an array or an element of one:                                 *)
(*   - replacing a whole array is refused on a version change, and bumps   *)
(*     the version (GuardedSave);                                          *)
(*   - writing inside one element is refused on a version change, and does *)
(*     not bump it (ElementSave);                                          *)
(*   - a plain push bumps the version and is never refused, and a save of  *)
(*     scalars is never refused and bumps nothing (OpenSave).              *)
(* The version only grows and is only compared with the one loaded, so one *)
(* bit per request, stale[r], stands for it.                               *)
(***************************************************************************)
EXTENDS Integers, Sequences, FiniteSets

CONSTANTS
    Requests,       \* slots for handlers in flight, over all processes
    Sections,       \* sections of the session's paper
    Items,          \* items assembled for the candidate
    SectionOf,      \* the section each item was assembled into
    Values,         \* answers the candidate can give
    Kinds,          \* the operations this instance exercises
    Targets,        \* stages a recruiter may move the candidate to meanwhile
    Validity,       \* ticks a link stays valid
    StartWindow,    \* ticks within which the candidate must start
    SectionLimit,   \* ticks a section may be worked on (timeLimitSec)
    AutoResume,     \* ticks a soft-lock pause lasts unattended
    SoftLock,       \* "off", "pause" or "auto_submit": the paper's policy
    Threshold,      \* integrity flags that trigger the soft lock
    Failures,       \* whether handlers may die between two saves
    MaxTime,        \* bound: the clock stops here
    MaxResponses,   \* bound: entries of the responses array
    None            \* an unset path

Portal == {"start", "lapse", "startSection", "answer", "submitSection", "submit", "flags"}
Recruiter == {"resend", "cancel", "resume", "end"}
AllKinds == Portal \cup Recruiter \cup {"expire", "cancelStale"}

ASSUME TimeAssumption ==
    /\ Validity \in Nat /\ StartWindow \in Nat /\ SectionLimit \in Nat
    /\ AutoResume \in Nat /\ MaxTime \in Nat /\ MaxResponses \in Nat
    /\ Threshold \in Nat \ {0}
ASSUME PaperAssumption == SectionOf \in [Items -> Sections]
ASSUME PolicyAssumption ==
    /\ Kinds \subseteq AllKinds
    /\ SoftLock \in {"off", "pause", "auto_submit"}
    /\ Failures \in BOOLEAN
    /\ Targets \subseteq {"interview_scheduled", "rejected"}
ASSUME NoneAssumption ==
    None \notin Nat /\ None \notin Sections /\ None \notin Items

VARIABLES
    now,    \* the clock
    doc,    \* the stored AssessmentSession document
    serves, \* how often the exposure telemetry counted this session
    stage,  \* the candidate's pipeline stage
    pc,     \* where each request is
    call,   \* what each request was asked to do
    local,  \* the copy of the document each request works on
    stale,  \* whether the stored version moved since that copy was loaded
    used    \* history: ticks the candidate could really work in each section

vars == <<now, doc, serves, stage, pc, call, local, stale, used>>

Statuses == {"scheduled", "in_progress", "paused", "completed", "expired", "cancelled"}
Live == {"scheduled", "in_progress", "paused"}
SectionStatuses == {"not_started", "in_progress", "completed"}
EndedBy == {"submit", "expiry", "integrity_violation"}
Stages == {"assessment_scheduled", "assessment_completed", "interview_scheduled", "rejected"}

Times == Nat \cup {None}
Responses == Seq([item : Items, value : Values])
Results == [by : EndedBy, scored : Responses]
Documents ==
    [status : Statuses, started : BOOLEAN, startDeadline : Nat, expiresAt : Nat,
     pausedAt : Times, flags : Nat,
     sections : [Sections -> [status : SectionStatuses, startedAt : Times]],
     responses : Responses,
     result : Results \cup {None}]
Calls == [kind : AllKinds, section : Sections \cup {None}, item : Items \cup {None},
          value : Values \cup {None}, n : Nat]

Steps == {"idle", "find", "resume", "handle", "softlock", "telemetry", "advance"}

ASSUME ResultAssumption == None \notin Results

TypeOK ==
    /\ now \in Nat
    /\ doc \in Documents
    /\ serves \in Nat
    /\ stage \in Stages
    /\ pc \in [Requests -> Steps]
    /\ call \in [Requests -> Calls \cup {None}]
    /\ local \in [Requests -> Documents \cup {None}]
    /\ stale \in [Requests -> BOOLEAN]
    /\ used \in [Sections -> Nat]

NotStarted == [status |-> "not_started", startedAt |-> None]

\* The document sendAssessment creates: a live invitation nobody has opened.
Invitation ==
    [status |-> "scheduled", started |-> FALSE,
     startDeadline |-> IF StartWindow < Validity THEN StartWindow ELSE Validity,
     expiresAt |-> Validity, pausedAt |-> None, flags |-> 0,
     sections |-> [s \in Sections |-> NotStarted], responses |-> <<>>, result |-> None]

Init ==
    /\ now = 0
    /\ doc = Invitation
    /\ serves = 0
    /\ stage = "assessment_scheduled"
    /\ pc = [r \in Requests |-> "idle"]
    /\ call = [r \in Requests |-> None]
    /\ local = [r \in Requests |-> None]
    /\ stale = [r \in Requests |-> FALSE]
    /\ used = [s \in Sections |-> 0]

-----------------------------------------------------------------------------
(* Reading a document                                                      *)

Past(d) == now > d.expiresAt

InProgress(d) == {s \in Sections : d.sections[s].status = "in_progress"}

\* The remaining time of a section is zero, on the request's own copy.
TimeUp(d, s) ==
    /\ d.sections[s].status = "in_progress"
    /\ d.sections[s].startedAt # None
    /\ now - d.sections[s].startedAt >= SectionLimit

Answered(d, i) == \E k \in 1..Len(d.responses) : d.responses[k].item = i

\* The first entry of the array for an item, the one find() returns.
EntryFor(d, i) ==
    CHOOSE k \in 1..Len(d.responses) :
        /\ d.responses[k].item = i
        /\ \A j \in 1..(k - 1) : d.responses[j].item # i

\* requireAssessmentAuth lets the request through to its handler.
AuthPasses(d) == d.status # "cancelled" /\ (Past(d) => d.status = "completed")

\* guardLive lets a handler go on, after an auto-resume if the pause is over.
\* It does not look at "expired".
GuardLive(d) ==
    /\ d.status \notin {"completed", "cancelled"}
    /\ ~Past(d)
    /\ d.status = "paused" => d.pausedAt = None \/ now - d.pausedAt >= AutoResume
    /\ d.started

-----------------------------------------------------------------------------
(* Computing on a copy                                                     *)

Closed(secs, which) ==
    [s \in Sections |-> IF s \in which THEN [secs[s] EXCEPT !.status = "completed"] ELSE secs[s]]

\* Mutant of Resumed: the section's clock starts again.
ResumedRestarted(d) ==
    [d EXCEPT !.status = "in_progress", !.pausedAt = None,
        !.sections = [s \in Sections |->
            IF s \in InProgress(d) THEN [d.sections[s] EXCEPT !.startedAt = now] ELSE d.sections[s]]]

\* resumeFromPause: the running section's clock moves by the pause.
Resumed(d) ==
    LET pausedFor == IF d.pausedAt = None THEN 0 ELSE now - d.pausedAt
    IN  [d EXCEPT !.status = "in_progress", !.pausedAt = None,
            !.sections = [s \in Sections |->
                IF s \in InProgress(d) /\ d.sections[s].startedAt # None
                THEN [d.sections[s] EXCEPT !.startedAt = @ + pausedFor]
                ELSE d.sections[s]]]

-----------------------------------------------------------------------------
(* Saving a copy                                                           *)

\* Write d; r goes on at step next with the copy kept.
Save(r, d, bumps, next, kept) ==
    /\ doc' = d
    /\ pc' = [pc EXCEPT ![r] = next]
    /\ call' = IF next = "idle" THEN [call EXCEPT ![r] = None] ELSE call
    /\ local' = [local EXCEPT ![r] = kept]
    /\ stale' = [q \in Requests |->
                    IF q = r THEN stale[r] /\ next # "idle"
                    ELSE stale[q] \/ (bumps /\ pc[q] # "idle")]
    /\ UNCHANGED <<now, used>>

Drop(r) == Save(r, doc, FALSE, "idle", None)

OpenSave(r, d, bumps, next, kept) == Save(r, d, bumps, next, kept)

\* Mutant of GuardedSave: the array is not marked as modified as a whole, so
\* the save is neither refused nor counted.
UnmarkedSave(r, d, next, kept) == Save(r, d, FALSE, next, kept)

\* VersionError: the handler's promise rejects and the request is over.
GuardedSave(r, d, next, kept) ==
    IF stale[r] THEN Drop(r) ELSE Save(r, d, TRUE, next, kept)

ElementSave(r, d, next, kept) ==
    IF stale[r] THEN Drop(r) ELSE Save(r, d, FALSE, next, kept)

-----------------------------------------------------------------------------
(* Requests arriving                                                       *)

Ask(k, s, i, v, n) == [kind |-> k, section |-> s, item |-> i, value |-> v, n |-> n]

Begin(r, c, step) ==
    /\ pc[r] = "idle"
    /\ c.kind \in Kinds
    /\ pc' = [pc EXCEPT ![r] = step]
    /\ call' = [call EXCEPT ![r] = c]
    /\ local' = [local EXCEPT ![r] = doc]
    /\ UNCHANGED <<now, doc, serves, stage, stale, used>>

\* Portal handlers behind guardLive save the auto-resume first.  A request that
\* is turned away without one changes nothing and is left out.
BeginLive(r, c) ==
    /\ AuthPasses(doc)
    /\ GuardLive(doc)
    /\ Begin(r, c, IF doc.status = "paused" THEN "resume" ELSE "handle")

LoadStart(r) ==
    /\ AuthPasses(doc) /\ doc.status # "completed" /\ ~doc.started
    /\ Begin(r, Ask(IF now > doc.startDeadline THEN "lapse" ELSE "start", None, None, None, 0), "handle")

LoadStartSection(r, s) ==
    /\ doc.status = "paused" \/ doc.sections[s].status # "completed"
    /\ BeginLive(r, Ask("startSection", s, None, None, 0))

LoadAnswer(r, i, v) ==
    /\ doc.status = "paused" \/ doc.sections[SectionOf[i]].status = "in_progress"
    /\ BeginLive(r, Ask("answer", SectionOf[i], i, v, 0))

LoadSubmitSection(r, s) ==
    /\ doc.status = "paused" \/ doc.sections[s].status # "completed"
    /\ BeginLive(r, Ask("submitSection", s, None, None, 0))

LoadSubmit(r) == BeginLive(r, Ask("submit", None, None, None, 0))

\* The proctoring flush is not behind guardLive: any session takes it.
LoadFlags(r, n) ==
    /\ AuthPasses(doc)
    /\ Begin(r, Ask("flags", None, None, None, n), "handle")

\* Mutants of LoadExpire: the sweep's status filter is too narrow.
LoadExpireUnpaused(r) ==
    /\ doc.status \in {"scheduled", "in_progress"} /\ Past(doc)
    /\ Begin(r, Ask("expire", None, None, None, 0), "handle")

LoadExpireScheduled(r) ==
    /\ doc.status = "scheduled" /\ Past(doc)
    /\ Begin(r, Ask("expire", None, None, None, 0), "handle")

\* The window is over: the sweep found the session, or a portal call of the
\* candidate hit the middleware.  Both call expireSession.
LoadExpire(r) ==
    /\ doc.status \in Live /\ Past(doc)
    /\ Begin(r, Ask("expire", None, None, None, 0), "handle")

LoadResend(r) ==
    /\ doc.status # "completed"
    /\ ~(doc.status = "in_progress" /\ ~Past(doc))
    /\ Begin(r, Ask("resend", None, None, None, 0), "handle")

\* Mutant of LoadCancel: the check for a completed session is lost.
LoadCancelAny(r) ==
    /\ doc.status # "cancelled"
    /\ Begin(r, Ask("cancel", None, None, None, 0), "handle")

LoadCancel(r) ==
    /\ doc.status \notin {"completed", "cancelled"}
    /\ Begin(r, Ask("cancel", None, None, None, 0), "handle")

LoadResume(r) ==
    /\ doc.status = "paused"
    /\ Begin(r, Ask("resume", None, None, None, 0), "resume")

LoadEnd(r) ==
    /\ doc.status \in {"in_progress", "paused"}
    /\ Begin(r, Ask("end", None, None, None, 0), "handle")

\* A stage move commits on the candidate first; the pipeline then looks for
\* the session to cancel.
MoveCandidate(r, to) ==
    /\ pc[r] = "idle" /\ "cancelStale" \in Kinds
    /\ stage # "rejected" /\ stage # to
    /\ stage' = to
    /\ pc' = [pc EXCEPT ![r] = "find"]
    /\ call' = [call EXCEPT ![r] = Ask("cancelStale", None, None, None, 0)]
    /\ UNCHANGED <<now, doc, serves, local, stale, used>>

\* Mutant of FindStale: an attempt in progress is cancelled too.
FindStaleStarted(r) ==
    /\ pc[r] = "find"
    /\ IF doc.status \in Live
       THEN /\ pc' = [pc EXCEPT ![r] = "handle"]
            /\ local' = [local EXCEPT ![r] = doc]
            /\ stale' = [stale EXCEPT ![r] = FALSE]
            /\ UNCHANGED <<now, doc, call, used>>
       ELSE Drop(r)
    /\ UNCHANGED <<serves, stage>>

FindStale(r) ==
    /\ pc[r] = "find"
    /\ IF doc.status \in Live /\ ~doc.started
       THEN /\ pc' = [pc EXCEPT ![r] = "handle"]
            /\ local' = [local EXCEPT ![r] = doc]
            /\ stale' = [stale EXCEPT ![r] = FALSE]
            /\ UNCHANGED <<now, doc, call, used>>
       ELSE Drop(r)
    /\ UNCHANGED <<serves, stage>>

-----------------------------------------------------------------------------
(* Requests handled                                                        *)

At(r, step, kinds) == pc[r] = step /\ call[r].kind \in kinds

ResumeSave(r) ==
    LET d == Resumed(local[r])
        last == call[r].kind = "resume"
    IN  /\ pc[r] = "resume"
        /\ GuardedSave(r,
               [doc EXCEPT !.status = d.status, !.pausedAt = None, !.sections = d.sections],
               IF last THEN "idle" ELSE "handle", IF last THEN None ELSE d)
        /\ UNCHANGED <<serves, stage>>

StartSave(r) ==
    /\ At(r, "handle", {"start"})
    /\ GuardedSave(r,
           [doc EXCEPT !.status = "in_progress", !.started = TRUE,
                       !.sections = [s \in Sections |-> NotStarted]], "idle", None)
    /\ UNCHANGED <<serves, stage>>

LapseSave(r) ==
    /\ At(r, "handle", {"lapse"})
    /\ OpenSave(r, IF local[r].status = "expired" THEN doc ELSE [doc EXCEPT !.status = "expired"],
                FALSE, "idle", None)
    /\ UNCHANGED <<serves, stage>>

\* One section at a time: any other running section is closed first.  Closing
\* marks the whole array; opening alone writes inside one element.
StartSectionSave(r) ==
    LET d == local[r]
        s == call[r].section
        others == InProgress(d) \ {s}
        opens == d.sections[s].status = "not_started"
        over == d.sections[s].status = "completed"
        secs == Closed(d.sections, others \cup (IF TimeUp(d, s) THEN {s} ELSE {}))
        opened == [status |-> "in_progress", startedAt |-> now]
    IN  /\ At(r, "handle", {"startSection"})
        /\ \/ /\ ~over /\ (others # {} \/ TimeUp(d, s))
              /\ GuardedSave(r,
                    [doc EXCEPT !.sections = IF opens THEN [secs EXCEPT ![s] = opened] ELSE secs],
                    "idle", None)
           \/ /\ others = {} /\ opens
              /\ ElementSave(r, [doc EXCEPT !.sections[s] = opened], "idle", None)
           \/ /\ over \/ (others = {} /\ ~opens /\ ~TimeUp(d, s))
              /\ Drop(r)
        /\ UNCHANGED <<serves, stage>>

\* Mutant of AnswerSave: every answer rewrites the array from the copy, and
\* nothing checks the copy is still current.
AnswerSaveUnguarded(r) ==
    LET d == local[r]
        entry == [item |-> call[r].item, value |-> call[r].value]
    IN  /\ At(r, "handle", {"answer"})
        /\ IF call[r].section \in InProgress(d) /\ ~Answered(d, call[r].item)
           THEN OpenSave(r, [doc EXCEPT !.responses = Append(d.responses, entry)], TRUE, "idle", None)
           ELSE Drop(r)
        /\ UNCHANGED <<serves, stage>>

\* A first answer is pushed; an answer edited in place rewrites the array; an
\* answer that comes too late closes its section instead.
AnswerSave(r) ==
    LET d == local[r]
        c == call[r]
        entry == [item |-> c.item, value |-> c.value]
        open == c.section \in InProgress(d) /\ ~TimeUp(d, c.section)
    IN  /\ At(r, "handle", {"answer"})
        /\ \/ c.section \notin InProgress(d) /\ Drop(r)
           \/ /\ TimeUp(d, c.section)
              /\ GuardedSave(r, [doc EXCEPT !.sections = Closed(d.sections, {c.section})], "idle", None)
           \/ /\ open /\ Answered(d, c.item)
              /\ GuardedSave(r,
                    [doc EXCEPT !.responses = [d.responses EXCEPT ![EntryFor(d, c.item)] = entry]],
                    "idle", None)
           \/ /\ open /\ ~Answered(d, c.item)
              /\ Len(doc.responses) < MaxResponses
              /\ OpenSave(r, [doc EXCEPT !.responses = Append(doc.responses, entry)], TRUE, "idle", None)
        /\ UNCHANGED <<serves, stage>>

SubmitSectionSave(r) ==
    /\ At(r, "handle", {"submitSection"})
    /\ IF local[r].sections[call[r].section].status = "completed"
       THEN Drop(r)
       ELSE GuardedSave(r, [doc EXCEPT !.sections = Closed(local[r].sections, {call[r].section})],
                        "idle", None)
    /\ UNCHANGED <<serves, stage>>

\* Mutants of FinalizeSave: no version check; answers of running sections lost.
FinalizeSaveUnchecked(r, by) ==
    LET d == local[r]
    IN  /\ OpenSave(r,
              [doc EXCEPT !.status = "completed",
                          !.result = [by |-> by, scored |-> d.responses],
                          !.sections = Closed(d.sections, InProgress(d))],
              TRUE, "telemetry", None)
        /\ UNCHANGED <<serves, stage>>

FinalizeSavePartial(r, by) ==
    LET d == local[r]
        kept == SelectSeq(d.responses, LAMBDA e : SectionOf[e.item] \notin InProgress(d))
    IN  /\ GuardedSave(r,
              [doc EXCEPT !.status = "completed",
                          !.result = [by |-> by, scored |-> kept],
                          !.sections = Closed(d.sections, InProgress(d))],
              "telemetry", None)
        /\ UNCHANGED <<serves, stage>>

\* finalizeSession scores the copy and completes the session in one save.
FinalizeSave(r, by) ==
    LET d == local[r]
    IN  /\ GuardedSave(r,
              [doc EXCEPT !.status = "completed",
                          !.result = [by |-> by, scored |-> d.responses],
                          !.sections = Closed(d.sections, InProgress(d))],
              "telemetry", None)
        /\ UNCHANGED <<serves, stage>>

SubmitSave(r) == At(r, "handle", {"submit"}) /\ FinalizeSave(r, "submit")

\* Mutant of EndSave: a reason the schema does not have.
EndSaveUnknown(r) == At(r, "handle", {"end"}) /\ FinalizeSave(r, "termination")

EndSave(r) == At(r, "handle", {"end"}) /\ FinalizeSave(r, "expiry")

\* Work that was begun is scored; an untouched invitation just expires.
ExpireSave(r) ==
    /\ At(r, "handle", {"expire"})
    /\ IF local[r].started
       THEN FinalizeSave(r, "expiry")
       ELSE /\ OpenSave(r, [doc EXCEPT !.status = "expired"], FALSE, "idle", None)
            /\ UNCHANGED <<serves, stage>>

\* The flush rewrites the whole proctoring sub-document from its copy.
FlagsSave(r) ==
    LET total == local[r].flags + call[r].n
        seen == IF total > Threshold THEN Threshold ELSE total
    IN  /\ At(r, "handle", {"flags"})
        /\ OpenSave(r, [doc EXCEPT !.flags = seen], FALSE, "softlock", [local[r] EXCEPT !.flags = seen])
        /\ UNCHANGED <<serves, stage>>

\* maybeSoftLock goes on with the copy the flush was loaded with.
SoftLockSave(r) ==
    LET triggered == /\ SoftLock # "off"
                     /\ local[r].status = "in_progress"
                     /\ local[r].flags >= Threshold
    IN  /\ pc[r] = "softlock"
        /\ \/ ~triggered /\ Drop(r) /\ UNCHANGED <<serves, stage>>
           \/ triggered /\ SoftLock = "auto_submit" /\ FinalizeSave(r, "integrity_violation")
           \/ /\ triggered /\ SoftLock = "pause"
              /\ OpenSave(r, [doc EXCEPT !.status = "paused", !.pausedAt = now], FALSE, "idle", None)
              /\ UNCHANGED <<serves, stage>>

\* Fresh windows.  Only an expired or cancelled session changes status.  Bound:
\* a link is refreshed only if it can still run out before the clock stops.
ResendSave(r) ==
    LET reopens == local[r].status \in {"expired", "cancelled"}
        status == IF local[r].started THEN "in_progress" ELSE "scheduled"
    IN  /\ At(r, "handle", {"resend"})
        /\ IF now + Validity < MaxTime
           THEN OpenSave(r, [doc EXCEPT !.startDeadline = now + Validity,
                                        !.expiresAt = now + Validity,
                                        !.status = IF reopens THEN status ELSE @], FALSE, "idle", None)
           ELSE Drop(r)
        /\ UNCHANGED <<serves, stage>>

CancelSave(r) ==
    /\ At(r, "handle", {"cancel", "cancelStale"})
    /\ OpenSave(r, [doc EXCEPT !.status = "cancelled"], FALSE, "idle", None)
    /\ UNCHANGED <<serves, stage>>

-----------------------------------------------------------------------------
(* What finalizeSession does after the session is saved                    *)

\* The exposure counters of the paper; a failed write is only logged.  Bound:
\* counting stops at two, as only a second count of a session matters.
Telemetry(r) ==
    /\ pc[r] = "telemetry"
    /\ \/ serves' = IF serves < 2 THEN serves + 1 ELSE serves
       \/ Failures /\ serves' = serves
    /\ Save(r, doc, FALSE, "advance", None)
    /\ UNCHANGED stage

\* Up to two stage moves on a freshly loaded candidate; an error stops them
\* and is only logged.
Advance(r) ==
    /\ pc[r] = "advance"
    /\ \/ stage' = IF stage = "rejected" THEN stage ELSE "interview_scheduled"
       \/ /\ Failures
          /\ stage' \in {stage} \cup (IF stage = "assessment_scheduled" THEN {"assessment_completed"} ELSE {})
    /\ Drop(r)
    /\ UNCHANGED serves

-----------------------------------------------------------------------------
(* The environment                                                         *)

\* The process dies, or a query throws, between two awaits.
Fail(r) ==
    /\ Failures
    /\ pc[r] # "idle"
    /\ Drop(r)
    /\ UNCHANGED <<serves, stage>>

\* History: only time spent with the session and a section open is usable.
Tick ==
    /\ now < MaxTime
    /\ now' = now + 1
    /\ used' = [s \in Sections |->
                  IF doc.status = "in_progress" /\ s \in InProgress(doc) THEN used[s] + 1 ELSE used[s]]
    /\ UNCHANGED <<doc, serves, stage, pc, call, local, stale>>

Load(r) ==
    \/ LoadStart(r) \/ LoadSubmit(r) \/ LoadExpire(r) \/ LoadResend(r)
    \/ LoadCancel(r) \/ LoadResume(r) \/ LoadEnd(r)
    \/ \E s \in Sections : LoadStartSection(r, s) \/ LoadSubmitSection(r, s)
    \/ \E i \in Items, v \in Values : LoadAnswer(r, i, v)
    \/ LoadFlags(r, 1)
    \/ \E to \in Targets : MoveCandidate(r, to)

Proceed(r) ==
    \/ FindStale(r) \/ ResumeSave(r) \/ StartSave(r) \/ LapseSave(r) \/ StartSectionSave(r)
    \/ AnswerSave(r) \/ SubmitSectionSave(r) \/ SubmitSave(r) \/ EndSave(r) \/ ExpireSave(r)
    \/ FlagsSave(r) \/ SoftLockSave(r) \/ ResendSave(r) \/ CancelSave(r)
    \/ Telemetry(r) \/ Advance(r)

Next == Tick \/ \E r \in Requests : Load(r) \/ Proceed(r) \/ Fail(r)

Spec == Init /\ [][Next]_vars

\* Handlers in flight run on and time passes.  The sweep is a cron run of its
\* own: it gets its turn however busy the slots are, hence strong fairness.
Fairness ==
    /\ WF_vars(Tick)
    /\ \A r \in Requests : WF_vars(Proceed(r))
    /\ SF_vars(\E r \in Requests : LoadExpire(r))

FairSpec == Spec /\ Fairness

-----------------------------------------------------------------------------
(* What holds however requests interleave                                  *)

\* A save that completes the session scores exactly the answers stored at that
\* instant: finalizeSession works on a copy loaded earlier, and an answer that
\* arrived in between must make its save fail rather than go unscored.
ScoresWhatIsStored ==
    [][doc.result # doc'.result => doc'.result.scored = doc.responses]_vars

\* Autosave never takes an answer back: saveResponse appends, or rewrites the
\* whole array from an earlier copy, and neither may lose another's entry.
AnswersSurvive ==
    [][\A i \in Items : Answered(doc, i) => Answered(doc', i)]_vars

\* A section that was submitted, or ran out of time, never opens again, though
\* startSection, resumeFromPause and finalizeSession all write from old copies.
ClosedSectionsStayClosed ==
    [][\A s \in Sections : doc.sections[s].status = "completed" => doc'.sections[s].status = "completed"]_vars

-----------------------------------------------------------------------------
(* What holds while requests do not overlap                                *)

\* "A completed assessment cannot be cancelled" (assessmentController.cancel),
\* nor resent, paused, expired or scored again.
CompletedIsFinal ==
    [][doc.status = "completed" => doc'.status = "completed" /\ doc'.result = doc.result]_vars

\* "One section at a time" (startSection).
OneSectionAtATime == Cardinality(InProgress(doc)) <= 1

\* The server's clock of a running section is the time the candidate could
\* work in it: a pause costs nothing (resumeFromPause), nothing is given away.
SectionClockIsExact ==
    doc.status = "in_progress" =>
        \A s \in InProgress(doc) : now - doc.sections[s].startedAt = used[s]

\* A pause costs the candidate nothing: the clock of a running section never
\* runs ahead of the time the candidate could work in it (resumeFromPause:
\* "shifts the active section's clock ... so the candidate loses nothing").
PauseCostsNothing ==
    doc.status = "in_progress" =>
        \A s \in InProgress(doc) : now - doc.sections[s].startedAt <= used[s]

\* Whatever a recruiter does to a session, its section clocks never give time
\* away: cancelled time counts against the candidate, paused time does not.
NoTimeGained ==
    doc.status = "in_progress" =>
        \A s \in InProgress(doc) : used[s] <= now - doc.sections[s].startedAt

\* Nothing is written into a section after the candidate has worked in it for
\* its whole time limit: saveResponse checks the clock on every write.
NoLateAnswers ==
    [][\A k \in 1..Len(doc'.responses) :
        (k > Len(doc.responses) \/ doc'.responses[k] # doc.responses[k])
        => used[SectionOf[doc'.responses[k].item]] < SectionLimit]_vars

\* Every answer the server accepted is in the score (guardLive: "your saved
\* answers were submitted").
SavedAnswersAreScored == doc.status = "completed" => doc.result.scored = doc.responses

\* "Partial work is scored and labelled - never discarded" (expireSession):
\* a session that was begun never ends as expired, where no sweep looks at it.
ExpiredMeansUntouched == doc.status = "expired" => ~doc.started

\* Exposure counts a session once, and only after it completed.
ExposureCountedOnce ==
    /\ serves <= 1
    /\ serves = 1 => doc.result # None

\* A stage move out of the assessment "must never kill an attempt in progress"
\* (cancelStaleAssessment).
AttemptsAreNotKilled ==
    [][\A r \in Requests :
        (At(r, "handle", {"cancelStale"}) /\ doc.started) => doc'.status = doc.status \/ pc'[r] # "idle"]_vars

\* "Pause only - termination is always a human action" (AssessmentSession.js).
TerminationIsHuman == doc.result # None => doc.result.by # "integrity_violation"

\* A begun session ends scored, or cancelled by a recruiter.
BegunIsSettled == doc.started ~> doc.status \in {"completed", "cancelled"}

\* A soft-lock pause never parks the session for good.
PauseEnds == doc.status = "paused" ~> doc.status # "paused"

\* Completion always moves the candidate on to the interview, or finds the
\* candidate moved elsewhere.
CompletionAdvances ==
    doc.status = "completed" ~> stage \notin {"assessment_scheduled", "assessment_completed"}

\* A sitting is exact: one section runs at a time and its clock gives no time
\* away whatever a recruiter does, every answer saved is in the score, what was
\* begun never ends as expired, and exposure counts it once.
SittingIsExact ==
    /\ OneSectionAtATime
    /\ NoTimeGained
    /\ SavedAnswersAreScored
    /\ ExpiredMeansUntouched
    /\ ExposureCountedOnce

\* Nothing is written into a section whose time is up (saveResponse), and no
\* stage move kills an attempt in progress (cancelStaleAssessment).
WorkIsRespected == NoLateAnswers /\ AttemptsAreNotKilled

\* While requests do not overlap, the session keeps the promise of the abstract
\* specification: scored once, over every answer saved, and for good.
Promise == INSTANCE AssessmentPromise WITH
    phase <- CASE doc.status = "completed" -> "scored"
               [] doc.status \in {"expired", "cancelled"} -> "withdrawn"
               [] OTHER -> IF doc.started THEN "working" ELSE "invited",
    begun <- doc.started,
    answered <- {i \in Items : Answered(doc, i)},
    score <- IF doc.result = None THEN None
             ELSE {i \in Items : \E k \in 1..Len(doc.result.scored) : doc.result.scored[k].item = i}

KeepsPromise == Promise!Spec

=============================================================================
