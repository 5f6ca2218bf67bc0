--------------------------- MODULE ServicesProofs ---------------------------
(* What the components that work on documents of their own promise - the
   services around a candidate and a job, and beside an interview what is filed,
   the billing windows and the calls of the voice worker - for any number of
   candidates, requests, workers, boards and calls.  Each part below is about
   one component alone, under the name the MC modules give its instance.  A
   part declares the component's constants and variables by their own names; a
   name that an earlier part has declared stands in the later one for its own.
   A part then says what its bounds are assumed to be and the type of its
   state, goes on to what keeps its promise true from step to step, and ends
   with its theorems.                                                        *)
EXTENDS Integers, Sequences, FiniteSets, TLAPS, FiniteSetTheorems, WellFoundedInduction

-----------------------------------------------------------------------------
(* The versions a recruiter approves.                                        *)

CONSTANTS Kinds, Overlapping, Requests, Sources, NoSource, MaxDocs, MaxEdits, MaxItems, Served
VARIABLES kind, job, docs, req

Versions == INSTANCE Approvals

\* What the bounds are, and which kinds the theorem is about: requests about a rubric or a paper are taken one at a time.
VersionBounds ==
    /\ MaxDocs \in Nat /\ MaxEdits \in Nat /\ MaxItems \in Nat
    /\ NoSource \notin Sources
    /\ Overlapping \subseteq {"questions", "persona"}

Drafting == {"idle", "compile", "create", "generate"}
VersionSteps == Drafting \cup {"edit", "remove", "look", "approve", "archive", "regenerate"}
VersionSlot ==
    [step : VersionSteps, doc : 0 .. MaxDocs,
     source : Sources \cup {NoSource}, number : 0 .. MaxDocs + 1, text : Nat, previous : SUBSET Versions!Ids]

\* A request is about a version there is or was; numbers are given out in the order of the versions.
VersionTypes ==
    /\ Versions!TypeOK
    /\ req \in [Requests -> VersionSlot]
    /\ \A r \in Requests : req[r].step \notin {"idle", "compile", "create"} => req[r].doc \in Versions!Ids
    /\ \A d \in Versions!Ids : docs[d].version <= d
    /\ \A d, e \in Versions!Ids : e < d /\ docs[d].status # "none" => docs[e].status # "none"
    /\ \A r \in Requests : req[r].step = "create" =>
        \/ req[r].number = 1
        \/ \E d \in Versions!Ids : docs[d].status # "none" /\ req[r].number <= d + 1

\* Requests that are taken one at a time.
VersionsAlone ==
    kind \notin Overlapping =>
        \A q, r \in Requests : req[q].step \notin Drafting /\ req[r].step \notin Drafting => q = r

\* What a request has read of its version is still so.
Unapproved(r) ==
    \/ req[r].step = "approve"
    \/ req[r].step = "look" /\ Versions!LooksFirst(kind)
    \/ kind \notin Overlapping /\ req[r].step \in {"edit", "remove", "regenerate", "generate"}
VersionsFit ==
    /\ \A r \in Requests : Unapproved(r) => docs[req[r].doc].status = "draft"
    /\ \A r \in Requests : req[r].step = "look" /\ ~Versions!LooksFirst(kind) => docs[req[r].doc].status = "approved"
    /\ \A r \in Requests : req[r].step = "remove" => kind = "rubric"
    /\ \A r \in Requests : req[r].step = "generate" => kind = "paper" /\ docs[req[r].doc].run = "running"
    /\ \A q, r \in Requests : req[q].step = "approve" /\ req[r].step = "generate" => req[q].doc # req[r].doc
    /\ \A q, r \in Requests : req[q].step = "generate" /\ req[r].step = "generate" /\ req[q].doc = req[r].doc => q = r
    /\ \A q, r \in Requests :
        req[q].step \in {"look", "approve"} /\ req[r].step \in {"look", "approve"} /\ req[q].doc = req[r].doc => q = r

\* Whoever retires versions retires none that was a draft then, and leaves one that nobody is about to retire.
RetiredWere == \A r \in Requests, d \in Versions!Ids : d \in req[r].previous => docs[d].status \in {"approved", "archived"}
Staying(d) == docs[d].status = "approved" /\ \A q \in Requests : req[q].step = "archive" => d \notin req[q].previous
SomeoneStays ==
    (\E d \in Versions!Ids : docs[d].status = "archived") \/ (\E r \in Requests : req[r].step = "archive") =>
        \E d \in Versions!Ids : Staying(d)

DraftsAreSingle ==
    kind \in {"rubric", "questions"} =>
        \A d, e \in Versions!Ids : docs[d].status = "draft" /\ docs[e].status = "draft" /\ docs[d].source = docs[e].source
                                   /\ docs[d].source \in Sources => d = e

VersionInv == VersionsAlone /\ VersionsFit /\ RetiredWere /\ SomeoneStays /\ DraftsAreSingle /\ Versions!FrozenIsFinal

-----------------------------------------------------------------------------
LEMMA VersionSlots ==
    ASSUME VersionBounds
    PROVE  /\ Versions!Idle \in VersionSlot /\ Versions!Idle.step = "idle" /\ Versions!Idle.previous = {}
           /\ Versions!NoDoc \in Versions!Versioned
           /\ Versions!NoDoc.active = 0 /\ Versions!NoDoc.flagged = 0 /\ Versions!NoDoc.version = 0
           /\ Versions!NoDoc.status = "none"
BY DEF VersionBounds, Versions!Idle, VersionSlot, Versions!NoDoc, Versions!Versioned, Versions!Ids, Drafting, VersionSteps

\* The record a request begins with.
SlotFor(slot, x, d) == slot = [Versions!Idle EXCEPT !.step = x, !.doc = d] /\ slot.step = x /\ slot.doc = d /\ slot.previous = {}
SlotWith(slot, x, d, t) == slot = [Versions!Idle EXCEPT !.step = x, !.doc = d, !.text = t] /\ slot.step = x /\ slot.doc = d /\ slot.previous = {}
SlotFrom(slot, x, s) == slot = [Versions!Idle EXCEPT !.step = x, !.source = s] /\ slot.step = x /\ slot.previous = {}

LEMMA VersionSlotFor ==
    ASSUME VersionBounds, NEW x \in VersionSteps, NEW d \in 0 .. MaxDocs
    PROVE  \E slot \in VersionSlot : SlotFor(slot, x, d)
<1>1. PICK base \in VersionSlot : base = Versions!Idle /\ base.previous = {}
  BY VersionSlots
<1>2. [base EXCEPT !.step = x, !.doc = d] \in VersionSlot
  BY DEF VersionSlot
<1>3. [base EXCEPT !.step = x, !.doc = d].step = x
  BY DEF VersionSlot
<1>4. [base EXCEPT !.step = x, !.doc = d].previous = {}
  BY <1>1 DEF VersionSlot
<1>5. [base EXCEPT !.step = x, !.doc = d].doc = d
  BY DEF VersionSlot
<1> QED
  BY <1>1, <1>2, <1>3, <1>4, <1>5 DEF SlotFor

LEMMA VersionSlotWith ==
    ASSUME VersionBounds, NEW x \in VersionSteps, NEW d \in 0 .. MaxDocs, NEW t \in Nat
    PROVE  \E slot \in VersionSlot : SlotWith(slot, x, d, t)
<1>1. PICK base \in VersionSlot : base = Versions!Idle /\ base.previous = {}
  BY VersionSlots
<1>2. [base EXCEPT !.step = x, !.doc = d, !.text = t] \in VersionSlot
  BY DEF VersionSlot
<1>3. [base EXCEPT !.step = x, !.doc = d, !.text = t].step = x
  BY DEF VersionSlot
<1>4. [base EXCEPT !.step = x, !.doc = d, !.text = t].previous = {}
  BY <1>1 DEF VersionSlot
<1>5. [base EXCEPT !.step = x, !.doc = d, !.text = t].doc = d
  BY DEF VersionSlot
<1> QED
  BY <1>1, <1>2, <1>3, <1>4, <1>5 DEF SlotWith

LEMMA VersionSlotFrom ==
    ASSUME VersionBounds, NEW x \in VersionSteps, NEW s \in Sources
    PROVE  \E slot \in VersionSlot : SlotFrom(slot, x, s)
<1>1. PICK base \in VersionSlot : base = Versions!Idle /\ base.previous = {}
  BY VersionSlots
<1>2. [base EXCEPT !.step = x, !.source = s] \in VersionSlot
  BY DEF VersionSlot
<1>3. [base EXCEPT !.step = x, !.source = s].step = x
  BY DEF VersionSlot
<1>4. [base EXCEPT !.step = x, !.source = s].previous = {}
  BY <1>1 DEF VersionSlot
<1> QED
  BY <1>1, <1>2, <1>3, <1>4 DEF SlotFrom

LEMMA VersionSlotAt ==
    ASSUME VersionBounds, NEW x \in VersionSteps
    PROVE  \E slot \in VersionSlot : slot = [Versions!Idle EXCEPT !.step = x] /\ slot.step = x /\ slot.previous = {}
<1>1. PICK base \in VersionSlot : base = Versions!Idle /\ base.previous = {}
  BY VersionSlots
<1>2. [base EXCEPT !.step = x] \in VersionSlot
  BY DEF VersionSlot
<1>3. [base EXCEPT !.step = x].step = x
  BY DEF VersionSlot
<1>4. [base EXCEPT !.step = x].previous = {}
  BY <1>1 DEF VersionSlot
<1> QED
  BY <1>1, <1>2, <1>3, <1>4

LEMMA VersionsInit == ASSUME VersionBounds, Versions!Init PROVE VersionTypes /\ VersionInv
<1>0. /\ docs \in [Versions!Ids -> Versions!Versioned] /\ req \in [Requests -> VersionSlot]
      /\ \A d \in Versions!Ids : docs[d] = Versions!NoDoc
      /\ \A r \in Requests : req[r] = Versions!Idle
  BY VersionSlots DEF Versions!Init
<1>1. VersionTypes
  BY <1>0, VersionSlots DEF Versions!Init, VersionTypes, Versions!TypeOK, VersionBounds, Versions!Ids
<1>2. \A r \in Requests : req[r].step = "idle" /\ req[r].previous = {}
  BY VersionSlots DEF Versions!Init
<1>3. \A d \in Versions!Ids : docs[d].status = "none"
  BY VersionSlots DEF Versions!Init
<1>4. VersionsAlone /\ VersionsFit
  BY <1>2 DEF VersionsAlone, VersionsFit, Unapproved, Drafting
<1>5. RetiredWere /\ SomeoneStays /\ DraftsAreSingle
  BY <1>2, <1>3 DEF RetiredWere, SomeoneStays, DraftsAreSingle
<1>6. Versions!FrozenIsFinal
  BY <1>3 DEF Versions!FrozenIsFinal, Versions!There
<1> QED
  BY <1>1, <1>4, <1>5, <1>6 DEF VersionInv

-----------------------------------------------------------------------------
(* Requests that begin, and steps that move no version.                      *)

LEMMA VersionBegins ==
    ASSUME VersionBounds, VersionTypes, VersionInv, NEW r \in Requests, NEW slot \in VersionSlot,
           req[r].step = "idle", req' = [req EXCEPT ![r] = slot], kind' = kind, docs' = docs, job' = job,
           slot.previous = {}, slot.step \notin {"create", "generate", "archive"},
           slot.step \notin {"idle", "compile"} => slot.doc \in Versions!Ids /\ docs[slot.doc].status = "draft" /\ Versions!Alone(r),
           slot.step = "remove" => kind = "rubric",
           slot.step = "look" => Versions!LooksFirst(kind),
           slot.step = "approve" => \A q \in Requests : req[q].step = "generate" => req[q].doc # slot.doc,
           slot.step \in {"look", "approve"} => \A q \in Requests : req[q].step \in {"look", "approve"} => req[q].doc # slot.doc
    PROVE  VersionTypes' /\ VersionInv'
<1> USE DEF Versions!Alone
<1>1. /\ req' \in [Requests -> VersionSlot] /\ req'[r] = slot
      /\ \A q \in Requests : q # r => req'[q] = req[q]
  BY DEF VersionTypes
<1>2. \A q \in Requests : req'[q].previous = {} \/ req'[q] = req[q]
  BY <1>1
<1>3. VersionTypes'
  BY <1>1 DEF VersionTypes, Versions!TypeOK, VersionSlot
<1>4. VersionsAlone'
  BY <1>1 DEF VersionInv, VersionsAlone, Drafting
<1>5. VersionsFit'
  BY <1>1 DEF VersionInv, VersionsFit, Unapproved, Drafting
<1>6. RetiredWere'
  BY <1>2 DEF VersionInv, RetiredWere
<1>7. SomeoneStays'
  BY <1>1 DEF VersionInv, SomeoneStays, Staying
<1>8. DraftsAreSingle' /\ Versions!FrozenIsFinal'
  BY DEF VersionInv, DraftsAreSingle, Versions!FrozenIsFinal, Versions!There
<1> QED
  BY <1>3, <1>4, <1>5, <1>6, <1>7, <1>8 DEF VersionInv

Rests(d) == docs'[d].status = docs[d].status /\ docs'[d].source = docs[d].source

LEMMA VersionsRest ==
    ASSUME VersionBounds, VersionTypes, VersionInv, kind' = kind,
           \A q \in Requests :
              \/ req'[q] = req[q]
              \/ req'[q].step \in {"idle", "create"} /\ req'[q].previous \subseteq req[q].previous,
           \A d \in Versions!Ids : Rests(d),
           \A q \in Requests : req'[q].step = "generate" => docs'[req'[q].doc].run = "running",
           Versions!FrozenIsFinal'
    PROVE  VersionInv'
<1> USE DEF Rests
<1>0. \A q \in Requests : req[q].step \notin {"idle", "compile", "create"} => req[q].doc \in Versions!Ids
  BY DEF VersionTypes
<1>1. VersionsAlone'
  BY DEF VersionInv, VersionsAlone, Drafting
<1>2. VersionsFit'
  BY <1>0 DEF VersionInv, VersionsFit, Unapproved, Versions!LooksFirst
<1>3. RetiredWere'
  BY DEF VersionInv, RetiredWere
<1>4. SomeoneStays'
  BY DEF VersionInv, SomeoneStays, Staying
<1>5. DraftsAreSingle'
  BY DEF VersionInv, DraftsAreSingle
<1> QED
  BY <1>1, <1>2, <1>3, <1>4, <1>5 DEF VersionInv

LEMMA VersionsBegun ==
    ASSUME VersionBounds, VersionTypes, VersionInv, NEW r \in Requests,
           \/ Versions!CompileRubric(r) \/ Versions!AutoDraft(r) \/ Versions!CompileBlueprint(r)
           \/ Versions!CreateQuestions(r) \/ Versions!CreatePersona(r)
           \/ \E d \in Versions!Ids :
                \/ Versions!UpdateRubric(r, d) \/ Versions!UpdateQuestions(r, d)
                \/ Versions!UpdatePersona(r, d) \/ Versions!UpdatePaper(r, d) \/ Versions!Remove(r, d)
                \/ Versions!ApproveRubric(r, d) \/ Versions!ApproveQuestions(r, d)
                \/ Versions!ApprovePersona(r, d) \/ Versions!ApprovePaper(r, d) \/ Versions!RegenerateItem(r, d)
    PROVE  VersionTypes' /\ VersionInv'
<1> USE DEF Versions!Begin, Versions!UpdateDraft, Versions!Approve, Versions!Ask
<1>0. /\ \A d \in Versions!Ids : d \in 0 .. MaxDocs
      /\ "compile" \in VersionSteps /\ "edit" \in VersionSteps /\ "remove" \in VersionSteps /\ "regenerate" \in VersionSteps
      /\ "look" \in VersionSteps /\ "approve" \in VersionSteps
      /\ job \in Sources
  BY DEF VersionBounds, Versions!Ids, VersionSteps, Drafting, VersionTypes, Versions!TypeOK
<1>1. CASE \/ Versions!CompileRubric(r) \/ Versions!AutoDraft(r) \/ Versions!CompileBlueprint(r)
           \/ Versions!CreateQuestions(r) \/ Versions!CreatePersona(r)
  <2>1. PICK slot \in VersionSlot : Versions!Begin(r, slot) /\ slot.step = "compile" /\ slot.previous = {}
    <3>1. CASE Versions!CompileRubric(r) \/ Versions!AutoDraft(r) \/ Versions!CompileBlueprint(r)
      <4>1. Versions!Begin(r, [Versions!Idle EXCEPT !.step = "compile", !.source = job])
        BY <3>1 DEF Versions!CompileRubric, Versions!AutoDraft, Versions!CompileBlueprint
      <4>2. PICK slot \in VersionSlot : SlotFrom(slot, "compile", job)
        BY <1>0, VersionSlotFrom
      <4> QED
        BY <4>1, <4>2 DEF SlotFrom
    <3>2. CASE Versions!CreateQuestions(r) \/ Versions!CreatePersona(r)
      <4>1. Versions!Begin(r, [Versions!Idle EXCEPT !.step = "compile"])
        BY <3>2 DEF Versions!CreateQuestions, Versions!CreatePersona
      <4>2. PICK slot \in VersionSlot : slot = [Versions!Idle EXCEPT !.step = "compile"] /\ slot.step = "compile" /\ slot.previous = {}
        BY <1>0, VersionSlotAt
      <4> QED
        BY <4>1, <4>2
    <3> QED
      BY <1>1, <3>1, <3>2
  <2> QED
    BY <2>1, VersionBegins
<1>2. ASSUME NEW d \in Versions!Ids,
             \/ Versions!UpdateRubric(r, d) \/ Versions!UpdateQuestions(r, d)
             \/ Versions!UpdatePersona(r, d) \/ Versions!UpdatePaper(r, d)
      PROVE  VersionTypes' /\ VersionInv'
  <2>1. /\ Versions!Alone(r) /\ docs[d].status = "draft"
        /\ Versions!Begin(r, [Versions!Idle EXCEPT !.step = "edit", !.doc = d, !.text = docs[d].text])
    BY <1>2 DEF Versions!UpdateRubric, Versions!UpdateQuestions, Versions!UpdatePersona, Versions!UpdatePaper
  <2>2. docs[d].text \in Nat
    BY DEF VersionTypes, Versions!TypeOK, Versions!Versioned
  <2>3. PICK slot \in VersionSlot : SlotWith(slot, "edit", d, docs[d].text)
    BY <1>0, <2>2, VersionSlotWith
  <2> QED
    BY <2>1, <2>3, VersionBegins DEF SlotWith
<1>3. ASSUME NEW d \in Versions!Ids, Versions!Remove(r, d) PROVE VersionTypes' /\ VersionInv'
  <2>1. /\ kind = "rubric" /\ Versions!Alone(r) /\ docs[d].status = "draft"
        /\ Versions!Begin(r, [Versions!Idle EXCEPT !.step = "remove", !.doc = d])
    BY <1>3 DEF Versions!Remove
  <2>a. "remove" \in VersionSteps /\ d \in 0 .. MaxDocs
    BY <1>0
  <2>2. PICK slot \in VersionSlot : SlotFor(slot, "remove", d)
    BY <2>a, VersionSlotFor
  <2> QED
    BY <2>1, <2>2, VersionBegins DEF SlotFor
<1>4. ASSUME NEW d \in Versions!Ids,
             \/ Versions!ApproveRubric(r, d) \/ Versions!ApproveQuestions(r, d)
             \/ Versions!ApprovePersona(r, d) \/ Versions!ApprovePaper(r, d)
      PROVE  VersionTypes' /\ VersionInv'
  <2>1. Versions!Approve(r, d) /\ (kind = "paper" => docs[d].run # "running")
    BY <1>4 DEF Versions!ApproveRubric, Versions!ApproveQuestions, Versions!ApprovePersona, Versions!ApprovePaper, Versions!NoActiveRun
  <2>2. PICK step \in {"look", "approve"} :
           Versions!Begin(r, [Versions!Idle EXCEPT !.step = step, !.doc = d]) /\ (step = "look" => Versions!LooksFirst(kind))
    BY <2>1
  <2>a. step \in VersionSteps /\ d \in 0 .. MaxDocs
    BY <1>0
  <2>3. PICK slot \in VersionSlot : SlotFor(slot, step, d)
    BY <2>a, VersionSlotFor
  <2>4. \A q \in Requests : req[q].step = "generate" => req[q].doc # d
    BY <2>1 DEF VersionInv, VersionsFit
  <2>5. /\ Versions!Begin(r, slot) /\ slot.step \in {"look", "approve"} /\ slot.doc = d /\ slot.previous = {}
        /\ slot.step = "look" => Versions!LooksFirst(kind)
    BY <2>2, <2>3 DEF SlotFor
  <2>6. /\ Versions!Alone(r) /\ docs[d].status = "draft"
        /\ \A q \in Requests : req[q].step \in {"look", "approve"} => req[q].doc # d
    BY <2>1
  <2> QED
    BY <2>4, <2>5, <2>6, VersionBegins
<1>5. ASSUME NEW d \in Versions!Ids, Versions!RegenerateItem(r, d) PROVE VersionTypes' /\ VersionInv'
  <2>1. /\ Versions!Alone(r) /\ docs[d].status = "draft"
        /\ Versions!Begin(r, [Versions!Idle EXCEPT !.step = "regenerate", !.doc = d])
    BY <1>5 DEF Versions!RegenerateItem
  <2>a. "regenerate" \in VersionSteps /\ d \in 0 .. MaxDocs
    BY <1>0
  <2>2. PICK slot \in VersionSlot : SlotFor(slot, "regenerate", d)
    BY <2>a, VersionSlotFor
  <2> QED
    BY <2>1, <2>2, VersionBegins DEF SlotFor
<1> QED
  BY <1>1, <1>2, <1>3, <1>4, <1>5

LEMMA VersionEnd ==
    ASSUME VersionBounds, VersionTypes, NEW r \in Requests, Versions!End(r)
    PROVE  /\ req' \in [Requests -> VersionSlot]
           /\ \A q \in Requests : req'[q] = IF q = r THEN Versions!Idle ELSE req[q]
           /\ \A q \in Requests :
                \/ req'[q] = req[q]
                \/ req'[q].step \in {"idle", "create"} /\ req'[q].previous \subseteq req[q].previous
           /\ req'[r].step = "idle" /\ req'[r].previous = {}
BY VersionSlots DEF Versions!End, VersionTypes

(* A version's own fields change: what a version is stays, and so does its order. *)
LEMMA VersionsKeepTheirPlace ==
    ASSUME VersionBounds, VersionTypes, kind' = kind, job' \in Sources,
           docs' \in [Versions!Ids -> Versions!Versioned],
           \A d \in Versions!Ids : docs'[d].active + docs'[d].flagged <= MaxItems /\ docs'[d].version = docs[d].version
                                   /\ docs'[d].status = docs[d].status,
           req' \in [Requests -> VersionSlot],
           \A q \in Requests : req'[q] = req[q] \/ req'[q].step = "idle"
    PROVE  VersionTypes'
<1>1. Versions!TypeOK'
  BY DEF VersionTypes, Versions!TypeOK, VersionSlot
<1> QED
  BY <1>1 DEF VersionTypes

LEMMA VersionsEdited ==
    ASSUME VersionBounds, VersionTypes, VersionInv, NEW r \in Requests, Versions!SaveEdit(r)
    PROVE  VersionTypes' /\ VersionInv'
<1> DEFINE d == req[r].doc
<1>1. d \in Versions!Ids /\ req[r].step = "edit" /\ kind' = kind /\ job' = job /\ Versions!End(r) /\ req[r].text + 1 \in Nat
  BY DEF Versions!SaveEdit, Versions!At, VersionTypes, VersionSlot
<1>2. docs' = docs \/ (docs[d].status # "none" /\ docs' = [docs EXCEPT ![d].text = req[r].text + 1])
  BY DEF Versions!SaveEdit, Versions!There
<1>3. /\ docs' \in [Versions!Ids -> Versions!Versioned]
      /\ \A e \in Versions!Ids :
            /\ docs'[e].status = docs[e].status /\ docs'[e].source = docs[e].source /\ docs'[e].version = docs[e].version
            /\ docs'[e].active = docs[e].active /\ docs'[e].flagged = docs[e].flagged /\ docs'[e].run = docs[e].run
            /\ docs'[e].frozen = docs[e].frozen /\ (e # d => docs'[e].text = docs[e].text)
  BY <1>1, <1>2 DEF VersionTypes, Versions!TypeOK, Versions!Versioned
<1>4. VersionTypes'
  BY <1>1, <1>3, VersionEnd, VersionSlots, VersionsKeepTheirPlace DEF VersionTypes, Versions!TypeOK
<1>5. kind \notin Overlapping => docs[d].status = "draft"
  BY <1>1 DEF VersionInv, VersionsFit, Unapproved
<1>6. Versions!FrozenIsFinal'
  BY <1>1, <1>3, <1>5 DEF VersionInv, Versions!FrozenIsFinal, Versions!There
<1>7. \A q \in Requests : req'[q].step = "generate" => docs'[req'[q].doc].run = "running"
  BY <1>1, <1>3, VersionEnd DEF VersionInv, VersionsFit, VersionTypes
<1> QED
  BY <1>1, <1>3, <1>4, <1>6, <1>7, VersionEnd, VersionsRest DEF Rests

LEMMA VersionsNumbered ==
    ASSUME VersionBounds, VersionTypes, VersionInv, NEW r \in Requests, Versions!NextVersion(r)
    PROVE  VersionTypes' /\ VersionInv'
<1>0. \A d \in Versions!Ids : docs[d].version \in 0 .. MaxDocs /\ d \in 1 .. MaxDocs
  BY DEF VersionTypes, Versions!TypeOK, Versions!Versioned, Versions!Ids
<1>1. PICK n \in 0 .. MaxDocs + 1 :
         /\ req' = [req EXCEPT ![r].step = "create", ![r].number = n]
         /\ n = 1 \/ \E d \in Versions!Ids : docs[d].status # "none" /\ n = docs[d].version + 1
  <2>1. PICK latest \in Versions!There \cup {0} :
           req' = [req EXCEPT ![r].step = "create", ![r].number = IF latest = 0 THEN 1 ELSE docs[latest].version + 1]
    BY DEF Versions!NextVersion
  <2> DEFINE n == IF latest = 0 THEN 1 ELSE docs[latest].version + 1
  <2>a. req' = [req EXCEPT ![r].step = "create", ![r].number = n]
    BY <2>1
  <2>2. CASE latest = 0
    <3>1. n = 1 /\ 1 \in 0 .. MaxDocs + 1
      BY <2>2 DEF VersionBounds
    <3> HIDE DEF n
    <3> QED
      BY <2>a, <3>1
  <2>3. CASE latest # 0
    <3>1. latest \in Versions!Ids /\ docs[latest].status # "none"
      BY <2>3 DEF Versions!There
    <3>2. docs[latest].version + 1 \in 0 .. MaxDocs + 1 /\ n = docs[latest].version + 1
      BY <1>0, <2>3, <3>1 DEF VersionBounds
    <3> HIDE DEF n
    <3> QED
      BY <2>a, <3>1, <3>2
  <2> QED
    BY <2>2, <2>3
<1>2. req[r] \in VersionSlot /\ req[r].step = "compile" /\ kind' = kind /\ docs' = docs /\ job' = job
  BY DEF Versions!NextVersion, Versions!At, VersionTypes
<1>3. /\ req' \in [Requests -> VersionSlot]
      /\ \A q \in Requests : q # r => req'[q] = req[q]
      /\ req'[r].step = "create" /\ req'[r].number = n /\ req'[r].previous = req[r].previous
  BY <1>1, <1>2 DEF VersionTypes, VersionSlot, VersionSteps, Drafting
<1>4. VersionTypes'
  <2>1. Versions!TypeOK'
    BY <1>2, <1>3 DEF VersionTypes, Versions!TypeOK
  <2>2. n = 1 \/ \E d \in Versions!Ids : docs[d].status # "none" /\ n <= d + 1
    BY <1>0, <1>1 DEF VersionTypes
  <2>3. \A q \in Requests : req'[q].step = "create" =>
           req'[q].number = 1 \/ \E d \in Versions!Ids : docs[d].status # "none" /\ req'[q].number <= d + 1
    BY <1>3, <2>2 DEF VersionTypes
  <2> QED
    BY <1>2, <1>3, <2>1, <2>3 DEF VersionTypes
<1>5. Versions!FrozenIsFinal' /\ \A d \in Versions!Ids : Rests(d)
  BY <1>2 DEF VersionInv, Versions!FrozenIsFinal, Versions!There, Rests
<1>6. \A q \in Requests : req'[q].step = "generate" => docs'[req'[q].doc].run = "running"
  BY <1>2, <1>3 DEF VersionInv, VersionsFit
<1> QED
  BY <1>2, <1>3, <1>4, <1>5, <1>6, VersionsRest

LEMMA VersionsCreated ==
    ASSUME VersionBounds, VersionTypes, VersionInv, NEW r \in Requests, Versions!Create(r)
    PROVE  VersionTypes' /\ VersionInv'
<1>0. /\ kind' = kind /\ job' = job /\ req[r].step = "create" /\ Versions!End(r)
      /\ req[r].number \in 0 .. MaxDocs + 1 /\ req[r].source \in Sources \cup {NoSource}
  BY DEF Versions!Create, Versions!At, VersionTypes, VersionSlot
<1>1. CASE docs' = docs
  <2>1. VersionTypes'
    BY <1>0, <1>1, VersionEnd, VersionSlots, VersionsKeepTheirPlace DEF VersionTypes, Versions!TypeOK
  <2>2. Versions!FrozenIsFinal' /\ \A d \in Versions!Ids : Rests(d)
    BY <1>0, <1>1 DEF VersionInv, Versions!FrozenIsFinal, Versions!There, Rests
  <2>3. \A q \in Requests : req'[q].step = "generate" => docs'[req'[q].doc].run = "running"
    BY <1>0, <1>1, VersionEnd DEF VersionInv, VersionsFit
  <2> QED
    BY <1>0, <2>1, <2>2, <2>3, VersionEnd, VersionsRest
<1>2. CASE docs' # docs
  <2>1. PICK d \in Versions!Ids :
           /\ docs[d].status = "none" /\ \A e \in 1 .. d - 1 : docs[e].status # "none"
           /\ docs' = [docs EXCEPT ![d] = [Versions!NoDoc EXCEPT !.status = "draft", !.version = req[r].number, !.source = req[r].source]]
    BY <1>2 DEF Versions!Create
  <2>2. ~Versions!Conflict(req[r].number, req[r].source)
    BY <1>2 DEF Versions!Create
  <2>3. d \in 1 .. MaxDocs /\ \A e \in Versions!Ids : e \in 1 .. MaxDocs /\ (e >= d => docs[e].status = "none")
    <3>1. \A e \in Versions!Ids : e \in 1 .. MaxDocs
      BY DEF Versions!Ids
    <3>2. \A e \in Versions!Ids : d < e => docs[e].status = "none"
      BY <2>1 DEF VersionTypes
    <3> QED
      BY <2>1, <3>1, <3>2 DEF VersionBounds
  <2>4. req[r].number <= d
    BY <1>0, <2>3 DEF VersionTypes, VersionBounds
  <2>5. PICK new \in Versions!Versioned :
           /\ new = [Versions!NoDoc EXCEPT !.status = "draft", !.version = req[r].number, !.source = req[r].source]
           /\ new.status = "draft" /\ new.version = req[r].number /\ new.source = req[r].source /\ new.active = 0 /\ new.flagged = 0
    <3>1. PICK base \in Versions!Versioned : base = Versions!NoDoc /\ base.active = 0 /\ base.flagged = 0
      BY VersionSlots
    <3>2. req[r].number \in 0 .. MaxDocs
      BY <1>0, <2>3, <2>4 DEF VersionBounds
    <3>a. [base EXCEPT !.status = "draft", !.version = req[r].number, !.source = req[r].source] \in Versions!Versioned
      BY <1>0, <3>2 DEF Versions!Versioned
    <3>b. [base EXCEPT !.status = "draft", !.version = req[r].number, !.source = req[r].source].status = "draft"
      BY DEF Versions!Versioned
    <3>c. [base EXCEPT !.status = "draft", !.version = req[r].number, !.source = req[r].source].version = req[r].number
      BY DEF Versions!Versioned
    <3>d. [base EXCEPT !.status = "draft", !.version = req[r].number, !.source = req[r].source].source = req[r].source
      BY DEF Versions!Versioned
    <3>e. [base EXCEPT !.status = "draft", !.version = req[r].number, !.source = req[r].source].active = 0
      BY <3>1 DEF Versions!Versioned
    <3>f. [base EXCEPT !.status = "draft", !.version = req[r].number, !.source = req[r].source].flagged = 0
      BY <3>1 DEF Versions!Versioned
    <3> QED
      BY <3>1, <3>a, <3>b, <3>c, <3>d, <3>e, <3>f
  <2>6. docs' \in [Versions!Ids -> Versions!Versioned] /\ docs'[d] = new /\ \A e \in Versions!Ids : e # d => docs'[e] = docs[e]
    BY <2>1, <2>5 DEF VersionTypes, Versions!TypeOK
  <2>7. VersionTypes'
    <3>0. /\ \A e \in Versions!Ids : docs'[e].active + docs'[e].flagged <= MaxItems
          /\ \A q \in Requests : req'[q].previous \subseteq Versions!Ids
      <4>1. docs'[d].active + docs'[d].flagged <= MaxItems
        BY <2>5, <2>6 DEF VersionBounds
      <4>2. \A e \in Versions!Ids : docs[e].active + docs[e].flagged <= MaxItems
        BY DEF VersionTypes, Versions!TypeOK
      <4>3. \A q \in Requests : req'[q].previous \subseteq Versions!Ids
        BY <1>0, VersionEnd DEF VersionSlot
      <4> QED
        BY <2>6, <4>1, <4>2, <4>3
    <3>1. Versions!TypeOK'
      BY <1>0, <2>6, <3>0 DEF VersionTypes, Versions!TypeOK
    <3>2. \A e, f \in Versions!Ids : f < e /\ docs'[e].status # "none" => docs'[f].status # "none"
      BY <2>1, <2>3, <2>5, <2>6 DEF VersionTypes, Versions!Ids
    <3>3. \A e \in Versions!Ids : docs'[e].version <= e
      BY <2>4, <2>5, <2>6 DEF VersionTypes
    <3>4. \A e \in Versions!Ids : docs[e].status # "none" => docs'[e].status # "none"
      BY <2>5, <2>6
    <3>5. \A q \in Requests : req'[q].step \notin {"idle", "compile", "create"} => req'[q].doc \in Versions!Ids
      BY <1>0, VersionEnd DEF VersionTypes
    <3>6. \A q \in Requests : req'[q].step = "create" =>
             req'[q].number = 1 \/ \E e \in Versions!Ids : docs'[e].status # "none" /\ req'[q].number <= e + 1
      BY <1>0, <3>4, VersionEnd DEF VersionTypes
    <3> QED
      BY <1>0, <3>1, <3>2, <3>3, <3>5, <3>6, VersionEnd DEF VersionTypes
  <2>8. /\ \A q \in Requests : req'[q] = req[q] \/ (req'[q].step = "idle" /\ req'[q].previous = {})
    BY <1>0, VersionEnd
  <2>9. VersionsAlone'
    BY <1>0, <2>8 DEF VersionInv, VersionsAlone, Drafting
  <2>10. VersionsFit'
    <3>1. \A q \in Requests : req[q].step = "generate" => kind \notin Overlapping
      BY DEF VersionInv, VersionsFit, VersionBounds
    <3>2. \A q \in Requests : req'[q].step \notin {"idle", "compile", "create"} =>
             req'[q] = req[q] /\ (Unapproved(q) => docs'[req[q].doc] = docs[req[q].doc])
      BY <2>1, <2>6, <2>8 DEF VersionInv, VersionsFit, VersionTypes
    <3>3. \A q \in Requests : req'[q].step = "look" /\ ~Versions!LooksFirst(kind) => docs'[req[q].doc] = docs[req[q].doc]
      BY <2>1, <2>6, <2>8 DEF VersionInv, VersionsFit, VersionTypes
    <3> QED
      BY <1>0, <2>8, <3>1, <3>2, <3>3 DEF VersionInv, VersionsFit, Unapproved, Versions!LooksFirst
  <2>11. RetiredWere'
    BY <2>1, <2>6, <2>8 DEF VersionInv, RetiredWere
  <2>12. SomeoneStays'
    BY <2>1, <2>5, <2>6, <2>8 DEF VersionInv, SomeoneStays, Staying
  <2>13. DraftsAreSingle'
    <3>1. kind \in {"rubric", "questions"} /\ req[r].source \in Sources => \A e \in Versions!Ids : docs[e].status = "draft" => docs[e].source # req[r].source
      BY <2>2 DEF Versions!Conflict, Versions!DraftOf, Versions!There, VersionBounds
    <3>2. \A e \in Versions!Ids : docs'[e] = IF e = d THEN new ELSE docs[e]
      BY <2>6
    <3>3. SUFFICES ASSUME kind \in {"rubric", "questions"}, NEW e \in Versions!Ids, NEW f \in Versions!Ids,
                          docs'[e].status = "draft", docs'[f].status = "draft", docs'[e].source = docs'[f].source, docs'[e].source \in Sources
                   PROVE  e = f
      BY <1>0 DEF DraftsAreSingle
    <3>4. CASE e # d /\ f # d
      BY <3>2, <3>3, <3>4 DEF VersionInv, DraftsAreSingle
    <3>5. ~(e = d /\ f # d) /\ ~(f = d /\ e # d)
      <4>1. kind \in {"rubric", "questions"} /\ new.source \in Sources => \A g \in Versions!Ids : docs[g].status = "draft" => docs[g].source # new.source
        BY <2>5, <3>1
      <4> QED
        BY <3>2, <3>3, <4>1
    <3> QED
      BY <3>4, <3>5
  <2>14. Versions!FrozenIsFinal'
    BY <1>0, <2>5, <2>6 DEF VersionInv, Versions!FrozenIsFinal, Versions!There
  <2> QED
    BY <2>7, <2>9, <2>10, <2>11, <2>12, <2>13, <2>14 DEF VersionInv
<1> QED
  BY <1>1, <1>2

(* A version's run in the background, and the items it writes.               *)
LEMMA VersionsChange ==
    ASSUME VersionBounds, VersionTypes, VersionInv, kind' = kind, job' \in Sources,
           docs' \in [Versions!Ids -> Versions!Versioned],
           \A d \in Versions!Ids : docs'[d].active + docs'[d].flagged <= MaxItems /\ docs'[d].version = docs[d].version
                                   /\ docs'[d].status = docs[d].status /\ docs'[d].source = docs[d].source,
           \A d \in Versions!Ids :
               (docs'[d].text = docs[d].text /\ docs'[d].active = docs[d].active /\ docs'[d].flagged = docs[d].flagged /\ docs'[d].frozen = docs[d].frozen)
               \/ docs[d].status = "draft" \/ kind \in Overlapping,
           req' \in [Requests -> VersionSlot],
           \A q \in Requests : req'[q] = req[q] \/ (req'[q].step = "idle" /\ req'[q].previous = {}),
           \A q \in Requests : req'[q].step = "generate" => docs'[req[q].doc].run = "running"
    PROVE  VersionTypes' /\ VersionInv'
<1>1. VersionTypes'
  BY VersionsKeepTheirPlace
<1>2. Versions!FrozenIsFinal'
  BY DEF VersionInv, Versions!FrozenIsFinal, Versions!There
<1>3. \A q \in Requests : req'[q].step = "generate" => docs'[req'[q].doc].run = "running"
  OBVIOUS
<1>4. \A d \in Versions!Ids : Rests(d)
  BY DEF Rests
<1> QED
  BY <1>1, <1>2, <1>3, <1>4, VersionsRest

LEMMA VersionsWritten ==
    ASSUME VersionBounds, VersionTypes, VersionInv, NEW r \in Requests,
           Versions!ProduceItem(r) \/ Versions!FinishRun(r) \/ Versions!ReplaceItem(r) \/ Versions!Crash(r)
    PROVE  VersionTypes' /\ VersionInv'
<1> DEFINE d == req[r].doc
<1>0. /\ job \in Sources /\ docs \in [Versions!Ids -> Versions!Versioned] /\ req \in [Requests -> VersionSlot]
      /\ \A e \in Versions!Ids : docs[e].active \in Nat /\ docs[e].flagged \in Nat /\ docs[e].active + docs[e].flagged <= MaxItems
      /\ \A q \in Requests : req[q].step = "generate" => docs[req[q].doc].run = "running" /\ req[q].doc \in Versions!Ids
  BY DEF VersionTypes, Versions!TypeOK, VersionInv, VersionsFit, Versions!Versioned, VersionBounds
<1>1. CASE Versions!ProduceItem(r)
  <2>1. /\ req[r].step = "generate" /\ d \in Versions!Ids /\ docs[d].active + docs[d].flagged < MaxItems
        /\ kind' = kind /\ job' = job /\ req' = req
    BY <1>0, <1>1 DEF Versions!ProduceItem, Versions!At
  <2>2. kind \in Overlapping \/ docs[d].status = "draft"
    BY <2>1 DEF VersionInv, VersionsFit, Unapproved
  <2>3. docs' = [docs EXCEPT ![d]["active"] = @ + 1] \/ docs' = [docs EXCEPT ![d]["flagged"] = @ + 1]
    BY <1>1 DEF Versions!ProduceItem
  <2>4. docs' = [docs EXCEPT ![d].active = docs[d].active + 1] \/ docs' = [docs EXCEPT ![d].flagged = docs[d].flagged + 1]
    BY <1>0, <2>1, <2>3
  <2>5. PICK a \in 0 .. MaxItems, f \in 0 .. MaxItems : a = docs[d].active + 1 /\ f = docs[d].flagged + 1
    BY <1>0, <2>1 DEF VersionBounds
  <2>6. /\ docs' \in [Versions!Ids -> Versions!Versioned]
        /\ \A e \in Versions!Ids : docs'[e].version = docs[e].version /\ docs'[e].status = docs[e].status /\ docs'[e].source = docs[e].source
                                   /\ docs'[e].run = docs[e].run /\ (e # d => docs'[e] = docs[e])
        /\ (docs'[d].active = a /\ docs'[d].flagged = docs[d].flagged) \/ (docs'[d].active = docs[d].active /\ docs'[d].flagged = f)
    BY <1>0, <2>1, <2>4, <2>5 DEF Versions!Versioned
  <2>7. docs'[d].active + docs'[d].flagged <= MaxItems
    BY <1>0, <2>1, <2>5, <2>6 DEF VersionBounds
  <2> HIDE DEF d
  <2>8. \A e \in Versions!Ids : docs'[e].active + docs'[e].flagged <= MaxItems
    BY <1>0, <2>6, <2>7
  <2> QED
    BY <1>0, <2>1, <2>2, <2>6, <2>8, VersionsChange
<1>2. CASE Versions!FinishRun(r)
  <2>1. d \in Versions!Ids /\ kind' = kind /\ job' = job /\ Versions!End(r) /\ docs' = [docs EXCEPT ![d].run = "done"]
        /\ req[r].step = "generate"
    BY <1>0, <1>2 DEF Versions!FinishRun, Versions!At
  <2>2. /\ docs' \in [Versions!Ids -> Versions!Versioned]
        /\ \A e \in Versions!Ids :
              /\ docs'[e].status = docs[e].status /\ docs'[e].source = docs[e].source /\ docs'[e].version = docs[e].version
              /\ docs'[e].active = docs[e].active /\ docs'[e].flagged = docs[e].flagged /\ docs'[e].text = docs[e].text
              /\ docs'[e].frozen = docs[e].frozen /\ (e # d => docs'[e].run = docs[e].run)
    BY <1>0, <2>1 DEF Versions!Versioned
  <2>3. \A q \in Requests : req'[q] = req[q] \/ (req'[q].step = "idle" /\ req'[q].previous = {})
    BY <2>1, VersionEnd
  <2>4. \A q \in Requests : req'[q].step = "generate" => docs'[req[q].doc].run = "running"
    BY <1>0, <2>1, <2>2, VersionEnd DEF VersionInv, VersionsFit
  <2> QED
    BY <1>0, <2>1, <2>2, <2>3, <2>4, VersionEnd, VersionsChange
<1>3. CASE Versions!ReplaceItem(r)
  <2>1. d \in Versions!Ids /\ kind' = kind /\ job' = job /\ Versions!End(r) /\ req[r].step = "regenerate"
    BY <1>3 DEF Versions!ReplaceItem, Versions!At, VersionTypes
  <2>2. kind \in Overlapping \/ docs[d].status = "draft"
    BY <2>1 DEF VersionInv, VersionsFit, Unapproved
  <2>3. PICK x : /\ x = req[r].doc
                 /\ \E items : /\ items = docs[x].active + docs[x].flagged
                               /\ \E active \in 0 .. items :
                                    docs' = [docs EXCEPT ![x].active = active, ![x].flagged = items - active]
    BY <1>3 DEF Versions!ReplaceItem
  <2>a. PICK items : /\ items = docs[x].active + docs[x].flagged
                     /\ \E active \in 0 .. items :
                          docs' = [docs EXCEPT ![x].active = active, ![x].flagged = items - active]
    BY <2>3
  <2>b. PICK a \in 0 .. items : docs' = [docs EXCEPT ![x].active = a, ![x].flagged = items - a]
    BY <2>a
  <2>c. PICK f : f = items - a
    OBVIOUS
  <2>d. docs' = [docs EXCEPT ![x].active = a, ![x].flagged = f]
    BY <2>b, <2>c
  <2>5. a \in 0 .. MaxItems /\ f \in 0 .. MaxItems /\ a + f <= MaxItems
    <3>1. docs[x].active \in Nat /\ docs[x].flagged \in Nat /\ docs[x].active + docs[x].flagged <= MaxItems
      BY <1>0, <2>1, <2>3
    <3>2. items \in Nat /\ items <= MaxItems
      BY <2>a, <3>1
    <3>3. a \in Nat /\ a <= items
      BY <2>b, <3>2
    <3> QED
      BY <2>c, <3>2, <3>3 DEF VersionBounds
  <2>6. /\ docs' \in [Versions!Ids -> Versions!Versioned]
        /\ \A e \in Versions!Ids : docs'[e].version = docs[e].version /\ docs'[e].status = docs[e].status /\ docs'[e].source = docs[e].source
                                   /\ docs'[e].run = docs[e].run /\ (e # d => docs'[e] = docs[e])
        /\ docs'[d].active = a /\ docs'[d].flagged = f
    BY <1>0, <2>1, <2>3, <2>d, <2>5 DEF Versions!Versioned
  <2>7. docs'[d].active + docs'[d].flagged <= MaxItems
    BY <2>5, <2>6
  <2>8. \A q \in Requests : req'[q] = req[q] \/ (req'[q].step = "idle" /\ req'[q].previous = {})
    BY <2>1, VersionEnd
  <2>9. \A q \in Requests : req'[q].step = "generate" => docs'[req[q].doc].run = "running"
    BY <1>0, <2>1, <2>6, VersionEnd
  <2> HIDE DEF d
  <2>10. \A e \in Versions!Ids : docs'[e].active + docs'[e].flagged <= MaxItems
    BY <1>0, <2>6, <2>7
  <2> QED
    BY <1>0, <2>1, <2>2, <2>6, <2>8, <2>9, <2>10, VersionEnd, VersionsChange
<1>4. CASE Versions!Crash(r)
  <2>1. kind' = kind /\ job' = job /\ docs' = docs /\ Versions!End(r)
    BY <1>4 DEF Versions!Crash
  <2>2. \A q \in Requests : req'[q] = req[q] \/ (req'[q].step = "idle" /\ req'[q].previous = {})
    BY <2>1, VersionEnd
  <2>3. \A q \in Requests : req'[q].step = "generate" => docs'[req[q].doc].run = "running"
    BY <1>0, <2>1, VersionEnd
  <2> QED
    BY <1>0, <2>1, <2>2, <2>3, VersionEnd, VersionsChange
<1> QED
  BY <1>1, <1>2, <1>3, <1>4

LEMMA VersionsWait ==
    ASSUME VersionBounds, VersionTypes, VersionInv,
           Versions!EditJob \/ Versions!ReconcileInterruptedRuns \/ (\E d \in Versions!Ids : Versions!GoStale(d))
    PROVE  VersionTypes' /\ VersionInv'
<1>0. /\ job \in Sources /\ docs \in [Versions!Ids -> Versions!Versioned] /\ req \in [Requests -> VersionSlot] /\ req' = req /\ kind' = kind
      /\ job' \in Sources
      /\ \A e \in Versions!Ids : docs[e].active + docs[e].flagged <= MaxItems
      /\ \A q \in Requests : req[q].step = "generate" => docs[req[q].doc].run = "running" /\ req[q].doc \in Versions!Ids
  BY DEF VersionTypes, Versions!TypeOK, VersionInv, VersionsFit, Versions!EditJob, Versions!ReconcileInterruptedRuns, Versions!GoStale
<1>1. /\ docs' \in [Versions!Ids -> Versions!Versioned]
      /\ \A e \in Versions!Ids :
            /\ docs'[e].status = docs[e].status /\ docs'[e].source = docs[e].source /\ docs'[e].version = docs[e].version
            /\ docs'[e].active = docs[e].active /\ docs'[e].flagged = docs[e].flagged /\ docs'[e].text = docs[e].text
            /\ docs'[e].frozen = docs[e].frozen
            /\ (docs[e].run = "running" /\ (\E q \in Requests : req[q].step = "generate" /\ req[q].doc = e)) => docs'[e].run = "running"
  <2>1. CASE Versions!EditJob
    BY <1>0, <2>1 DEF Versions!EditJob
  <2>2. CASE Versions!ReconcileInterruptedRuns
    <3>1. \A e \in Versions!Ids : docs[e] \in Versions!Versioned
      BY <1>0
    <3>2. \A e \in Versions!Ids :
             docs'[e] = IF docs[e].run = "stale" THEN [docs[e] EXCEPT !.run = "done"] ELSE docs[e]
      BY <2>2 DEF Versions!ReconcileInterruptedRuns
    <3>3. \A e \in Versions!Ids :
             LET ended == [docs[e] EXCEPT !.run = "done"] IN
             /\ ended \in Versions!Versioned
             /\ ended.status = docs[e].status /\ ended.source = docs[e].source /\ ended.version = docs[e].version
             /\ ended.active = docs[e].active /\ ended.flagged = docs[e].flagged /\ ended.text = docs[e].text /\ ended.frozen = docs[e].frozen
      BY <3>1 DEF Versions!Versioned
    <3>4. docs' \in [Versions!Ids -> Versions!Versioned]
      <4>1. docs' = [e \in Versions!Ids |-> IF docs[e].run = "stale" THEN [docs[e] EXCEPT !.run = "done"] ELSE docs[e]]
        BY <2>2 DEF Versions!ReconcileInterruptedRuns
      <4>2. \A e \in Versions!Ids : [docs[e] EXCEPT !.run = "done"] \in Versions!Versioned
        BY <3>3
      <4> QED
        BY <3>1, <4>1, <4>2
    <3>5. ASSUME NEW e \in Versions!Ids
          PROVE  /\ docs'[e].status = docs[e].status /\ docs'[e].source = docs[e].source /\ docs'[e].version = docs[e].version
                 /\ docs'[e].active = docs[e].active /\ docs'[e].flagged = docs[e].flagged /\ docs'[e].text = docs[e].text
                 /\ docs'[e].frozen = docs[e].frozen
                 /\ docs[e].run = "running" => docs'[e].run = "running"
      <4>1. CASE docs[e].run = "stale"
        <5>1. docs'[e] = [docs[e] EXCEPT !.run = "done"]
          BY <3>2, <4>1
        <5> QED
          BY <3>3, <4>1, <5>1
      <4>2. CASE docs[e].run # "stale"
        <5>1. docs'[e] = docs[e]
          BY <3>2, <4>2
        <5> QED
          BY <5>1
      <4> QED
        BY <4>1, <4>2
    <3> QED
      BY <3>4, <3>5
  <2>3. CASE \E d \in Versions!Ids : Versions!GoStale(d)
    BY <1>0, <2>3 DEF Versions!GoStale, Versions!At, Versions!Versioned
  <2> QED
    BY <2>1, <2>2, <2>3
<1>2. \A q \in Requests : req'[q].step = "generate" => docs'[req[q].doc].run = "running"
  BY <1>0, <1>1
<1> QED
  BY <1>0, <1>1, <1>2, VersionsChange

(* A version changes its status: what it was compiled from and its number stay. *)
LEMMA VersionsMove ==
    ASSUME VersionBounds, VersionTypes, kind' = kind, job' = job,
           docs' \in [Versions!Ids -> Versions!Versioned],
           \A d \in Versions!Ids : docs'[d].active + docs'[d].flagged <= MaxItems /\ docs'[d].version <= d
                                   /\ (docs'[d].status = "none" <=> docs[d].status = "none"),
           req' \in [Requests -> VersionSlot],
           \A q \in Requests : /\ req'[q].step \notin {"idle", "compile", "create"} => req'[q].doc \in Versions!Ids
                               /\ req'[q].step = "create" => req'[q] = req[q]
    PROVE  VersionTypes'
<1>1. Versions!TypeOK'
  BY DEF VersionTypes, Versions!TypeOK, VersionSlot
<1> QED
  BY <1>1 DEF VersionTypes

LEMMA VersionsLooked ==
    ASSUME VersionBounds, VersionTypes, VersionInv, NEW r \in Requests, Versions!Look(r)
    PROVE  VersionTypes' /\ VersionInv'
<1>0. /\ kind' = kind /\ job' = job /\ docs' = docs /\ req[r].step = "look" /\ req[r] \in VersionSlot /\ req[r].doc \in Versions!Ids
      /\ docs \in [Versions!Ids -> Versions!Versioned] /\ \A e \in Versions!Ids : docs[e].active + docs[e].flagged <= MaxItems
  BY DEF Versions!Look, Versions!At, VersionTypes, Versions!TypeOK
<1>1. PICK next \in {"approve", "archive"}, retired \in SUBSET Versions!Ids :
         /\ req' = [req EXCEPT ![r].step = next, ![r].previous = retired]
         /\ next = "approve" <=> Versions!LooksFirst(kind)
         /\ retired = Versions!Approved \ {req[r].doc}
  <2> DEFINE next == IF Versions!LooksFirst(kind) THEN "approve" ELSE "archive"
             retired == Versions!Approved \ {req[r].doc}
  <2>1. req' = [req EXCEPT ![r].step = next, ![r].previous = retired]
    BY DEF Versions!Look
  <2>2. next \in {"approve", "archive"} /\ (next = "approve" <=> Versions!LooksFirst(kind))
    OBVIOUS
  <2>3. retired \in SUBSET Versions!Ids /\ retired = Versions!Approved \ {req[r].doc}
    BY DEF Versions!Approved, Versions!There
  <2> HIDE DEF next, retired
  <2> QED
    BY <2>1, <2>2, <2>3
<1>2. /\ req' \in [Requests -> VersionSlot]
      /\ \A q \in Requests : q # r => req'[q] = req[q]
      /\ req'[r].step = next /\ req'[r].doc = req[r].doc /\ req'[r].previous = retired
  BY <1>0, <1>1 DEF VersionTypes, VersionSlot, VersionSteps, Drafting
<1>3. \A d \in retired : d \in Versions!Ids /\ docs[d].status = "approved" /\ d # req[r].doc
  BY <1>1 DEF Versions!Approved, Versions!There
<1>4. VersionTypes'
  BY <1>0, <1>1, <1>2, VersionsMove DEF VersionTypes
<1>5. VersionsAlone'
  BY <1>0, <1>1, <1>2 DEF VersionInv, VersionsAlone, Drafting
<1>6. VersionsFit'
  BY <1>0, <1>1, <1>2 DEF VersionInv, VersionsFit, Unapproved, Versions!LooksFirst
<1>7. RetiredWere'
  BY <1>0, <1>2, <1>3 DEF VersionInv, RetiredWere
<1>8. SomeoneStays'
  <2>1. CASE next = "approve"
    <3>1. \A q \in Requests : req'[q].step = "archive" => req'[q] = req[q]
      BY <1>2, <2>1
    <3>2. \A d \in Versions!Ids : Staying(d) => Staying(d)'
      BY <1>0, <3>1 DEF Staying
    <3> QED
      BY <1>0, <3>1, <3>2 DEF VersionInv, SomeoneStays
  <2>2. CASE next = "archive"
    <3>1. ~Versions!LooksFirst(kind) /\ kind \notin Overlapping
      BY <1>1, <2>2 DEF Versions!LooksFirst, VersionBounds
    <3>2. docs[req[r].doc].status = "approved"
      BY <1>0, <3>1 DEF VersionInv, VersionsFit
    <3>3. \A q \in Requests : req'[q].step = "archive" => q = r
      BY <1>0, <1>2, <3>1 DEF VersionInv, VersionsAlone, Drafting
    <3>4. \A q \in Requests : req'[q].step = "archive" => req[r].doc \notin req'[q].previous
      BY <1>2, <1>3, <3>3
    <3>5. \E d \in Versions!Ids : docs'[d].status = "approved" /\ \A q \in Requests : req'[q].step = "archive" => d \notin req'[q].previous
      BY <1>0, <3>2, <3>4
    <3> QED
      BY <3>5 DEF SomeoneStays, Staying
  <2> QED
    BY <2>1, <2>2
<1>9. DraftsAreSingle' /\ Versions!FrozenIsFinal'
  BY <1>0 DEF VersionInv, DraftsAreSingle, Versions!FrozenIsFinal, Versions!There
<1> QED
  BY <1>4, <1>5, <1>6, <1>7, <1>8, <1>9 DEF VersionInv

LEMMA VersionsApproved ==
    ASSUME VersionBounds, VersionTypes, VersionInv, NEW r \in Requests, Versions!SaveApproved(r)
    PROVE  VersionTypes' /\ VersionInv'
<1>0. /\ kind' = kind /\ job' = job /\ req[r].step = "approve" /\ req[r] \in VersionSlot /\ req[r].doc \in Versions!Ids
      /\ docs \in [Versions!Ids -> Versions!Versioned] /\ \A e \in Versions!Ids : docs[e].active + docs[e].flagged <= MaxItems
      /\ \A e \in Versions!Ids : docs[e].version <= e
  BY DEF Versions!SaveApproved, Versions!At, VersionTypes, Versions!TypeOK
<1>1. PICK d \in Versions!Ids : d = req[r].doc
  BY <1>0
<1>2. docs[d].status = "draft" /\ docs[d] \in Versions!Versioned
  BY <1>0, <1>1 DEF VersionInv, VersionsFit, Unapproved
<1>3. PICK f : f = {<<docs[d].text, docs[d].active, docs[d].flagged>>}
  OBVIOUS
<1>4. docs' = [docs EXCEPT ![d].status = "approved", ![d].frozen = f]
  <2>1. d \in Versions!There
    BY <1>2 DEF Versions!There
  <2>2. docs' = [docs EXCEPT ![d].status = "approved", ![d].frozen = {<<docs[d].text, docs[d].active, docs[d].flagged>>}]
    BY <1>1, <2>1 DEF Versions!SaveApproved
  <2> QED
    BY <1>3, <2>2
<1>5. PICK next \in {"archive", "look"} : req' = [req EXCEPT ![r].step = next] /\ (next = "archive" <=> Versions!LooksFirst(kind))
  <2> DEFINE next == IF Versions!LooksFirst(kind) THEN "archive" ELSE "look"
  <2>1. d \in Versions!There
    BY <1>2 DEF Versions!There
  <2>2. req' = [req EXCEPT ![r].step = next]
    BY <1>1, <2>1 DEF Versions!SaveApproved
  <2>3. next \in {"archive", "look"} /\ (next = "archive" <=> Versions!LooksFirst(kind))
    OBVIOUS
  <2> HIDE DEF next
  <2> QED
    BY <2>2, <2>3
<1>6. /\ req' \in [Requests -> VersionSlot]
      /\ \A q \in Requests : q # r => req'[q] = req[q]
      /\ req'[r].step = next /\ req'[r].doc = d /\ req'[r].previous = req[r].previous
  BY <1>0, <1>1, <1>5 DEF VersionTypes, VersionSlot, VersionSteps, Drafting
<1>7. /\ docs' \in [Versions!Ids -> Versions!Versioned]
      /\ \A e \in Versions!Ids : e # d => docs'[e] = docs[e]
      /\ docs'[d].status = "approved" /\ docs'[d].frozen = f /\ docs'[d].text = docs[d].text
      /\ docs'[d].active = docs[d].active /\ docs'[d].flagged = docs[d].flagged /\ docs'[d].version = docs[d].version
      /\ docs'[d].source = docs[d].source /\ docs'[d].run = docs[d].run
  <2>1. f \in SUBSET (Nat \X (0 .. MaxItems) \X (0 .. MaxItems))
    BY <1>2, <1>3 DEF Versions!Versioned
  <2> QED
    BY <1>0, <1>1, <1>4, <2>1 DEF Versions!Versioned
<1>8. VersionTypes'
  <2>1. \A e \in Versions!Ids : docs'[e].active + docs'[e].flagged <= MaxItems /\ docs'[e].version <= e
                                   /\ (docs'[e].status = "none" <=> docs[e].status = "none")
    BY <1>0, <1>2, <1>7
  <2>2. \A q \in Requests : /\ req'[q].step \notin {"idle", "compile", "create"} => req'[q].doc \in Versions!Ids
                            /\ req'[q].step = "create" => req'[q] = req[q]
    BY <1>5, <1>6 DEF VersionTypes
  <2> QED
    BY <1>0, <1>6, <1>7, <2>1, <2>2, VersionsMove
<1>9. VersionsAlone'
  BY <1>0, <1>5, <1>6 DEF VersionInv, VersionsAlone, Drafting
<1>10. VersionsFit'
  <2>1. \A q \in Requests : q # r /\ req[q].step \notin {"idle", "compile", "create"} /\ Unapproved(q) => req[q].doc # d
    BY <1>0, <1>1 DEF VersionInv, VersionsFit, VersionsAlone, Unapproved, Drafting
  <2>2. \A q \in Requests : req[q].step = "look" => req[q].doc # d
    BY <1>0, <1>1 DEF VersionInv, VersionsFit
  <2>3. \A q \in Requests : Unapproved(q)' => docs'[req'[q].doc].status = "draft"
    <3>1. ~Unapproved(r)'
      BY <1>0, <1>5, <1>6 DEF Unapproved, Versions!LooksFirst
    <3>2. \A q \in Requests : q # r /\ Unapproved(q)' => Unapproved(q) /\ req[q].step \notin {"idle", "compile", "create"}
      BY <1>0, <1>6 DEF Unapproved, Versions!LooksFirst
    <3>3. \A q \in Requests : Unapproved(q) => docs[req[q].doc].status = "draft" /\ req[q].doc \in Versions!Ids
      BY DEF VersionInv, VersionsFit, VersionTypes, Unapproved
    <3> QED
      BY <1>6, <1>7, <2>1, <3>1, <3>2, <3>3
  <2>4. \A q \in Requests : req'[q].step = "look" /\ ~Versions!LooksFirst(kind)' => docs'[req'[q].doc].status = "approved"
    BY <1>0, <1>6, <1>7, <2>2 DEF VersionInv, VersionsFit, VersionTypes, Versions!LooksFirst
  <2>5. \A q \in Requests : req'[q].step = "remove" => kind' = "rubric"
    BY <1>0, <1>5, <1>6 DEF VersionInv, VersionsFit
  <2>6. \A q \in Requests : req'[q].step = "generate" => kind' = "paper" /\ docs'[req'[q].doc].run = "running"
    BY <1>0, <1>5, <1>6, <1>7 DEF VersionInv, VersionsFit, VersionTypes
  <2>7. \A p, q \in Requests : req'[p].step = "approve" /\ req'[q].step = "generate" => req'[p].doc # req'[q].doc
    BY <1>0, <1>5, <1>6 DEF VersionInv, VersionsFit
  <2>8. \A p, q \in Requests : req'[p].step = "generate" /\ req'[q].step = "generate" /\ req'[p].doc = req'[q].doc => p = q
    BY <1>0, <1>5, <1>6 DEF VersionInv, VersionsFit
  <2>9. \A p, q \in Requests :
          req'[p].step \in {"look", "approve"} /\ req'[q].step \in {"look", "approve"} /\ req'[p].doc = req'[q].doc => p = q
    BY <1>0, <1>1, <1>5, <1>6 DEF VersionInv, VersionsFit
  <2> QED
    BY <2>3, <2>4, <2>5, <2>6, <2>7, <2>8, <2>9 DEF VersionsFit
<1>11. \A q \in Requests : req'[q].previous = req[q].previous /\ d \notin req[q].previous
  BY <1>2, <1>6 DEF VersionInv, RetiredWere
<1>12. RetiredWere'
  BY <1>7, <1>11 DEF VersionInv, RetiredWere
<1>13. SomeoneStays'
  BY <1>7, <1>11 DEF SomeoneStays, Staying
<1>14. DraftsAreSingle'
  BY <1>0, <1>7 DEF VersionInv, DraftsAreSingle
<1>15. Versions!FrozenIsFinal'
  BY <1>0, <1>3, <1>7 DEF VersionInv, Versions!FrozenIsFinal, Versions!There
<1> QED
  BY <1>8, <1>9, <1>10, <1>12, <1>13, <1>14, <1>15 DEF VersionInv

LEMMA VersionsArchived ==
    ASSUME VersionBounds, VersionTypes, VersionInv, NEW r \in Requests, Versions!Archive(r)
    PROVE  VersionTypes' /\ VersionInv'
<1>0. /\ kind' = kind /\ job' = job /\ req[r].step = "archive" /\ req[r] \in VersionSlot /\ req[r].doc \in Versions!Ids /\ job \in Sources
      /\ docs \in [Versions!Ids -> Versions!Versioned] /\ \A e \in Versions!Ids : docs[e].active + docs[e].flagged <= MaxItems
      /\ \A e \in Versions!Ids : docs[e].version <= e
      /\ \A q \in Requests : req[q].step = "generate" => docs[req[q].doc].run = "running" /\ req[q].doc \in Versions!Ids
  BY DEF Versions!Archive, Versions!At, VersionTypes, Versions!TypeOK, VersionInv, VersionsFit
<1>1. CASE docs' = docs /\ Versions!End(r)
  <2>1. \A q \in Requests : req'[q] = req[q] \/ (req'[q].step = "idle" /\ req'[q].previous = {})
    BY <1>1, VersionEnd
  <2>2. \A q \in Requests : req'[q].step = "generate" => docs'[req[q].doc].run = "running"
    BY <1>0, <1>1, VersionEnd
  <2> QED
    BY <1>0, <1>1, <2>1, <2>2, VersionEnd, VersionsChange
<1>2. CASE ~(docs' = docs /\ Versions!End(r))
  <2>1. PICK d \in req[r].previous :
           docs' = [docs EXCEPT ![d].status = "archived"] /\ req' = [req EXCEPT ![r].previous = @ \ {d}]
    BY <1>2 DEF Versions!Archive
  <2>2. d \in Versions!Ids /\ docs[d].status \in {"approved", "archived"} /\ docs[d] \in Versions!Versioned
    BY <1>0, <2>1 DEF VersionSlot, VersionInv, RetiredWere
  <2>3. /\ req' \in [Requests -> VersionSlot]
        /\ \A q \in Requests : q # r => req'[q] = req[q]
        /\ req'[r].step = "archive" /\ req'[r].doc = req[r].doc /\ req'[r].previous = req[r].previous \ {d}
    BY <1>0, <2>1 DEF VersionTypes, VersionSlot, VersionSteps, Drafting
  <2>4. /\ docs' \in [Versions!Ids -> Versions!Versioned]
        /\ \A e \in Versions!Ids : e # d => docs'[e] = docs[e]
        /\ docs'[d].status = "archived" /\ docs'[d].frozen = docs[d].frozen /\ docs'[d].text = docs[d].text
        /\ docs'[d].active = docs[d].active /\ docs'[d].flagged = docs[d].flagged /\ docs'[d].version = docs[d].version
        /\ docs'[d].source = docs[d].source /\ docs'[d].run = docs[d].run
    BY <1>0, <2>1, <2>2 DEF Versions!Versioned
  <2>5. VersionTypes'
    <3>1. \A e \in Versions!Ids : docs'[e].active + docs'[e].flagged <= MaxItems /\ docs'[e].version <= e
                                     /\ (docs'[e].status = "none" <=> docs[e].status = "none")
      BY <1>0, <2>2, <2>4
    <3>2. \A q \in Requests : /\ req'[q].step \notin {"idle", "compile", "create"} => req'[q].doc \in Versions!Ids
                              /\ req'[q].step = "create" => req'[q] = req[q]
      BY <1>0, <2>3 DEF VersionTypes
    <3> QED
      BY <1>0, <2>3, <2>4, <3>1, <3>2, VersionsMove
  <2>6. VersionsAlone'
    BY <1>0, <2>3 DEF VersionInv, VersionsAlone, Drafting
  <2>a. \A q \in Requests : req'[q].step = req[q].step /\ req'[q].doc = req[q].doc
    BY <1>0, <2>3
  <2>7. VersionsFit'
    <3>1. \A q \in Requests : Unapproved(q) /\ req[q].doc \in Versions!Ids => req[q].doc # d
      BY <2>2 DEF VersionInv, VersionsFit
    <3>2. \A q \in Requests : req[q].step = "look" /\ ~Versions!LooksFirst(kind) => FALSE
      BY <1>0 DEF VersionInv, VersionsAlone, Versions!LooksFirst, VersionBounds, Drafting
    <3>3. \A q \in Requests : Unapproved(q) => docs[req[q].doc].status = "draft" /\ req[q].doc \in Versions!Ids
      BY DEF VersionInv, VersionsFit, VersionTypes, Unapproved
    <3>4. \A q \in Requests : Unapproved(q)' <=> Unapproved(q)
      BY <1>0, <2>a DEF Unapproved, Versions!LooksFirst
    <3>5. \A q \in Requests : Unapproved(q)' => docs'[req'[q].doc].status = "draft"
      BY <2>a, <2>4, <3>1, <3>3, <3>4
    <3>6. \A q \in Requests : req'[q].step = "generate" => kind' = "paper" /\ docs'[req'[q].doc].run = "running"
      BY <1>0, <2>a, <2>4 DEF VersionInv, VersionsFit
    <3>7. \A q \in Requests : req'[q].step = "look" /\ ~Versions!LooksFirst(kind)' => docs'[req'[q].doc].status = "approved"
      BY <1>0, <2>a, <3>2 DEF Versions!LooksFirst
    <3>8. /\ \A q \in Requests : req'[q].step = "remove" => kind' = "rubric"
          /\ \A p, q \in Requests : req'[p].step = "approve" /\ req'[q].step = "generate" => req'[p].doc # req'[q].doc
          /\ \A p, q \in Requests : req'[p].step = "generate" /\ req'[q].step = "generate" /\ req'[p].doc = req'[q].doc => p = q
          /\ \A p, q \in Requests :
                req'[p].step \in {"look", "approve"} /\ req'[q].step \in {"look", "approve"} /\ req'[p].doc = req'[q].doc => p = q
      BY <1>0, <2>a DEF VersionInv, VersionsFit
    <3> QED
      BY <3>5, <3>6, <3>7, <3>8 DEF VersionsFit
  <2>8. \A q \in Requests : req'[q].previous \subseteq req[q].previous
    BY <2>3
  <2>9. RetiredWere'
    BY <2>4, <2>8 DEF VersionInv, RetiredWere
  <2>10. SomeoneStays'
    <3>1. PICK e \in Versions!Ids : Staying(e)
      BY <1>0 DEF VersionInv, SomeoneStays
    <3>2. e # d
      BY <1>0, <2>1, <3>1 DEF Staying
    <3>3. docs'[e].status = "approved" /\ \A q \in Requests : req'[q].step = "archive" => e \notin req'[q].previous
      BY <2>4, <2>8, <2>a, <3>1, <3>2 DEF Staying
    <3> QED
      BY <3>3 DEF SomeoneStays, Staying
  <2>11. DraftsAreSingle'
    BY <1>0, <2>4 DEF VersionInv, DraftsAreSingle
  <2>12. Versions!FrozenIsFinal'
    BY <1>0, <2>2, <2>4 DEF VersionInv, Versions!FrozenIsFinal, Versions!There
  <2> QED
    BY <2>5, <2>6, <2>7, <2>9, <2>10, <2>11, <2>12 DEF VersionInv
<1> QED
  BY <1>1, <1>2

LEMMA VersionsDeleted ==
    ASSUME VersionBounds, VersionTypes, VersionInv, NEW r \in Requests, Versions!Delete(r)
    PROVE  VersionTypes' /\ VersionInv'
<1>0. /\ kind' = kind /\ job' = job /\ req[r].step = "remove" /\ req[r].doc \in Versions!Ids /\ Versions!End(r)
      /\ docs \in [Versions!Ids -> Versions!Versioned] /\ \A e \in Versions!Ids : docs[e].active + docs[e].flagged <= MaxItems
      /\ \A e \in Versions!Ids : docs[e].version <= e /\ e \in 1 .. MaxDocs
      /\ docs' = [docs EXCEPT ![req[r].doc] = [Versions!NoDoc EXCEPT !.status = "deleted"]]
  BY DEF Versions!Delete, Versions!At, VersionTypes, Versions!TypeOK, Versions!Ids
<1>1. PICK d \in Versions!Ids : d = req[r].doc
  BY <1>0
<1>2. kind = "rubric" /\ kind \notin Overlapping /\ docs[d].status = "draft"
  BY <1>0, <1>1 DEF VersionInv, VersionsFit, VersionBounds, Unapproved
<1>3. PICK gone \in Versions!Versioned :
         gone = [Versions!NoDoc EXCEPT !.status = "deleted"] /\ gone.status = "deleted" /\ gone.version = 0 /\ gone.active = 0 /\ gone.flagged = 0
  <2>1. PICK base \in Versions!Versioned : base = Versions!NoDoc /\ base.active = 0 /\ base.flagged = 0 /\ base.version = 0
    BY VersionSlots
  <2>2. [base EXCEPT !.status = "deleted"] \in Versions!Versioned
    BY DEF Versions!Versioned
  <2>3. [base EXCEPT !.status = "deleted"].status = "deleted"
    BY DEF Versions!Versioned
  <2>4. /\ [base EXCEPT !.status = "deleted"].version = 0 /\ [base EXCEPT !.status = "deleted"].active = 0
        /\ [base EXCEPT !.status = "deleted"].flagged = 0
    BY <2>1 DEF Versions!Versioned
  <2> QED
    BY <2>1, <2>2, <2>3, <2>4
<1>4. docs' \in [Versions!Ids -> Versions!Versioned] /\ docs'[d] = gone /\ \A e \in Versions!Ids : e # d => docs'[e] = docs[e]
  BY <1>0, <1>1, <1>3
<1>5. \A q \in Requests : q # r => req[q].step \in {"idle", "compile", "create"} /\ req'[q] = req[q]
  BY <1>0, <1>2, VersionEnd DEF VersionInv, VersionsAlone, VersionsFit, Drafting
<1>6. req' \in [Requests -> VersionSlot] /\ req'[r].step = "idle" /\ req'[r].previous = {}
  BY <1>0, VersionEnd
<1>7. \A q \in Requests : req'[q].step \in {"idle", "compile", "create"} /\ req'[q].previous \subseteq req[q].previous
  BY <1>5, <1>6
<1>8. VersionTypes'
  <2>1. \A e \in Versions!Ids : docs'[e].active + docs'[e].flagged <= MaxItems /\ docs'[e].version <= e
                                   /\ (docs'[e].status = "none" <=> docs[e].status = "none")
    <3>1. gone.active + gone.flagged <= MaxItems /\ gone.version <= d
      BY <1>0, <1>3 DEF VersionBounds
    <3> QED
      BY <1>0, <1>2, <1>3, <1>4, <3>1
  <2>2. \A q \in Requests : /\ req'[q].step \notin {"idle", "compile", "create"} => req'[q].doc \in Versions!Ids
                            /\ req'[q].step = "create" => req'[q] = req[q]
    BY <1>5, <1>6
  <2> QED
    BY <1>0, <1>4, <1>6, <2>1, <2>2, VersionsMove
<1>9. VersionsAlone' /\ VersionsFit'
  BY <1>7 DEF VersionsAlone, VersionsFit, Unapproved, Drafting
<1>10. RetiredWere'
  BY <1>2, <1>4, <1>7 DEF VersionInv, RetiredWere
<1>11. SomeoneStays'
  BY <1>2, <1>3, <1>4, <1>7 DEF VersionInv, SomeoneStays, Staying
<1>12. DraftsAreSingle'
  BY <1>0, <1>3, <1>4 DEF VersionInv, DraftsAreSingle
<1>13. Versions!FrozenIsFinal'
  BY <1>0, <1>3, <1>4 DEF VersionInv, Versions!FrozenIsFinal, Versions!There
<1> QED
  BY <1>8, <1>9, <1>10, <1>11, <1>12, <1>13 DEF VersionInv

LEMMA VersionsGenerate ==
    ASSUME VersionBounds, VersionTypes, VersionInv, NEW r \in Requests, NEW d \in Versions!Ids, Versions!RunGeneration(r, d)
    PROVE  VersionTypes' /\ VersionInv'
<1>0. /\ kind' = kind /\ job' = job /\ kind = "paper" /\ docs[d].status = "draft" /\ docs[d].run # "running" /\ req[r].step = "idle"
      /\ docs' = [docs EXCEPT ![d].run = "running"] /\ docs[d] \in Versions!Versioned
      /\ docs \in [Versions!Ids -> Versions!Versioned] /\ \A e \in Versions!Ids : docs[e].active + docs[e].flagged <= MaxItems
      /\ \A e \in Versions!Ids : docs[e].version <= e
      /\ \A q \in Requests : req[q].step = "generate" => req[q].doc \in Versions!Ids
  BY DEF Versions!RunGeneration, VersionTypes, Versions!TypeOK
<1>1. kind \notin Overlapping /\ \A q \in Requests : req[q].step \in Drafting
  BY <1>0 DEF Versions!RunGeneration, Versions!Alone, VersionBounds, Drafting
<1>2. "generate" \in VersionSteps /\ d \in 0 .. MaxDocs
  BY DEF VersionSteps, Drafting, Versions!Ids, VersionBounds
<1>3. PICK slot \in VersionSlot : SlotFor(slot, "generate", d)
  BY <1>2, VersionSlotFor
<1>4. req' = [req EXCEPT ![r] = slot] /\ slot.step = "generate" /\ slot.doc = d /\ slot.previous = {}
  BY <1>3 DEF Versions!RunGeneration, SlotFor
<1>5. /\ req' \in [Requests -> VersionSlot] /\ req'[r] = slot
      /\ \A q \in Requests : q # r => req'[q] = req[q]
  BY <1>4 DEF VersionTypes
<1>6. /\ docs' \in [Versions!Ids -> Versions!Versioned]
      /\ docs'[d].run = "running"
      /\ \A e \in Versions!Ids :
            /\ docs'[e].status = docs[e].status /\ docs'[e].source = docs[e].source /\ docs'[e].version = docs[e].version
            /\ docs'[e].active = docs[e].active /\ docs'[e].flagged = docs[e].flagged /\ docs'[e].text = docs[e].text
            /\ docs'[e].frozen = docs[e].frozen /\ (e # d => docs'[e].run = docs[e].run)
  BY <1>0 DEF Versions!Versioned
<1>7. VersionTypes'
  <2>1. \A e \in Versions!Ids : docs'[e].active + docs'[e].flagged <= MaxItems /\ docs'[e].version <= e
                                   /\ (docs'[e].status = "none" <=> docs[e].status = "none")
    BY <1>0, <1>6
  <2>2. \A q \in Requests : /\ req'[q].step \notin {"idle", "compile", "create"} => req'[q].doc \in Versions!Ids
                            /\ req'[q].step = "create" => req'[q] = req[q]
    BY <1>4, <1>5 DEF VersionTypes
  <2> QED
    BY <1>0, <1>5, <1>6, <2>1, <2>2, VersionsMove
<1>8. \A q \in Requests : req'[q].step \in Drafting /\ (q # r => req'[q] = req[q])
  BY <1>1, <1>4, <1>5 DEF Drafting
<1>9. VersionsAlone'
  BY <1>8 DEF VersionsAlone
<1>10. VersionsFit'
  <2>1. \A q \in Requests : req'[q].step = "generate" =>
           kind' = "paper" /\ docs'[req'[q].doc].run = "running" /\ docs'[req'[q].doc].status = "draft"
    BY <1>0, <1>1, <1>4, <1>5, <1>6 DEF VersionInv, VersionsFit, Unapproved
  <2>2. \A p, q \in Requests : req'[p].step = "generate" /\ req'[q].step = "generate" /\ req'[p].doc = req'[q].doc => p = q
    BY <1>0, <1>4, <1>5 DEF VersionInv, VersionsFit
  <2> QED
    BY <1>8, <2>1, <2>2 DEF VersionsFit, Unapproved, Drafting
<1>11. RetiredWere'
  BY <1>4, <1>5, <1>6 DEF VersionInv, RetiredWere
<1>12. SomeoneStays'
  BY <1>4, <1>5, <1>6 DEF VersionInv, SomeoneStays, Staying
<1>13. DraftsAreSingle' /\ Versions!FrozenIsFinal'
  BY <1>0, <1>6 DEF VersionInv, DraftsAreSingle, Versions!FrozenIsFinal, Versions!There
<1> QED
  BY <1>7, <1>9, <1>10, <1>11, <1>12, <1>13 DEF VersionInv

-----------------------------------------------------------------------------
LEMMA VersionsStep ==
    ASSUME VersionBounds, VersionTypes, VersionInv, [Versions!Next]_(Versions!vars)
    PROVE  VersionTypes' /\ VersionInv'
<1>1. CASE Versions!EditJob \/ Versions!ReconcileInterruptedRuns \/ (\E d \in Versions!Ids : Versions!GoStale(d))
  BY <1>1, VersionsWait
<1>2. ASSUME NEW r \in Requests, Versions!Step(r) PROVE VersionTypes' /\ VersionInv'
  BY <1>2, VersionsBegun, VersionsNumbered, VersionsCreated, VersionsEdited, VersionsDeleted, VersionsLooked, VersionsApproved,
     VersionsArchived, VersionsGenerate, VersionsWritten DEF Versions!Step
<1>3. CASE UNCHANGED Versions!vars
  BY <1>3 DEF Versions!vars, VersionTypes, Versions!TypeOK, VersionInv, VersionsAlone, VersionsFit, Unapproved, Versions!LooksFirst,
              RetiredWere, SomeoneStays, Staying, DraftsAreSingle, Versions!FrozenIsFinal, Versions!There
<1> QED
  BY <1>1, <1>2, <1>3 DEF Versions!Next

(* The version that is in force, and the only draft.                         *)
LEMMA AVersionIsInForce ==
    ASSUME VersionBounds, VersionTypes, NEW approved \in SUBSET Versions!Ids, approved # {}
    PROVE  \E d \in approved : \A e \in approved : docs[e].version <= docs[d].version
<1>1. \A d \in approved : docs[d].version \in Nat /\ docs[d].version <= MaxDocs
  BY DEF VersionTypes, Versions!TypeOK, Versions!Versioned, VersionBounds
<1> DEFINE Left(d) == MaxDocs - docs[d].version
           T == {Left(d) : d \in approved}
           R == OpToRel(<, Nat)
<1>2. T \subseteq Nat /\ T # {}
  BY <1>1 DEF VersionBounds
<1>3. PICK n \in T : \A m \in T : <<m, n>> \notin R
  <2>1. IsWellFoundedOn(R, Nat)
    BY NatLessThanWellFounded
  <2> HIDE DEF R, T
  <2> QED
    BY <1>2, <2>1, WFMin
<1>4. PICK d \in approved : n = MaxDocs - docs[d].version
  OBVIOUS
<1>5. ASSUME NEW e \in approved PROVE docs[e].version <= docs[d].version
  <2>1. Left(e) \in T /\ Left(e) \in Nat /\ n \in Nat
    BY <1>2
  <2>2. ~(Left(e) < n)
    BY <1>3, <2>1 DEF OpToRel
  <2> QED
    BY <1>1, <1>4, <2>1, <2>2 DEF VersionBounds
<1> QED
  BY <1>5

LEMMA ApprovalsAreHeld ==
    ASSUME VersionBounds, VersionTypes, VersionInv
    PROVE  Versions!ApprovalsHold
<1>1. Versions!ApprovalIsNotLost
  <2>1. SUFFICES ASSUME NEW d \in Versions!Ids, docs[d].status = "archived" PROVE Versions!ActiveVersion # {}
    BY DEF Versions!ApprovalIsNotLost
  <2>2. Versions!Approved # {} /\ Versions!Approved \in SUBSET Versions!Ids
    BY <2>1 DEF VersionInv, SomeoneStays, Staying, Versions!Approved, Versions!There
  <2> QED
    BY <2>2, AVersionIsInForce DEF Versions!ActiveVersion
<1>2. Versions!OneDraftPerSource
  <2>0. \A S : Versions!Cardinality(S) = Cardinality(S)
    BY DEF Versions!Cardinality, Cardinality
  <2>1. SUFFICES ASSUME kind \in {"rubric", "questions"}, NEW s \in Sources PROVE Cardinality(Versions!DraftOf(s)) <= 1
    BY <2>0 DEF Versions!OneDraftPerSource
  <2>2. \A d, e \in Versions!DraftOf(s) : d = e
    BY <2>1 DEF VersionInv, DraftsAreSingle, Versions!DraftOf, Versions!There
  <2>3. Versions!DraftOf(s) = {} \/ \E d : Versions!DraftOf(s) = {d}
    BY <2>2
  <2>4. Cardinality({}) = 0 /\ \A d : Cardinality({d}) = 1
    BY FS_EmptySet, FS_Singleton
  <2>5. Cardinality(Versions!DraftOf(s)) = 0 \/ Cardinality(Versions!DraftOf(s)) = 1
    BY <2>3, <2>4
  <2> QED
    BY <2>5
<1> QED
  BY <1>1, <1>2 DEF VersionInv, Versions!ApprovalsHold

(* The versions of a document and the requests about them keep their types,
   however compiling, editing, approving and archiving overlap.              *)
THEOREM VersionsAreTyped == ASSUME VersionBounds PROVE Versions!Spec => []Versions!TypeOK
<1>1. Versions!Init => VersionTypes /\ VersionInv
  BY VersionsInit
<1>2. VersionTypes /\ VersionInv /\ [Versions!Next]_(Versions!vars) => VersionTypes' /\ VersionInv'
  BY VersionsStep
<1>3. VersionTypes => Versions!TypeOK
  BY DEF VersionTypes
<1> QED
  BY <1>1, <1>2, <1>3, PTL DEF Versions!Spec

(* A version that was superseded left another approved, two compilations
   leave one draft of a source, and what was approved is never changed: for
   question sets and personas whatever overlaps, for rubrics and papers as
   their requests are taken in turn (approve, compile, updateDraft,
   compileBlueprint).                                                        *)
THEOREM ApprovalsAreNeverLost == ASSUME VersionBounds PROVE Versions!Spec => []Versions!ApprovalsHold
<1>1. Versions!Init => VersionTypes /\ VersionInv
  BY VersionsInit
<1>2. VersionTypes /\ VersionInv /\ [Versions!Next]_(Versions!vars) => VersionTypes' /\ VersionInv'
  BY VersionsStep
<1>3. VersionTypes /\ VersionInv => Versions!ApprovalsHold
  BY ApprovalsAreHeld
<1> QED
  BY <1>1, <1>2, <1>3, PTL DEF Versions!Spec

-----------------------------------------------------------------------------
(* The applications of a candidate.                                          *)

CONSTANTS Jobs, Nothing, Legacy, Uploads, MaxActive, MaxApplies
VARIABLES stored, resumes, versions, apps, sent, rows, purge

Applying == INSTANCE Applications

\* What the bounds are, and that nothing is none of the versions, none of the files.
ApplicationBounds ==
    /\ MaxApplies \in Nat
    /\ Nothing \notin Applying!Versions
    /\ Nothing \notin {Applying!File("library", v) : v \in Legacy} \cup {Applying!File("version", v) : v \in Uploads}

LibraryFiles == {Applying!File("library", v) : v \in Legacy} \cup {Applying!File("version", v) : v \in Uploads}
ResumeVersion == [exists : BOOLEAN, file : LibraryFiles \cup {Nothing}, default : BOOLEAN, archived : BOOLEAN, applied : Nat]
ApplicationSlot ==
    [step : {"idle", "copy", "create", "share"}, id : 0 .. MaxApplies, job : Jobs \cup {Nothing},
     version : Applying!Versions \cup {Nothing}, applied : Nat]

ApplicationTypes ==
    /\ resumes \subseteq Legacy
    /\ versions \in [Applying!Versions -> ResumeVersion]
    /\ \A v \in Applying!Versions : versions[v].exists => versions[v].file # Nothing
    /\ apps \subseteq Applying!Candidate
    /\ req \in [Requests -> ApplicationSlot]
    /\ \A q \in Requests : req[q].step # "idle" => req[q].id \in 1 .. MaxApplies /\ req[q].job \in Jobs
    /\ \A q \in Requests : req[q].step = "share" => req[q].version # Nothing
    /\ sent \in 0 .. MaxApplies
    /\ purge \in [step : {"idle", "artifacts", "file", "row"}, app : 0 .. MaxApplies]

\* No number is given twice: not to two requests, not to a request and an application it did not create, not to two applications.
Uncreated(q) == req[q].step \in {"copy", "create"}
NumbersAreGivenOnce ==
    /\ \A q \in Requests : Uncreated(q) => req[q].id <= sent
    /\ \A p, q \in Requests : Uncreated(p) /\ Uncreated(q) /\ req[p].id = req[q].id => p = q
    /\ \A q \in Requests, a \in apps : Uncreated(q) => req[q].id # a.id
    /\ \A a \in apps : a.id <= sent
    /\ \A a, b \in apps : a.id = b.id => a = b

\* An application stands on the copy that was made for it, which only its own purge deletes.
CopiesAreKept ==
    /\ \A a \in apps : a.file = Applying!File("application", a.id)
    /\ \A q \in Requests : req[q].step = "create" => Applying!File("application", req[q].id) \in stored
    /\ purge.step # "idle" => \E a \in apps : a.id = purge.app

ApplicationInv == NumbersAreGivenOnce /\ CopiesAreKept /\ Applying!ApplicationsAreSelfContained

-----------------------------------------------------------------------------
LEMMA FilesDiffer ==
    /\ \A i, j : Applying!File("application", i) = Applying!File("application", j) => i = j
    /\ \A i, v : Applying!File("application", i) # Applying!File("library", v) /\ Applying!File("application", i) # Applying!File("version", v)
BY DEF Applying!File

LEMMA AbsentVersion == Applying!Absent \in ResumeVersion /\ ~Applying!Absent.exists
BY DEF Applying!Absent, ResumeVersion

LEMMA VersionTaken ==
    ASSUME NEW rec \in ResumeVersion, NEW file \in LibraryFiles, NEW b \in BOOLEAN
    PROVE  /\ [rec EXCEPT !.exists = TRUE, !.file = file, !.default = b] \in ResumeVersion
           /\ [rec EXCEPT !.exists = TRUE, !.file = file, !.default = b].file = file
<1>1. [rec EXCEPT !.exists = TRUE, !.file = file, !.default = b] \in ResumeVersion
  BY DEF ResumeVersion
<1>2. [rec EXCEPT !.exists = TRUE, !.file = file, !.default = b].file = file
  BY DEF ResumeVersion
<1> QED
  BY <1>1, <1>2

LEMMA VersionMarked ==
    ASSUME NEW rec \in ResumeVersion, NEW b \in BOOLEAN
    PROVE  /\ [rec EXCEPT !.default = b] \in ResumeVersion
           /\ [rec EXCEPT !.default = b].exists = rec.exists /\ [rec EXCEPT !.default = b].file = rec.file
BY DEF ResumeVersion

LEMMA VersionPutAway ==
    ASSUME NEW rec \in ResumeVersion
    PROVE  /\ [rec EXCEPT !.archived = TRUE, !.default = FALSE] \in ResumeVersion
           /\ [rec EXCEPT !.archived = TRUE, !.default = FALSE].file = rec.file
BY DEF ResumeVersion

LEMMA ApplicationsInit == ASSUME ApplicationBounds, Applying!Init PROVE ApplicationTypes /\ ApplicationInv
<1>1. /\ resumes = {} /\ apps = {} /\ sent = 0 /\ req = [q \in Requests |-> Applying!Idle]
      /\ versions = [v \in Applying!Versions |-> Applying!Absent] /\ purge = [step |-> "idle", app |-> 0]
  BY DEF Applying!Init
<1>2. Applying!Idle \in ApplicationSlot /\ Applying!Idle.step = "idle"
  BY DEF Applying!Idle, ApplicationSlot, ApplicationBounds
<1>3. /\ versions \in [Applying!Versions -> ResumeVersion] /\ \A v \in Applying!Versions : ~versions[v].exists
      /\ req \in [Requests -> ApplicationSlot] /\ \A q \in Requests : req[q].step = "idle"
  BY <1>1, <1>2, AbsentVersion
<1>4. purge \in [step : {"idle", "artifacts", "file", "row"}, app : 0 .. MaxApplies] /\ purge.step = "idle"
  BY <1>1 DEF ApplicationBounds
<1>5. ApplicationTypes
  BY <1>1, <1>3, <1>4 DEF ApplicationTypes, ApplicationBounds
<1>6. NumbersAreGivenOnce /\ CopiesAreKept
  BY <1>1, <1>3, <1>4 DEF NumbersAreGivenOnce, CopiesAreKept, Uncreated
<1> QED
  BY <1>1, <1>5, <1>6 DEF ApplicationInv, Applying!ApplicationsAreSelfContained

(* What the candidate does with the library leaves the applications alone.   *)
LEMMA LibraryChanges ==
    ASSUME ApplicationTypes, ApplicationInv, UNCHANGED <<apps, req, sent, purge>>, resumes' \subseteq Legacy,
           versions' \in [Applying!Versions -> ResumeVersion],
           \A v \in Applying!Versions : versions'[v].exists => versions'[v].file # Nothing,
           \A i : Applying!File("application", i) \in stored => Applying!File("application", i) \in stored'
    PROVE  ApplicationTypes' /\ ApplicationInv'
<1>1. ApplicationTypes'
  BY DEF ApplicationTypes
<1>2. NumbersAreGivenOnce' /\ CopiesAreKept'
  BY DEF ApplicationInv, NumbersAreGivenOnce, CopiesAreKept, Uncreated
<1>3. Applying!ApplicationsAreSelfContained'
  BY DEF ApplicationInv, CopiesAreKept, Applying!ApplicationsAreSelfContained
<1> QED
  BY <1>1, <1>2, <1>3 DEF ApplicationInv

LEMMA LibraryStep ==
    ASSUME ApplicationBounds, ApplicationTypes, ApplicationInv,
           \/ \E r \in Legacy : Applying!UploadResume(r) \/ Applying!DeleteResume(r)
           \/ Applying!EnsureVersionsMigrated
           \/ \E v \in Applying!Versions :
                 Applying!UploadVersion(v) \/ Applying!SetDefault(v) \/ Applying!Archive(v) \/ Applying!DeleteVersion(v)
    PROVE  ApplicationTypes' /\ ApplicationInv'
<1>0. /\ resumes \subseteq Legacy /\ versions \in [Applying!Versions -> ResumeVersion] /\ Legacy \subseteq Applying!Versions
      /\ \A v \in Applying!Versions : versions[v] \in ResumeVersion /\ (versions[v].exists => versions[v].file \in LibraryFiles)
      /\ \A v \in Legacy : Applying!File("library", v) \in LibraryFiles
      /\ \A v \in Uploads : Applying!File("version", v) \in LibraryFiles
      /\ Nothing \notin LibraryFiles
  BY DEF ApplicationTypes, ResumeVersion, LibraryFiles, Applying!Versions, ApplicationBounds
<1>a. \A i : Applying!File("application", i) \notin LibraryFiles
  BY FilesDiffer DEF LibraryFiles
<1>1. CASE \E r \in Legacy : Applying!UploadResume(r) \/ Applying!DeleteResume(r)
  BY <1>0, <1>1, <1>a, LibraryChanges DEF Applying!UploadResume, Applying!DeleteResume, ApplicationTypes
<1>2. CASE Applying!EnsureVersionsMigrated
  <2>1. PICK first \in resumes, some \in SUBSET resumes :
           versions' = [v \in Applying!Versions |->
              IF v \in some THEN [Applying!Absent EXCEPT !.exists = TRUE, !.file = Applying!File("library", v), !.default = v = first]
              ELSE versions[v]]
    BY <1>2 DEF Applying!EnsureVersionsMigrated
  <2> DEFINE new(v) == [Applying!Absent EXCEPT !.exists = TRUE, !.file = Applying!File("library", v), !.default = v = first]
  <2>2. \A v \in some : new(v) \in ResumeVersion /\ new(v).file \in LibraryFiles
    <3>1. TAKE v \in some
    <3>2. PICK b \in BOOLEAN : b = (v = first)
      OBVIOUS
    <3>3. PICK file \in LibraryFiles : file = Applying!File("library", v)
      BY <1>0
    <3>4. PICK rec \in ResumeVersion : rec = Applying!Absent
      BY AbsentVersion
    <3>5. new(v) = [rec EXCEPT !.exists = TRUE, !.file = file, !.default = b]
      BY <3>2, <3>3, <3>4
    <3>6. PICK taken \in ResumeVersion : taken = [rec EXCEPT !.exists = TRUE, !.file = file, !.default = b] /\ taken.file = file
      BY VersionTaken
    <3>7. new(v) = taken
      BY <3>5, <3>6
    <3> HIDE DEF new
    <3> QED
      BY <3>6, <3>7
  <2>3. versions' = [v \in Applying!Versions |-> IF v \in some THEN new(v) ELSE versions[v]]
    BY <2>1
  <2> HIDE DEF new
  <2>4. /\ versions' \in [Applying!Versions -> ResumeVersion]
        /\ \A v \in Applying!Versions : versions'[v].exists => versions'[v].file \in LibraryFiles
    BY <1>0, <2>2, <2>3
  <2> QED
    BY <1>0, <1>2, <2>4, LibraryChanges DEF Applying!EnsureVersionsMigrated
<1>3. ASSUME NEW v \in Applying!Versions, Applying!UploadVersion(v) PROVE ApplicationTypes' /\ ApplicationInv'
  <2>1. PICK b \in BOOLEAN : b = (Applying!Active = {})
    OBVIOUS
  <2>2. /\ v \in Uploads /\ stored' = stored \cup {Applying!File("version", v)}
        /\ versions' = [versions EXCEPT ![v] = [Applying!Absent EXCEPT !.exists = TRUE, !.file = Applying!File("version", v), !.default = b]]
        /\ UNCHANGED <<resumes, apps, req, sent, rows, purge>>
    BY <1>3, <2>1 DEF Applying!UploadVersion
  <2>3. PICK new \in ResumeVersion : new = [Applying!Absent EXCEPT !.exists = TRUE, !.file = Applying!File("version", v), !.default = b]
                                     /\ new.file \in LibraryFiles
    <3>1. PICK file \in LibraryFiles : file = Applying!File("version", v)
      BY <1>0, <2>2
    <3>2. PICK rec \in ResumeVersion : rec = Applying!Absent
      BY AbsentVersion
    <3>3. [Applying!Absent EXCEPT !.exists = TRUE, !.file = Applying!File("version", v), !.default = b]
             = [rec EXCEPT !.exists = TRUE, !.file = file, !.default = b]
      BY <3>1, <3>2
    <3> QED
      BY <3>3, VersionTaken, ZenonT(40)
  <2>4. /\ versions' \in [Applying!Versions -> ResumeVersion]
        /\ \A w \in Applying!Versions : versions'[w].exists => versions'[w].file \in LibraryFiles
    BY <1>0, <2>2, <2>3
  <2> QED
    BY <1>0, <2>2, <2>4, LibraryChanges
<1>4. ASSUME NEW v \in Applying!Versions, Applying!SetDefault(v) PROVE ApplicationTypes' /\ ApplicationInv'
  <2>1. /\ versions' = [w \in Applying!Versions |-> [versions[w] EXCEPT !.default = w = v]]
        /\ UNCHANGED <<stored, resumes, apps, req, sent, rows, purge>>
    BY <1>4 DEF Applying!SetDefault
  <2> DEFINE new(w) == [versions[w] EXCEPT !.default = w = v]
  <2>2. \A w \in Applying!Versions : new(w) \in ResumeVersion /\ new(w).exists = versions[w].exists /\ new(w).file = versions[w].file
    <3>1. \A w \in Applying!Versions : (w = v) \in BOOLEAN
      OBVIOUS
    <3> QED
      BY <1>0, <3>1, VersionMarked
  <2>3. versions' = [w \in Applying!Versions |-> new(w)]
    BY <2>1
  <2> HIDE DEF new
  <2>4. /\ versions' \in [Applying!Versions -> ResumeVersion]
        /\ \A w \in Applying!Versions : versions'[w].exists => versions'[w].file \in LibraryFiles
    BY <1>0, <2>2, <2>3
  <2> QED
    BY <1>0, <2>1, <2>4, LibraryChanges
<1>5. ASSUME NEW v \in Applying!Versions, NEW gone \in ResumeVersion, gone.exists => gone.file \in LibraryFiles,
             NEW next, versions' = Applying!With(v, gone, next)
      PROVE  /\ versions' \in [Applying!Versions -> ResumeVersion]
             /\ \A w \in Applying!Versions : versions'[w].exists => versions'[w].file \in LibraryFiles
  <2> DEFINE new(w) == [versions[w] EXCEPT !.default = TRUE]
  <2>1. \A w \in Applying!Versions : new(w) \in ResumeVersion /\ new(w).exists = versions[w].exists /\ new(w).file = versions[w].file
    BY <1>0, VersionMarked
  <2>2. versions' = [w \in Applying!Versions |-> IF w = v THEN gone ELSE IF w \in next THEN new(w) ELSE versions[w]]
    BY <1>5 DEF Applying!With
  <2> HIDE DEF new
  <2> QED
    BY <1>0, <1>5, <2>1, <2>2
<1>6. ASSUME NEW v \in Applying!Versions, Applying!Archive(v) PROVE ApplicationTypes' /\ ApplicationInv'
  <2>1. PICK next \in Applying!Successor(v) :
           versions' = Applying!With(v, [versions[v] EXCEPT !.archived = TRUE, !.default = FALSE], next)
    BY <1>6 DEF Applying!Archive
  <2>2. PICK gone \in ResumeVersion : gone = [versions[v] EXCEPT !.archived = TRUE, !.default = FALSE] /\ gone.file \in LibraryFiles
    BY <1>0, <1>6, VersionPutAway DEF Applying!Archive
  <2>3. /\ versions' \in [Applying!Versions -> ResumeVersion]
        /\ \A w \in Applying!Versions : versions'[w].exists => versions'[w].file \in LibraryFiles
    BY <1>5, <2>1, <2>2
  <2> QED
    BY <1>0, <1>6, <2>3, LibraryChanges DEF Applying!Archive
<1>7. ASSUME NEW v \in Applying!Versions, Applying!DeleteVersion(v) PROVE ApplicationTypes' /\ ApplicationInv'
  <2>1. PICK next \in Applying!Successor(v) : versions' = Applying!With(v, Applying!Absent, next)
    BY <1>7 DEF Applying!DeleteVersion
  <2>2. Applying!Absent \in ResumeVersion /\ ~Applying!Absent.exists
    BY AbsentVersion
  <2>3. /\ versions' \in [Applying!Versions -> ResumeVersion]
        /\ \A w \in Applying!Versions : versions'[w].exists => versions'[w].file \in LibraryFiles
    BY <1>5, <2>1, <2>2
  <2>4. \A i : Applying!File("application", i) \in stored => Applying!File("application", i) \in stored'
    BY <1>0, <1>7, <1>a DEF Applying!DeleteVersion
  <2> QED
    BY <1>0, <1>7, <2>3, <2>4, LibraryChanges DEF Applying!DeleteVersion
<1> QED
  BY <1>1, <1>2, <1>3, <1>4, <1>6, <1>7

(* Requests that end or go on with what they have.                           *)
LEMMA RequestsGoOn ==
    ASSUME ApplicationTypes, ApplicationInv, UNCHANGED <<resumes, apps, sent, purge>>,
           versions' \in [Applying!Versions -> ResumeVersion],
           \A v \in Applying!Versions : versions'[v].exists => versions'[v].file # Nothing,
           \A i : Applying!File("application", i) \in stored => Applying!File("application", i) \in stored',
           req' \in [Requests -> ApplicationSlot],
           \A q \in Requests :
              \/ req'[q] = req[q]
              \/ req'[q].step = "idle"
              \/ /\ req[q].step = "copy" /\ req'[q].step = "create" /\ req'[q].id = req[q].id /\ req'[q].job = req[q].job
                 /\ Applying!File("application", req[q].id) \in stored'
    PROVE  ApplicationTypes' /\ ApplicationInv'
<1>1. ApplicationTypes'
  BY DEF ApplicationTypes
<1>2. \A q \in Requests : Uncreated(q)' => Uncreated(q) /\ req'[q].id = req[q].id
  BY DEF Uncreated
<1>3. NumbersAreGivenOnce'
  BY <1>2 DEF ApplicationInv, NumbersAreGivenOnce
<1>4. CopiesAreKept'
  BY DEF ApplicationInv, CopiesAreKept
<1>5. Applying!ApplicationsAreSelfContained'
  BY DEF ApplicationInv, CopiesAreKept, Applying!ApplicationsAreSelfContained
<1> QED
  BY <1>1, <1>3, <1>4, <1>5 DEF ApplicationInv

LEMMA IdleSlot == ASSUME ApplicationBounds PROVE Applying!Idle \in ApplicationSlot /\ Applying!Idle.step = "idle"
BY DEF Applying!Idle, ApplicationSlot, ApplicationBounds

LEMMA ApplicationResolved ==
    ASSUME ApplicationBounds, ApplicationTypes, ApplicationInv,
           NEW q \in Requests, NEW j \in Jobs, NEW v \in Applying!Versions \cup {Nothing}, Applying!Resolve(q, j, v)
    PROVE  ApplicationTypes' /\ ApplicationInv'
<1>0. /\ req[q].step = "idle" /\ sent' = sent + 1 /\ sent \in 0 .. MaxApplies /\ sent < MaxApplies
      /\ UNCHANGED <<stored, resumes, versions, apps, rows, purge>>
      /\ req \in [Requests -> ApplicationSlot]
  BY DEF Applying!Resolve, ApplicationTypes
<1>1. PICK n \in 1 .. MaxApplies : n = sent + 1
  BY <1>0 DEF ApplicationBounds
<1>2. PICK k \in Nat : req' = [req EXCEPT ![q] = [step |-> "copy", id |-> n, job |-> j, version |-> v, applied |-> k]]
  <2> DEFINE k == IF v = Nothing THEN 0 ELSE versions[v].applied
  <2>1. req' = [req EXCEPT ![q] = [step |-> "copy", id |-> n, job |-> j, version |-> v, applied |-> k]]
    BY <1>0, <1>1 DEF Applying!Resolve
  <2>2. k \in Nat
    BY DEF ApplicationTypes, ResumeVersion
  <2> HIDE DEF k
  <2> QED
    BY <2>1, <2>2
<1>3. [step |-> "copy", id |-> n, job |-> j, version |-> v, applied |-> k] \in ApplicationSlot
  BY <1>1, <1>2 DEF ApplicationSlot, ApplicationBounds
<1>4. /\ req' \in [Requests -> ApplicationSlot]
      /\ \A p \in Requests : p # q => req'[p] = req[p]
      /\ req'[q].step = "copy" /\ req'[q].id = n /\ req'[q].job = j
  BY <1>0, <1>2, <1>3
<1>5. ApplicationTypes'
  BY <1>0, <1>1, <1>4 DEF ApplicationTypes
<1>6. /\ \A p \in Requests : p # q /\ Uncreated(p)' => Uncreated(p) /\ req'[p] = req[p] /\ req[p].id <= sent /\ req[p].id \in 1 .. MaxApplies
      /\ \A a \in apps : a.id <= sent /\ a.id \in 1 .. MaxApplies
  BY <1>4 DEF Uncreated, ApplicationInv, NumbersAreGivenOnce, ApplicationTypes, Applying!Candidate
<1>7. NumbersAreGivenOnce'
  <2>1. \A p \in Requests : p # q /\ Uncreated(p)' => req'[p].id < n
    BY <1>0, <1>1, <1>6
  <2>2. \A a \in apps : a.id < n
    BY <1>0, <1>1, <1>6
  <2>3. \A p \in Requests : Uncreated(p)' => req'[p].id <= sent'
    BY <1>0, <1>1, <1>4, <1>6
  <2>4. \A p, r \in Requests : Uncreated(p)' /\ Uncreated(r)' /\ req'[p].id = req'[r].id => p = r
    <3>1. SUFFICES ASSUME NEW p \in Requests, NEW r \in Requests, Uncreated(p)', Uncreated(r)', req'[p].id = req'[r].id PROVE p = r
      OBVIOUS
    <3>2. CASE p # q /\ r # q
      BY <1>6, <3>1, <3>2 DEF ApplicationInv, NumbersAreGivenOnce
    <3>3. CASE p = q \/ r = q
      BY <1>1, <1>4, <2>1, <3>1, <3>3
    <3> QED
      BY <3>2, <3>3
  <2>5. \A p \in Requests, a \in apps : Uncreated(p)' => req'[p].id # a.id
    BY <1>1, <1>4, <1>6, <2>2 DEF ApplicationInv, NumbersAreGivenOnce
  <2>6. \A a \in apps : a.id <= sent'
    BY <1>0, <1>6
  <2> QED
    BY <1>0, <2>3, <2>4, <2>5, <2>6 DEF ApplicationInv, NumbersAreGivenOnce
<1>8. CopiesAreKept'
  BY <1>0, <1>4 DEF ApplicationInv, CopiesAreKept
<1>9. Applying!ApplicationsAreSelfContained'
  BY <1>0 DEF ApplicationInv, Applying!ApplicationsAreSelfContained
<1> QED
  BY <1>5, <1>7, <1>8, <1>9 DEF ApplicationInv

LEMMA ApplicationCreated ==
    ASSUME ApplicationBounds, ApplicationTypes, ApplicationInv, NEW q \in Requests, Applying!Create(q)
    PROVE  ApplicationTypes' /\ ApplicationInv'
<1>0. /\ req[q].step = "create" /\ UNCHANGED <<stored, resumes, versions, sent, rows, purge>>
      /\ req \in [Requests -> ApplicationSlot] /\ req[q] \in ApplicationSlot /\ req[q].id \in 1 .. MaxApplies /\ req[q].job \in Jobs
      /\ req[q].version \in Applying!Versions \cup {Nothing}
  BY DEF Applying!Create, ApplicationTypes, ApplicationSlot
<1>1. CASE ~Applying!UniqueIndex(req[q].job)
  <2>1. apps' = apps /\ req' = [req EXCEPT ![q] = Applying!Idle]
    BY <1>1 DEF Applying!Create
  <2>2. /\ req' \in [Requests -> ApplicationSlot]
        /\ \A p \in Requests : req'[p] = req[p] \/ req'[p].step = "idle"
    BY <1>0, <2>1, IdleSlot
  <2> QED
    BY <1>0, <2>1, <2>2, RequestsGoOn DEF ApplicationTypes
<1>2. CASE Applying!UniqueIndex(req[q].job)
  <2> DEFINE new == [id |-> req[q].id, job |-> req[q].job, file |-> Applying!ResumeFile(req[q]), version |-> req[q].version]
  <2>1. apps' = apps \cup {new}
    BY <1>2 DEF Applying!Create
  <2>2. new.id = req[q].id /\ new.job = req[q].job /\ new.file = Applying!File("application", req[q].id) /\ new.version = req[q].version
    BY DEF Applying!ResumeFile
  <2>3. new \in Applying!Candidate
    BY <1>0 DEF Applying!Candidate, Applying!ResumeFile
  <2>4. /\ req' \in [Requests -> ApplicationSlot]
        /\ \A p \in Requests : p # q => req'[p] = req[p]
        /\ req'[q].step \in {"idle", "share"}
        /\ req'[q].step = "share" => req'[q].id = req[q].id /\ req'[q].job = req[q].job /\ req'[q].version = req[q].version /\ req[q].version # Nothing
    <3>1. CASE req[q].version = Nothing
      <4>1. req' = [req EXCEPT ![q] = Applying!Idle]
        BY <1>2, <3>1 DEF Applying!Create
      <4> QED
        BY <1>0, <4>1, IdleSlot
    <3>2. CASE req[q].version # Nothing
      <4>1. req' = [req EXCEPT ![q].step = "share"]
        BY <1>0, <1>2, <3>2 DEF Applying!Create
      <4> QED
        BY <1>0, <3>2, <4>1 DEF ApplicationSlot
    <3> QED
      BY <3>1, <3>2
  <2> HIDE DEF new
  <2>5. ApplicationTypes'
    <3>1. apps' \subseteq Applying!Candidate
      BY <2>1, <2>3 DEF ApplicationTypes
    <3>2. /\ \A p \in Requests : req'[p].step # "idle" => req'[p].id \in 1 .. MaxApplies /\ req'[p].job \in Jobs
          /\ \A p \in Requests : req'[p].step = "share" => req'[p].version # Nothing
      BY <1>0, <2>4 DEF ApplicationTypes
    <3> QED
      BY <1>0, <2>4, <3>1, <3>2 DEF ApplicationTypes
  <2>6. Uncreated(q) /\ \A p \in Requests : Uncreated(p)' => p # q /\ Uncreated(p) /\ req'[p] = req[p]
    BY <1>0, <2>4 DEF Uncreated
  <2>7. NumbersAreGivenOnce'
    <3>1. \A p \in Requests : Uncreated(p)' => req'[p].id <= sent'
      BY <1>0, <2>6 DEF ApplicationInv, NumbersAreGivenOnce
    <3>2. \A p, r \in Requests : Uncreated(p)' /\ Uncreated(r)' /\ req'[p].id = req'[r].id => p = r
      BY <2>6 DEF ApplicationInv, NumbersAreGivenOnce
    <3>3. \A p \in Requests, a \in apps' : Uncreated(p)' => req'[p].id # a.id
      BY <2>1, <2>2, <2>6 DEF ApplicationInv, NumbersAreGivenOnce
    <3>4. \A a \in apps' : a.id <= sent'
      BY <1>0, <2>1, <2>2, <2>6 DEF ApplicationInv, NumbersAreGivenOnce
    <3>5. \A a, b \in apps' : a.id = b.id => a = b
      BY <2>1, <2>2, <2>6 DEF ApplicationInv, NumbersAreGivenOnce
    <3> QED
      BY <3>1, <3>2, <3>3, <3>4, <3>5 DEF NumbersAreGivenOnce
  <2>8. CopiesAreKept'
    <3>1. \A a \in apps' : a.file = Applying!File("application", a.id)
      BY <2>1, <2>2 DEF ApplicationInv, CopiesAreKept
    <3>2. \A p \in Requests : req'[p].step = "create" => Applying!File("application", req'[p].id) \in stored'
      BY <1>0, <2>4 DEF ApplicationInv, CopiesAreKept
    <3>3. purge'.step # "idle" => \E a \in apps' : a.id = purge'.app
      BY <1>0, <2>1 DEF ApplicationInv, CopiesAreKept
    <3> QED
      BY <3>1, <3>2, <3>3 DEF CopiesAreKept
  <2>9. Applying!ApplicationsAreSelfContained'
    <3>1. \A a \in apps : a.job # req[q].job
      BY <1>2 DEF Applying!UniqueIndex, Applying!Applied
    <3>2. \A a, b \in apps' : a.job = b.job => a = b
      BY <2>1, <2>2, <3>1 DEF ApplicationInv, Applying!ApplicationsAreSelfContained
    <3>3. \A a \in apps' : purge' # [step |-> "row", app |-> a.id] => a.file \in stored'
      BY <1>0, <2>1, <2>2 DEF ApplicationInv, CopiesAreKept, Applying!ApplicationsAreSelfContained
    <3> QED
      BY <3>2, <3>3 DEF Applying!ApplicationsAreSelfContained
  <2> QED
    BY <2>5, <2>7, <2>8, <2>9 DEF ApplicationInv
<1> QED
  BY <1>1, <1>2

LEMMA RequestStep ==
    ASSUME ApplicationBounds, ApplicationTypes, ApplicationInv, NEW q \in Requests,
           Applying!Copy(q) \/ Applying!Share(q) \/ Applying!Crash(q)
    PROVE  ApplicationTypes' /\ ApplicationInv'
<1>0. /\ req \in [Requests -> ApplicationSlot] /\ req[q] \in ApplicationSlot
      /\ versions \in [Applying!Versions -> ResumeVersion] /\ Applying!Idle \in ApplicationSlot /\ Applying!Idle.step = "idle"
      /\ \A v \in Applying!Versions : versions[v].exists => versions[v].file # Nothing
      /\ req[q].step = "share" => req[q].version \in Applying!Versions
      /\ req[q].applied + 1 \in Nat
  BY IdleSlot DEF ApplicationTypes, ApplicationSlot
<1>1. CASE Applying!Copy(q)
  <2>1. /\ req[q].step = "copy" /\ UNCHANGED <<resumes, versions, apps, sent, rows, purge>>
        /\ \/ stored' = stored \cup {Applying!ResumeFile(req[q])} /\ req' = [req EXCEPT ![q].step = "create"]
           \/ stored' = stored /\ req' = [req EXCEPT ![q] = Applying!Idle]
    BY <1>1 DEF Applying!Copy
  <2>2. CASE stored' = stored /\ req' = [req EXCEPT ![q] = Applying!Idle]
    <3>1. /\ req' \in [Requests -> ApplicationSlot]
          /\ \A p \in Requests : req'[p] = req[p] \/ req'[p].step = "idle"
      BY <1>0, <2>2
    <3> QED
      BY <1>0, <2>1, <2>2, <3>1, RequestsGoOn DEF ApplicationTypes
  <2>3. CASE stored' = stored \cup {Applying!ResumeFile(req[q])} /\ req' = [req EXCEPT ![q].step = "create"]
    <3>1. Applying!File("application", req[q].id) \in stored' /\ stored \subseteq stored'
      BY <2>3 DEF Applying!ResumeFile
    <3>2. /\ req' \in [Requests -> ApplicationSlot]
          /\ \A p \in Requests : p # q => req'[p] = req[p]
          /\ req'[q].step = "create" /\ req'[q].id = req[q].id /\ req'[q].job = req[q].job
      BY <1>0, <2>3 DEF ApplicationSlot
    <3>3. \A p \in Requests :
              \/ req'[p] = req[p]
              \/ req'[p].step = "idle"
              \/ /\ req[p].step = "copy" /\ req'[p].step = "create" /\ req'[p].id = req[p].id /\ req'[p].job = req[p].job
                 /\ Applying!File("application", req[p].id) \in stored'
      BY <2>1, <3>1, <3>2
    <3> QED
      BY <1>0, <2>1, <3>1, <3>2, <3>3, RequestsGoOn DEF ApplicationTypes
  <2> QED
    BY <2>1, <2>2, <2>3
<1>2. CASE Applying!Share(q)
  <2>1. PICK n \in Nat : n = req[q].applied + 1
    BY <1>0
  <2>2. PICK v \in Applying!Versions : v = req[q].version
    BY <1>0, <1>2 DEF Applying!Share
  <2>3. /\ versions' = versions \/ versions' = [versions EXCEPT ![v].applied = n]
        /\ req' = [req EXCEPT ![q] = Applying!Idle]
        /\ UNCHANGED <<stored, resumes, apps, sent, rows, purge>>
    BY <1>2, <2>1, <2>2 DEF Applying!Share
  <2>4. /\ versions' \in [Applying!Versions -> ResumeVersion]
        /\ \A w \in Applying!Versions : versions'[w].exists = versions[w].exists /\ versions'[w].file = versions[w].file
    BY <1>0, <2>3 DEF ResumeVersion
  <2>5. /\ req' \in [Requests -> ApplicationSlot]
        /\ \A p \in Requests : req'[p] = req[p] \/ req'[p].step = "idle"
    BY <1>0, <2>3
  <2> QED
    BY <1>0, <2>3, <2>4, <2>5, RequestsGoOn
<1>3. CASE Applying!Crash(q)
  <2>1. /\ req' \in [Requests -> ApplicationSlot]
        /\ \A p \in Requests : req'[p] = req[p] \/ req'[p].step = "idle"
        /\ UNCHANGED <<stored, resumes, versions, apps, sent, rows, purge>>
    BY <1>0, <1>3 DEF Applying!Crash
  <2> QED
    BY <1>0, <2>1, RequestsGoOn
<1> QED
  BY <1>1, <1>2, <1>3

(* An application's purge.                                                   *)
LEMMA PurgeStep ==
    ASSUME ApplicationBounds, ApplicationTypes, ApplicationInv,
           \/ \E a \in apps : Applying!RemoveApplication(a) \/ Applying!EraseCandidateData(a) \/ Applying!PurgeCompany(a) \/ Applying!Work(a)
           \/ Applying!PurgeArtifacts \/ Applying!PurgeFile \/ Applying!PurgeRow
    PROVE  ApplicationTypes' /\ ApplicationInv'
<1>0. /\ purge \in [step : {"idle", "artifacts", "file", "row"}, app : 0 .. MaxApplies]
      /\ \A a \in apps : a.id \in 1 .. MaxApplies
      /\ 0 \in 0 .. MaxApplies
  BY DEF ApplicationTypes, Applying!Candidate, ApplicationBounds
<1>1. CASE UNCHANGED <<stored, resumes, versions, apps, req, sent, purge>>
  BY <1>1, LibraryChanges DEF ApplicationTypes
<1>2. ASSUME NEW a \in apps, Applying!Purge(a) PROVE ApplicationTypes' /\ ApplicationInv'
  <2>1. /\ purge' = [step |-> "artifacts", app |-> a.id] /\ UNCHANGED <<stored, resumes, versions, apps, req, sent, rows>>
        /\ purge.step = "idle"
    BY <1>2 DEF Applying!Purge
  <2>2. purge'.step = "artifacts" /\ purge'.app = a.id /\ purge' \in [step : {"idle", "artifacts", "file", "row"}, app : 0 .. MaxApplies]
    BY <1>0, <2>1
  <2>3. ApplicationTypes'
    BY <2>1, <2>2 DEF ApplicationTypes
  <2>4. NumbersAreGivenOnce'
    BY <2>1 DEF ApplicationInv, NumbersAreGivenOnce, Uncreated
  <2>5. CopiesAreKept'
    BY <2>1, <2>2 DEF ApplicationInv, CopiesAreKept
  <2>6. \A b \in apps : purge # [step |-> "row", app |-> b.id]
    BY <2>1
  <2>7. Applying!ApplicationsAreSelfContained'
    BY <2>1, <2>6 DEF ApplicationInv, Applying!ApplicationsAreSelfContained
  <2> QED
    BY <2>3, <2>4, <2>5, <2>7 DEF ApplicationInv
<1>3. CASE Applying!PurgeArtifacts
  <2>1. /\ purge.step = "artifacts" /\ purge' = [purge EXCEPT !.step = "file"] /\ UNCHANGED <<stored, resumes, versions, apps, req, sent>>
    BY <1>3 DEF Applying!PurgeArtifacts
  <2>2. purge'.step = "file" /\ purge'.app = purge.app /\ purge' \in [step : {"idle", "artifacts", "file", "row"}, app : 0 .. MaxApplies]
    BY <1>0, <2>1
  <2>3. ApplicationTypes'
    BY <2>1, <2>2 DEF ApplicationTypes
  <2>4. NumbersAreGivenOnce'
    BY <2>1 DEF ApplicationInv, NumbersAreGivenOnce, Uncreated
  <2>5. CopiesAreKept'
    BY <2>1, <2>2 DEF ApplicationInv, CopiesAreKept
  <2>6. \A b \in apps : purge # [step |-> "row", app |-> b.id]
    BY <2>1
  <2>7. Applying!ApplicationsAreSelfContained'
    BY <2>1, <2>6 DEF ApplicationInv, Applying!ApplicationsAreSelfContained
  <2> QED
    BY <2>3, <2>4, <2>5, <2>7 DEF ApplicationInv
<1>4. CASE Applying!PurgeFile
  <2>1. /\ purge.step = "file" /\ purge' = [purge EXCEPT !.step = "row"] /\ UNCHANGED <<resumes, versions, apps, req, sent>>
        /\ stored' \in {stored, stored \ {Applying!File("application", purge.app)}}
    BY <1>4 DEF Applying!PurgeFile
  <2>2. purge'.step = "row" /\ purge'.app = purge.app /\ purge' \in [step : {"idle", "artifacts", "file", "row"}, app : 0 .. MaxApplies]
        /\ purge' = [step |-> "row", app |-> purge.app]
    BY <1>0, <2>1
  <2>3. ApplicationTypes'
    BY <2>1, <2>2 DEF ApplicationTypes
  <2>4. NumbersAreGivenOnce'
    BY <2>1 DEF ApplicationInv, NumbersAreGivenOnce, Uncreated
  <2>5. \A i : i # purge.app /\ Applying!File("application", i) \in stored => Applying!File("application", i) \in stored'
    BY <2>1, FilesDiffer
  <2>6. CopiesAreKept'
    <3>1. \A p \in Requests : req[p].step = "create" => req[p].id # purge.app
      BY <2>1 DEF ApplicationInv, CopiesAreKept, NumbersAreGivenOnce, Uncreated
    <3> QED
      BY <2>1, <2>2, <2>5, <3>1 DEF ApplicationInv, CopiesAreKept
  <2>7. \A b \in apps : purge # [step |-> "row", app |-> b.id]
    BY <2>1
  <2>8. \A b \in apps : purge' # [step |-> "row", app |-> b.id] => b.id # purge.app
    BY <2>2
  <2>9. Applying!ApplicationsAreSelfContained'
    <3>1. \A b \in apps' : purge' # [step |-> "row", app |-> b.id] => b.file \in stored'
      BY <2>1, <2>5, <2>7, <2>8 DEF ApplicationInv, CopiesAreKept, Applying!ApplicationsAreSelfContained
    <3> QED
      BY <2>1, <3>1 DEF ApplicationInv, Applying!ApplicationsAreSelfContained
  <2> QED
    BY <2>3, <2>4, <2>6, <2>9 DEF ApplicationInv
<1>5. CASE Applying!PurgeRow
  <2>1. /\ purge.step = "row" /\ purge' = [step |-> "idle", app |-> 0] /\ UNCHANGED <<stored, resumes, versions, req, sent>>
        /\ apps' = {a \in apps : a.id # purge.app}
    BY <1>5 DEF Applying!PurgeRow
  <2>2. purge'.step = "idle" /\ purge' \in [step : {"idle", "artifacts", "file", "row"}, app : 0 .. MaxApplies]
    BY <1>0, <2>1
  <2>3. ApplicationTypes'
    BY <2>1, <2>2 DEF ApplicationTypes
  <2>4. NumbersAreGivenOnce'
    BY <2>1 DEF ApplicationInv, NumbersAreGivenOnce, Uncreated
  <2>5. CopiesAreKept'
    BY <2>1, <2>2 DEF ApplicationInv, CopiesAreKept
  <2>6. \A b \in apps' : b \in apps /\ purge # [step |-> "row", app |-> b.id]
    BY <2>1
  <2>7. Applying!ApplicationsAreSelfContained'
    BY <2>1, <2>6 DEF ApplicationInv, Applying!ApplicationsAreSelfContained
  <2> QED
    BY <2>3, <2>4, <2>5, <2>7 DEF ApplicationInv
<1> QED
  BY <1>1, <1>2, <1>3, <1>4, <1>5 DEF Applying!RemoveApplication, Applying!Work, Applying!EraseCandidateData, Applying!PurgeCompany

LEMMA ApplicationsStep ==
    ASSUME ApplicationBounds, ApplicationTypes, ApplicationInv, [Applying!Next]_(Applying!vars)
    PROVE  ApplicationTypes' /\ ApplicationInv'
<1>1. ASSUME NEW q \in Requests, NEW j \in Jobs, NEW v \in Applying!Versions \cup {Nothing},
             Applying!ApplyToJob(q, j, v) \/ Applying!AutoApply(q, j, v)
      PROVE  ApplicationTypes' /\ ApplicationInv'
  BY <1>1, ApplicationResolved DEF Applying!ApplyToJob, Applying!AutoApply
<1>2. CASE UNCHANGED Applying!vars
  BY <1>2, LibraryChanges DEF Applying!vars, ApplicationTypes
<1> QED
  BY <1>1, <1>2, LibraryStep, ApplicationCreated, RequestStep, PurgeStep DEF Applying!Next

(* Resumes, versions, applications, requests and erasures keep their types.
                                                                             *)
THEOREM ApplicationsAreTyped == ASSUME ApplicationBounds PROVE Applying!Spec => []Applying!TypeOK
<1>1. Applying!Init => ApplicationTypes /\ ApplicationInv
  BY ApplicationsInit
<1>2. ApplicationTypes /\ ApplicationInv /\ [Applying!Next]_(Applying!vars) => ApplicationTypes' /\ ApplicationInv'
  BY ApplicationsStep
<1>3. ApplicationTypes => Applying!TypeOK
  BY DEF ApplicationTypes, ApplicationSlot, Applying!TypeOK
<1> QED
  BY <1>1, <1>2, <1>3, PTL DEF Applying!Spec

(* A candidate has one application to a job however two submissions
   overlap, and each stands on a file that is there until its own row is
   erased, whatever is done to the library (createApplicationForCandidate,
   deleteResumeVersion, purgeCandidateArtifacts).                            *)
THEOREM ApplicationsKeepTheirResume == ASSUME ApplicationBounds PROVE Applying!Spec => []Applying!ApplicationsAreSelfContained
<1>1. Applying!Init => ApplicationTypes /\ ApplicationInv
  BY ApplicationsInit
<1>2. ApplicationTypes /\ ApplicationInv /\ [Applying!Next]_(Applying!vars) => ApplicationTypes' /\ ApplicationInv'
  BY ApplicationsStep
<1>3. ApplicationInv => Applying!ApplicationsAreSelfContained
  BY DEF ApplicationInv
<1> QED
  BY <1>1, <1>2, <1>3, PTL DEF Applying!Spec

-----------------------------------------------------------------------------
(* The form a resume fills, and the record of who wrote what.                *)

CONSTANTS Facts, Identity, Hostile, NoPayload, MaxUpgrades, MaxOutages
VARIABLES text, library, version, pipeline, model, outages, told, screen, application

Form == INSTANCE Autofill

FormBounds == Facts \subseteq Int /\ IsFiniteSet(Facts) /\ MaxUpgrades \in Nat /\ MaxOutages \in Nat

Offered == Form!Payloads \cup {NoPayload}
FilledIn == [fact : Facts \cup {0}, source : Form!Sources, span : Facts \cup {0}]
Records == [made : BOOLEAN, entries : Seq(FilledIn), counts : [suggested : Nat, accepted : Nat, edited : Nat, discarded : Nat]]

FormTypes ==
    /\ text \in SUBSET Facts /\ library \in [there : BOOLEAN, cache : Offered] /\ version \in Offered /\ screen \in Offered
    /\ pipeline \in 0 .. MaxUpgrades /\ model \in {"off", "up", "failing", "no_credits"} /\ outages \in 0 .. MaxOutages
    /\ told \in Seq(1 .. MaxOutages) /\ application \in Records

(* What is offered quotes this file, and says why when it is no reading; a
   call can be short of credit only in an outage.                            *)
Quotes(list) == \A i \in DOMAIN list : list[i] \in text /\ list[i] \notin Hostile
Speaks(p) == p # NoPayload => Quotes(p.entries) /\ (p.engine # "ai" => p.degraded # "none")
OffersSpeak == Speaks(library.cache) /\ Speaks(version) /\ Speaks(screen)
OutagesAreCounted == model = "no_credits" => outages >= 1

FormInv == FormTypes /\ OffersSpeak /\ OutagesAreCounted /\ Form!CountsAddUp /\ Form!AcceptedIsVerbatim /\ Form!OneAlertPerOutage

LEMMA FormCounts == \A S : Form!Cardinality(S) = Cardinality(S)
BY DEF Form!Cardinality, Cardinality

-----------------------------------------------------------------------------
(* Attribution: an entry claims the first suggestion that is free, so no
   suggestion is claimed twice, and there are as many entries of autofill as
   there are suggestions claimed.                                            *)

LEMMA FirstOf ==
    ASSUME NEW S, S \subseteq Nat, S # {}
    PROVE  \E i \in S : \A j \in S : i <= j
<1> DEFINE R == OpToRel(<, Nat)
<1>1. PICK i \in S : \A j \in S : <<j, i>> \notin R
  <2>1. IsWellFoundedOn(R, Nat)
    BY NatLessThanWellFounded
  <2> HIDE DEF R
  <2> QED
    BY <2>1, WFMin
<1>2. ASSUME NEW j \in S PROVE i <= j
  <2>1. j \in Nat /\ i \in Nat
    OBVIOUS
  <2>2. ~(j < i)
    BY <1>1, <2>1 DEF OpToRel
  <2> QED
    BY <2>1, <2>2
<1> QED
  BY <1>2

LEMMA MatchIsFree ==
    ASSUME NEW list \in Seq(Facts), NEW used, NEW key, Form!Match(list, used, key) # 0
    PROVE  Form!Match(list, used, key) \in DOMAIN list \ used
<1> DEFINE free == {i \in DOMAIN list \ used : Identity[list[i]] = key}
<1>1. Form!Match(list, used, key) = IF free = {} THEN 0 ELSE CHOOSE i \in free : \A j \in free : i <= j
  BY DEF Form!Match, Form!FirstFree
<1>2. free # {} /\ Form!Match(list, used, key) = CHOOSE i \in free : \A j \in free : i <= j
  BY <1>1
<1>3. free \subseteq Nat /\ free \subseteq DOMAIN list \ used
  OBVIOUS
<1> HIDE DEF free
<1>4. \E i \in free : \A j \in free : i <= j
  BY <1>2, <1>3, FirstOf
<1> QED
  BY <1>2, <1>3, <1>4

LEMMA ClaimsAreOnce ==
    ASSUME NEW list \in Seq(Facts), NEW n \in Nat, NEW submitted \in [1 .. n -> Form!Entries],
           NEW claim \in Form!Claims(submitted, list), NEW i \in 1 .. n, NEW j \in 1 .. n, i < j, claim[j] # 0
    PROVE  claim[i] # claim[j]
<1>1. claim[j] = Form!Match(list, Form!Claimed(claim, j), submitted[j].key)
  BY DEF Form!Claims
<1>2. claim[j] \notin Form!Claimed(claim, j)
  BY <1>1, MatchIsFree
<1>3. claim[i] \in Form!Claimed(claim, j)
  BY DEF Form!Claimed
<1> QED
  BY <1>2, <1>3

LEMMA ClaimsAddUp ==
    ASSUME NEW list \in Seq(Facts), NEW n \in Nat, NEW submitted \in [1 .. n -> Form!Entries],
           NEW claim \in Form!Claims(submitted, list), NEW entries, entries = Form!Attribute(submitted, list, claim),
           NEW counts, counts = Form!Counts(entries, list, claim)
    PROVE  /\ counts \in [suggested : Nat, accepted : Nat, edited : Nat, discarded : Nat]
           /\ counts.suggested = counts.accepted + counts.edited + counts.discarded
<1> DEFINE D == 1 .. n
           A == {i \in D : entries[i].source = "autofill_accepted"}
           B == {i \in D : entries[i].source = "autofill_edited"}
           M == {i \in D : claim[i] # 0}
           K == {claim[i] : i \in D} \ {0}
<1>1. claim \in [D -> 0 .. Len(list)] /\ Len(list) \in Nat /\ DOMAIN submitted = D
  BY DEF Form!Claims
<1>2. DOMAIN entries = D /\ \A i \in D : entries[i].source = Form!Source(submitted[i], list, claim[i])
  BY <1>1 DEF Form!Attribute
<1>3. A \cup B = M /\ A \cap B = {}
  BY <1>2 DEF Form!Source
<1>4. IsFiniteSet(D) /\ IsFiniteSet(A) /\ IsFiniteSet(B) /\ IsFiniteSet(M)
  <2>1. IsFiniteSet(D)
    BY FS_Interval
  <2> HIDE DEF D
  <2> QED
    BY <2>1, FS_Subset
<1>5. Cardinality(A) \in Nat /\ Cardinality(B) \in Nat /\ Cardinality(M) = Cardinality(A) + Cardinality(B)
  <2>1. Cardinality(A) \in Nat /\ Cardinality(B) \in Nat
    BY <1>4, FS_CardinalityType
  <2>2. Cardinality(A \cup B) = Cardinality(A) + Cardinality(B) - Cardinality(A \cap B)
    <3> HIDE DEF A, B
    <3> QED
      BY <1>4, FS_Union
  <2>3. Cardinality(A \cap B) = 0
    BY <1>3, FS_EmptySet
  <2>4. Cardinality(A \cup B) = Cardinality(M)
    BY <1>3
  <2> HIDE DEF A, B, M, K, D
  <2> QED
    BY <2>1, <2>2, <2>3, <2>4
<1>6. Cardinality(K) = Cardinality(M)
  <2> DEFINE f == [i \in M |-> claim[i]]
  <2>1. f \in [M -> K]
    BY <1>1
  <2>2. ASSUME NEW i \in M, NEW j \in M, f[i] = f[j] PROVE i = j
    <3>1. i \in 1 .. n /\ j \in 1 .. n /\ claim[i] = claim[j] /\ claim[i] # 0
      BY <2>2
    <3>2. ~(i < j) /\ ~(j < i)
      BY <3>1, ClaimsAreOnce
    <3> QED
      BY <3>1, <3>2
  <2>3. \A k \in K : \E i \in M : f[i] = k
    OBVIOUS
  <2>4. f \in Bijection(M, K)
    <3> HIDE DEF f, M, K
    <3> QED
      BY <2>1, <2>2, <2>3 DEF Bijection, Injection, Surjection, IsInjective
  <2> HIDE DEF f, M, K
  <2> QED
    BY <1>4, <2>4, FS_Bijection DEF ExistsBijection
<1>7. Cardinality(K) \in Nat /\ Cardinality(K) <= Len(list)
  <2>1. K \subseteq 1 .. Len(list)
    BY <1>1
  <2>2. IsFiniteSet(1 .. Len(list)) /\ Cardinality(1 .. Len(list)) = Len(list)
    <3>1. 1 \in Int /\ Len(list) \in Int /\ (IF 1 > Len(list) THEN 0 ELSE Len(list) - 1 + 1) = Len(list)
      BY <1>1
    <3> QED
      BY <3>1, FS_Interval
  <2> HIDE DEF K
  <2>3. IsFiniteSet(K) /\ Cardinality(K) <= Cardinality(1 .. Len(list))
    BY <2>1, <2>2, FS_Subset
  <2> QED
    BY <2>2, <2>3, FS_CardinalityType
<1>8. counts = [suggested |-> Len(list), accepted |-> Cardinality(A), edited |-> Cardinality(B), discarded |-> Len(list) - Cardinality(K)]
  <2>1. {i \in DOMAIN entries : entries[i].source = "autofill_accepted"} = A /\ {i \in DOMAIN entries : entries[i].source = "autofill_edited"} = B
    BY <1>2
  <2>2. {claim[i] : i \in DOMAIN claim} \ {0} = K
    BY <1>1
  <2> HIDE DEF A, B, K
  <2> QED
    BY <2>1, <2>2, FormCounts DEF Form!Counts, Form!CountOf
<1> HIDE DEF A, B, K, M
<1>9. PICK a, b, k, l : a = Cardinality(A) /\ b = Cardinality(B) /\ k = Cardinality(K) /\ l = Len(list)
  OBVIOUS
<1>10. a \in Nat /\ b \in Nat /\ k \in Nat /\ l \in Nat
  BY <1>1, <1>5, <1>7, <1>9
<1>11. k = a + b /\ k <= l
  BY <1>5, <1>6, <1>7, <1>9
<1>12. counts = [suggested |-> l, accepted |-> a, edited |-> b, discarded |-> l - k]
  BY <1>8, <1>9
<1> HIDE DEF D
<1> QED
  BY <1>10, <1>11, <1>12

LEMMA RecordHolds ==
    ASSUME NEW list \in Seq(Facts), Quotes(list), NEW n \in Nat, NEW submitted \in [1 .. n -> Form!Entries],
           NEW claim \in Form!Claims(submitted, list), NEW entries, entries = Form!Attribute(submitted, list, claim)
    PROVE  /\ entries \in Seq(FilledIn)
           /\ \A i \in DOMAIN entries : entries[i].source = "autofill_accepted" =>
                  entries[i].span = entries[i].fact /\ entries[i].fact \in text \ Hostile
<1>1. claim \in [1 .. n -> 0 .. Len(list)] /\ DOMAIN submitted = 1 .. n /\ DOMAIN list = 1 .. Len(list) /\ Len(list) \in Nat
  BY DEF Form!Claims
<1>2. DOMAIN entries = 1 .. n
  BY <1>1 DEF Form!Attribute
<1>3. ASSUME NEW i \in 1 .. n
      PROVE  /\ entries[i] \in FilledIn
             /\ entries[i].source = "autofill_accepted" => entries[i].span = entries[i].fact /\ entries[i].fact \in text \ Hostile
  <2>1. entries[i] = [fact |-> submitted[i].fact, source |-> Form!Source(submitted[i], list, claim[i]),
                      span |-> IF claim[i] = 0 THEN 0 ELSE list[claim[i]]]
    BY <1>1 DEF Form!Attribute
  <2>2. submitted[i].fact \in Facts \cup {0}
    BY DEF Form!Entries
  <2>3. claim[i] = 0 \/ (claim[i] \in DOMAIN list /\ claim[i] # 0 /\ list[claim[i]] \in Facts)
    BY <1>1
  <2>4. CASE claim[i] = 0
    BY <2>1, <2>2, <2>4 DEF FilledIn, Form!Source, Form!Sources
  <2>5. CASE claim[i] # 0
    BY <2>1, <2>2, <2>3, <2>5 DEF FilledIn, Form!Source, Form!Sources, Quotes
  <2> QED
    BY <2>4, <2>5
<1>4. entries = [i \in 1 .. n |-> entries[i]]
  BY <1>1 DEF Form!Attribute
<1>5. entries \in [1 .. n -> FilledIn]
  BY <1>3, <1>4
<1> QED
  BY <1>2, <1>3, <1>5

-----------------------------------------------------------------------------
(* What is offered, for the state of the model and the cache.                *)

LEMMA SuggestionsSpeak ==
    ASSUME FormBounds, FormTypes, NEW cache \in Offered, Speaks(cache), NEW p \in Form!Suggest(cache)
    PROVE  p \in Form!Payloads /\ Speaks(p)
<1>1. pipeline \in 0 .. MaxUpgrades /\ text \in SUBSET Facts
  BY DEF FormTypes
<1>2. ASSUME NEW why \in {"no_text", "llm_not_configured", "llm_no_credits", "extraction_failed"}, NEW found \in BOOLEAN,
             p = [engine |-> "deterministic", degraded |-> why, basics |-> found, entries |-> <<>>, version |-> pipeline]
      PROVE  p \in Form!Payloads /\ Speaks(p)
  BY <1>1, <1>2 DEF Form!Payloads, Form!Reasons, Speaks, Quotes
<1>3. CASE text = {}
  BY <1>2, <1>3 DEF Form!Suggest, Form!EmptyPayload, Form!Payload
<1>4. CASE text # {} /\ Form!Fresh(cache)
  BY <1>4 DEF Form!Suggest, Form!Fresh, Offered
<1>5. CASE text # {} /\ ~Form!Fresh(cache) /\ model # "up"
  <2>1. p = Form!BasicsOnly("llm_not_configured") \/ p = Form!BasicsOnly("llm_no_credits") \/ p = Form!BasicsOnly("extraction_failed")
    BY <1>5 DEF Form!Suggest, FormTypes
  <2> QED
    BY <1>2, <2>1 DEF Form!BasicsOnly, Form!Payload
<1>6. CASE text # {} /\ ~Form!Fresh(cache) /\ model = "up"
  <2>1. PICK raw \in Form!RawEntries : p \in Form!BuildSuggestions(raw)
    BY <1>6 DEF Form!Suggest, Form!Readings
  <2>2. PICK list \in Form!InOrder(Form!Cited(raw)) : p = Form!Payload("ai", "none", TRUE, list)
    BY <2>1 DEF Form!BuildSuggestions, Form!VerifySection
  <2> DEFINE S == Form!Cited(raw)
  <2>3. S \subseteq text \ Hostile /\ S \subseteq Facts
    BY <1>1 DEF Form!Cited, Form!View, Form!Excluded
  <2>4. list \in [1 .. Form!Cardinality(S) -> S]
    BY <2>2 DEF Form!InOrder
  <2>5. Form!Cardinality(S) \in Nat
    <3>1. IsFiniteSet(S)
      BY <2>3, FS_Subset DEF FormBounds
    <3> HIDE DEF S
    <3> QED
      BY <3>1, FS_CardinalityType, FormCounts
  <2> HIDE DEF S
  <2>6. list \in Seq(Facts) /\ Quotes(list)
    BY <2>3, <2>4, <2>5 DEF Quotes
  <2>7. p = [engine |-> "ai", degraded |-> "none", basics |-> TRUE, entries |-> list, version |-> pipeline]
    BY <2>2 DEF Form!Payload
  <2> QED
    BY <1>1, <2>6, <2>7 DEF Form!Payloads, Form!Reasons, Speaks
<1> QED
  BY <1>3, <1>4, <1>5, <1>6

LEMMA AlertsFit ==
    ASSUME FormBounds, FormInv, NEW cache, Form!Alert(cache)
    PROVE  told' \in Seq(1 .. MaxOutages) /\ Form!OneAlertPerOutage'
<1>1. told \in Seq(1 .. MaxOutages) /\ outages \in 0 .. MaxOutages /\ MaxOutages \in Nat
  BY DEF FormInv, FormTypes, FormBounds
<1>2. \A i, j \in DOMAIN told : i # j => told[i] # told[j]
  BY DEF FormInv, Form!OneAlertPerOutage
<1>3. CASE told' = told
  BY <1>1, <1>2, <1>3 DEF Form!OneAlertPerOutage
<1>4. CASE model = "no_credits" /\ told' = Append(told, outages) /\ ~(\E i \in DOMAIN told : told[i] = outages)
  <2>1. outages \in 1 .. MaxOutages
    BY <1>1, <1>4 DEF FormInv, OutagesAreCounted
  <2>2. told' \in Seq(1 .. MaxOutages) /\ DOMAIN told' = 1 .. Len(told) + 1 /\ told'[Len(told) + 1] = outages
        /\ \A i \in DOMAIN told : told'[i] = told[i]
    BY <1>1, <1>4, <2>1
  <2>3. ASSUME NEW i \in DOMAIN told', NEW j \in DOMAIN told', i # j PROVE told'[i] # told'[j]
    BY <1>1, <1>2, <1>4, <2>2, <2>3
  <2> QED
    BY <2>2, <2>3 DEF Form!OneAlertPerOutage
<1> QED
  BY <1>3, <1>4 DEF Form!Alert, Form!AlertCreditOutage

-----------------------------------------------------------------------------
(* Every step keeps it.                                                      *)

LEMMA FormBegins == ASSUME FormBounds, Form!Init PROVE FormInv
<1>1. 0 \in 0 .. MaxUpgrades /\ 0 \in 0 .. MaxOutages /\ <<>> \in Seq(1 .. MaxOutages) /\ <<>> \in Seq(FilledIn)
  BY DEF FormBounds
<1>2. application = [made |-> FALSE, entries |-> <<>>, counts |-> [suggested |-> 0, accepted |-> 0, edited |-> 0, discarded |-> 0]]
  BY DEF Form!Init, Form!NotApplied, Form!NoCounts
<1>3. FormTypes
  BY <1>1, <1>2 DEF Form!Init, FormTypes, Offered, Records
<1>4. OffersSpeak /\ OutagesAreCounted
  BY DEF Form!Init, OffersSpeak, Speaks, OutagesAreCounted
<1>5. Form!CountsAddUp /\ Form!AcceptedIsVerbatim /\ Form!OneAlertPerOutage
  BY <1>2 DEF Form!Init, Form!CountsAddUp, Form!AcceptedIsVerbatim, Form!OneAlertPerOutage
<1> QED
  BY <1>3, <1>4, <1>5 DEF FormInv

(* What is offered from a document's cache, whatever of it is kept there.    *)
LEMMA OffersKeep ==
    ASSUME FormBounds, FormInv, NEW cache \in Offered, Speaks(cache), Form!Alert(cache), NEW p \in Form!Suggest(cache), Form!Serve(p),
           library' \in {library, [library EXCEPT !.cache = p]}, version' \in {version, p}
    PROVE  FormInv'
<1>1. p \in Form!Payloads /\ Speaks(p)
  BY SuggestionsSpeak DEF FormInv
<1>2. told' \in Seq(1 .. MaxOutages) /\ Form!OneAlertPerOutage'
  BY AlertsFit
<1>3. /\ screen' = p /\ text' = text /\ pipeline' = pipeline /\ model' = model /\ outages' = outages /\ application' = application
      /\ FormTypes /\ OffersSpeak /\ OutagesAreCounted /\ Form!CountsAddUp /\ Form!AcceptedIsVerbatim
  BY DEF Form!Serve, FormInv
<1>4. FormTypes'
  BY <1>1, <1>2, <1>3 DEF FormTypes, Offered
<1>5. OffersSpeak'
  <2>1. \A q : Speaks(q)' <=> (q' # NoPayload => (\A i \in DOMAIN q'.entries : q'.entries[i] \in text /\ q'.entries[i] \notin Hostile)
                                             /\ (q'.engine # "ai" => q'.degraded # "none"))
    BY <1>3 DEF Speaks, Quotes
  <2> QED
    BY <1>1, <1>3, <2>1 DEF OffersSpeak, Speaks, Quotes, FormTypes
<1>6. OutagesAreCounted' /\ Form!CountsAddUp' /\ Form!AcceptedIsVerbatim'
  BY <1>3 DEF OutagesAreCounted, Form!CountsAddUp, Form!AcceptedIsVerbatim
<1> QED
  BY <1>2, <1>4, <1>5, <1>6 DEF FormInv

LEMMA ByResumeKeeps == ASSUME FormBounds, FormInv, Form!AutofillFromResume PROVE FormInv'
<1>1. library.cache \in Offered /\ Speaks(library.cache)
  BY DEF FormInv, FormTypes, OffersSpeak
<1>2. PICK p \in Form!Suggest(library.cache) : Form!KeepOnResume(p)
  BY DEF Form!AutofillFromResume
<1>3. Form!Serve(p) /\ library' \in {library, [library EXCEPT !.cache = p]} /\ version' = version
  BY <1>2 DEF Form!KeepOnResume
<1>4. Form!Alert(library.cache)
  BY DEF Form!AutofillFromResume
<1> QED
  BY <1>1, <1>2, <1>3, <1>4, OffersKeep

LEMMA ByVersionKeeps == ASSUME FormBounds, FormInv, Form!AutofillFromVersion PROVE FormInv'
<1>1. CASE library.there
  BY <1>1, ByResumeKeeps DEF Form!AutofillFromVersion
<1>2. CASE ~library.there
  <2>1. version \in Offered /\ Speaks(version)
    BY DEF FormInv, FormTypes, OffersSpeak
  <2>2. PICK p \in Form!Suggest(version) : Form!KeepOnVersion(p)
    BY <1>2 DEF Form!AutofillFromVersion
  <2>3. Form!Serve(p) /\ library' = library /\ version' = p
    BY <2>2 DEF Form!KeepOnVersion
  <2>4. Form!Alert(version)
    BY <1>2 DEF Form!AutofillFromVersion
  <2> QED
    BY <2>1, <2>2, <2>3, <2>4, OffersKeep
<1> QED
  BY <1>1, <1>2

LEMMA ApplyKeeps == ASSUME FormBounds, FormInv, Form!Apply PROVE FormInv'
<1>1. PICK by \in {"resume", "version"}, submitted \in UNION {[1 .. n -> Form!Entries] : n \in 0 .. 2} :
         \E list \in {Form!Cached(IF by = "resume" THEN library.cache ELSE version)} :
         \E claim \in Form!Claims(submitted, list) :
         \E entries \in {Form!Attribute(submitted, list, claim)} :
            application' = [made |-> TRUE, entries |-> entries, counts |-> Form!Counts(entries, list, claim)]
  BY DEF Form!Apply
<1>2. PICK n \in 0 .. 2 : submitted \in [1 .. n -> Form!Entries]
  OBVIOUS
<1>3. PICK list : /\ list = Form!Cached(IF by = "resume" THEN library.cache ELSE version)
                  /\ \E claim \in Form!Claims(submitted, list) : \E entries \in {Form!Attribute(submitted, list, claim)} :
                        application' = [made |-> TRUE, entries |-> entries, counts |-> Form!Counts(entries, list, claim)]
  BY <1>1
<1>31. PICK claim \in Form!Claims(submitted, list) :
          \E entries \in {Form!Attribute(submitted, list, claim)} :
             application' = [made |-> TRUE, entries |-> entries, counts |-> Form!Counts(entries, list, claim)]
  BY <1>3
<1>4. PICK entries \in {Form!Attribute(submitted, list, claim)} :
         application' = [made |-> TRUE, entries |-> entries, counts |-> Form!Counts(entries, list, claim)]
  BY <1>31
<1>5. list \in Seq(Facts) /\ Quotes(list)
  <2>1. PICK cache : cache \in Offered /\ Speaks(cache) /\ list = Form!Cached(cache)
    BY <1>3 DEF FormInv, FormTypes, OffersSpeak
  <2>2. CASE cache = NoPayload
    BY <2>1, <2>2 DEF Form!Cached, Quotes
  <2>3. CASE cache # NoPayload
    BY <2>1, <2>3 DEF Form!Cached, Offered, Form!Payloads, Speaks
  <2> QED
    BY <2>2, <2>3
<1>6. PICK counts : counts = Form!Counts(entries, list, claim) /\ application' = [made |-> TRUE, entries |-> entries, counts |-> counts]
  BY <1>4
<1>7. /\ counts \in [suggested : Nat, accepted : Nat, edited : Nat, discarded : Nat]
      /\ counts.suggested = counts.accepted + counts.edited + counts.discarded
  BY <1>2, <1>4, <1>5, <1>6, ClaimsAddUp
<1>8. /\ entries \in Seq(FilledIn)
      /\ \A i \in DOMAIN entries : entries[i].source = "autofill_accepted" =>
             entries[i].span = entries[i].fact /\ entries[i].fact \in text \ Hostile
  BY <1>2, <1>4, <1>5, RecordHolds
<1>9. /\ text' = text /\ library' = library /\ version' = version /\ pipeline' = pipeline /\ model' = model /\ outages' = outages
      /\ told' = told /\ screen' = screen
  BY DEF Form!Apply
<1>10. application' \in Records
  BY <1>6, <1>7, <1>8 DEF Records
<1>11. FormTypes'
  BY <1>9, <1>10 DEF FormInv, FormTypes
<1>12. Form!CountsAddUp' /\ Form!AcceptedIsVerbatim'
  BY <1>6, <1>7, <1>8, <1>9 DEF Form!CountsAddUp, Form!AcceptedIsVerbatim
<1>13. OffersSpeak' /\ OutagesAreCounted' /\ Form!OneAlertPerOutage'
  BY <1>9 DEF FormInv, OffersSpeak, Speaks, Quotes, OutagesAreCounted, Form!OneAlertPerOutage
<1> QED
  BY <1>11, <1>12, <1>13 DEF FormInv

LEMMA FormStep == ASSUME FormBounds, FormInv, [Form!Next]_(Form!vars) PROVE FormInv'
<1> USE DEF FormInv
<1>1. CASE Form!AutofillFromResume
  BY <1>1, ByResumeKeeps
<1>2. CASE Form!AutofillFromVersion
  BY <1>2, ByVersionKeeps
<1>3. CASE Form!Apply
  BY <1>3, ApplyKeeps
<1>4. CASE Form!DeleteResume
  <2>1. FormTypes'
    BY <1>4 DEF Form!DeleteResume, FormTypes, Offered
  <2> QED
    BY <1>4, <2>1 DEF Form!DeleteResume, OffersSpeak, Speaks, Quotes, OutagesAreCounted, Form!CountsAddUp, Form!AcceptedIsVerbatim, Form!OneAlertPerOutage
<1>5. CASE Form!Upgrade
  <2>1. FormTypes'
    BY <1>5 DEF Form!Upgrade, FormTypes, FormBounds
  <2> QED
    BY <1>5, <2>1 DEF Form!Upgrade, OffersSpeak, Speaks, Quotes, OutagesAreCounted, Form!CountsAddUp, Form!AcceptedIsVerbatim, Form!OneAlertPerOutage
<1>6. CASE Form!ModelChanges
  <2>1. /\ model' \in {"up", "failing", "no_credits"} /\ (model' # "no_credits" => outages' = outages)
        /\ (model' = "no_credits" => outages' = outages + 1) /\ outages' <= MaxOutages
        /\ text' = text /\ library' = library /\ version' = version /\ pipeline' = pipeline /\ told' = told /\ screen' = screen
        /\ application' = application
    BY <1>6 DEF Form!ModelChanges
  <2>2. FormTypes' /\ OutagesAreCounted'
    BY <2>1 DEF FormTypes, FormBounds, OutagesAreCounted
  <2> QED
    BY <2>1, <2>2 DEF OffersSpeak, Speaks, Quotes, Form!CountsAddUp, Form!AcceptedIsVerbatim, Form!OneAlertPerOutage
<1>7. CASE UNCHANGED Form!vars
  <2>1. FormTypes'
    BY <1>7 DEF Form!vars, FormTypes
  <2> QED
    BY <1>7, <2>1 DEF Form!vars, OffersSpeak, Speaks, Quotes, OutagesAreCounted, Form!CountsAddUp, Form!AcceptedIsVerbatim, Form!OneAlertPerOutage
<1> QED
  BY <1>1, <1>2, <1>3, <1>4, <1>5, <1>6, <1>7 DEF Form!Next

LEMMA FormAlways == ASSUME FormBounds PROVE Form!Spec => []FormInv
<1>1. Form!Init => FormInv
  BY FormBegins
<1>2. FormInv /\ [Form!Next]_(Form!vars) => FormInv'
  BY FormStep
<1> QED
  BY <1>1, <1>2, PTL DEF Form!Spec

(* The file, the caches kept on the resume and on its versions, the form on the
   screen and the record made of it keep their types (autofillService.js).   *)
THEOREM FormIsTyped == ASSUME FormBounds PROVE Form!Spec => []Form!TypeOK
<1>1. FormInv => Form!TypeOK
  <2>1. FormTypes => Form!IsPayload(library.cache) /\ Form!IsPayload(version) /\ Form!IsPayload(screen)
    BY DEF FormTypes, Offered, Form!IsPayload
  <2>2. FormTypes => \A i \in DOMAIN application.entries : application.entries[i].source \in Form!Sources
    <3> SUFFICES ASSUME FormTypes, NEW i \in DOMAIN application.entries PROVE application.entries[i].source \in Form!Sources
      OBVIOUS
    <3>1. application.entries \in Seq(FilledIn)
      BY DEF FormTypes, Records
    <3>2. application.entries[i] \in FilledIn
      BY <3>1
    <3> QED
      BY <3>2 DEF FilledIn
  <2>3. FormTypes => \A count \in {"suggested", "accepted", "edited", "discarded"} : application.counts[count] \in Nat
    BY DEF FormTypes, Records
  <2> QED
    BY <2>1, <2>2, <2>3 DEF FormInv, FormTypes, Form!TypeOK
<1> QED
  BY <1>1, FormAlways, PTL

(* However the model is off, failing, inventive or out of credit, and whichever
   document a form is filled from: what is offered quotes the file and nothing
   that was kept from the model, says why when it is no reading, is accounted
   for once in the record of the application, is marked accepted only word for
   word, and an outage alerts once (attributeProvenance, suggestForResume).  *)
THEOREM TheFormIsHonest == ASSUME FormBounds PROVE Form!Spec => []Form!AutofillIsHonest
<1>1. FormInv => Form!AutofillIsHonest
  <2>1. OffersSpeak => Form!SuggestionsAreCited
    BY DEF OffersSpeak, Speaks, Quotes, Form!SuggestionsAreCited, Form!Range
  <2>2. OffersSpeak => Form!PartialIsLabelled
    BY DEF OffersSpeak, Speaks, Form!PartialIsLabelled
  <2> QED
    BY <2>1, <2>2 DEF FormInv, Form!AutofillIsHonest
<1> QED
  BY <1>1, FormAlways, PTL

-----------------------------------------------------------------------------
(* The calls to the AI provider.                                             *)

CONSTANTS Calls, Ensemble, Answers, NoAnswer, MaxRetries, Threshold, Budget, MaxDry, MaxDown, MaxRounds
VARIABLES provider, breaker, credits, cache, calls, meter

Model == INSTANCE Gateway

GatewayBounds == IsFiniteSet(Calls) /\ MaxRetries \in Nat /\ Threshold \in Nat \ {0} /\ Budget \in Nat \ {0}

CallSteps == {"idle", "asked", "sent", "sleeping", "answered", "failed"}
CallReplies == {"none", "ok", "truncated", "retryable", "no_credits", "breaker_open"}
CallRecords == [step : CallSteps, tries : 0 .. MaxRetries, reply : CallReplies, value : Answers \cup {NoAnswer}, cached : BOOLEAN]
Providers == [up : BOOLEAN, funded : BOOLEAN, dry : Nat, down : Nat]
Breakers == [state : {"closed", "open", "half_open"}, failures : Nat, cooling : BOOLEAN]
Latches == [since : Nat, waiting : BOOLEAN, outages : Nat, alerted : Nat, alerts : Nat, restored : Nat]
Meters == [billed : Nat, answered : Nat, recorded : Nat, rounds : Nat]

\* A reply is of the attempt under way; only an answer comes from the cache.
Sensible(c) == (c.cached => c.step = "answered") /\ (c.step \in {"idle", "asked", "sleeping"} => c.reply = "none")

GatewayTypes ==
    /\ provider \in Providers /\ breaker \in Breakers /\ credits \in Latches /\ meter \in Meters
    /\ cache \in [Model!Firsts -> Answers \cup {NoAnswer}]
    /\ calls \in [Calls -> CallRecords]
    /\ \A i \in Calls : Sensible(calls[i])

(* An outage is over or under way, and was alerted at most once.             *)
LatchKept(c) ==
    /\ c.since # 0 => (c.since = c.outages /\ c.outages = c.restored + 1)
    /\ c.since = 0 => c.outages = c.restored
    /\ c.alerted <= c.outages /\ c.alerts <= c.outages
    /\ (c.since # 0 /\ c.alerted # c.since) => c.alerts < c.outages
    /\ c.waiting => c.since # 0

(* What the breaker, the latch and a reply say of the provider has been so.  *)
BreakerKept ==
    /\ (breaker.state # "closed" \/ breaker.failures > 0) => provider.down > 0
    /\ breaker.cooling => breaker.state = "open"
    /\ breaker.state = "closed" => breaker.failures < Threshold
ProviderKept ==
    /\ ~provider.up => provider.down > 0
    /\ ~provider.funded => provider.dry > 0
    /\ credits.since # 0 => provider.dry > 0
RepliesKept ==
    \A i \in Calls : /\ calls[i].reply \in {"retryable", "breaker_open"} => provider.down > 0
                     /\ calls[i].reply = "no_credits" => provider.dry > 0

(* The answers the provider was paid for and nobody has recorded yet.        *)
DueCalls == {i \in Calls : (calls[i].step = "sent" /\ calls[i].reply = "ok") \/ (calls[i].step = "answered" /\ ~calls[i].cached)}
ActiveCalls == {i \in Calls : calls[i].step # "idle"}
CostsAreCovered ==
    /\ meter.recorded + Cardinality(DueCalls) <= meter.billed
    /\ meter.recorded + Cardinality(ActiveCalls) < Budget + Cardinality(Calls)

GatewayInv == GatewayTypes /\ LatchKept(credits) /\ BreakerKept /\ ProviderKept /\ RepliesKept /\ CostsAreCovered

LEMMA CallSetsAreFinite ==
    ASSUME GatewayBounds, NEW T, T \subseteq Calls
    PROVE  IsFiniteSet(T) /\ Cardinality(T) \in Nat /\ Cardinality(T) <= Cardinality(Calls) /\ Cardinality(Calls) \in Nat
BY FS_Subset, FS_CardinalityType DEF GatewayBounds

\* A call that moves on: what becomes of the sets that count calls.
LEMMA CallMoves ==
    ASSUME GatewayBounds, GatewayTypes, NEW i \in Calls, NEW c \in CallRecords, calls' = [calls EXCEPT ![i] = c],
           Sensible(c)
    PROVE  /\ calls' \in [Calls -> CallRecords] /\ \A j \in Calls : Sensible(calls'[j])
           /\ \A j \in Calls : calls'[j] = IF j = i THEN c ELSE calls[j]
           /\ (c.step # "idle" /\ calls[i].step # "idle") => ActiveCalls' = ActiveCalls
           /\ DueCalls' \subseteq DueCalls \cup {i}
           /\ ~((c.step = "sent" /\ c.reply = "ok") \/ (c.step = "answered" /\ ~c.cached)) => DueCalls' \subseteq DueCalls
           /\ i \in DueCalls => DueCalls' \subseteq DueCalls
<1>1. calls' \in [Calls -> CallRecords] /\ \A j \in Calls : calls'[j] = IF j = i THEN c ELSE calls[j]
  BY DEF GatewayTypes
<1>2. \A j \in Calls : Sensible(calls'[j])
  BY <1>1 DEF GatewayTypes
<1>3. (c.step # "idle" /\ calls[i].step # "idle") => ActiveCalls' = ActiveCalls
  BY <1>1 DEF ActiveCalls
<1>4. DueCalls' \subseteq DueCalls \cup {i}
  BY <1>1 DEF DueCalls
<1>5. ~((c.step = "sent" /\ c.reply = "ok") \/ (c.step = "answered" /\ ~c.cached)) => DueCalls' \subseteq DueCalls
  BY <1>1 DEF DueCalls
<1> QED
  BY <1>1, <1>2, <1>3, <1>4, <1>5

LEMMA CallWith ==
    ASSUME NEW c \in CallRecords, NEW step \in CallSteps, NEW reply \in CallReplies, NEW v \in Answers \cup {NoAnswer},
           NEW b \in BOOLEAN, NEW n \in 0 .. MaxRetries
    PROVE  /\ [c EXCEPT !.step = step] \in CallRecords /\ [c EXCEPT !.step = step].step = step
           /\ [c EXCEPT !.step = step].reply = c.reply /\ [c EXCEPT !.step = step].cached = c.cached
           /\ [c EXCEPT !.step = step, !.reply = reply] \in CallRecords /\ [c EXCEPT !.step = step, !.reply = reply].step = step
           /\ [c EXCEPT !.step = step, !.reply = reply].reply = reply /\ [c EXCEPT !.step = step, !.reply = reply].cached = c.cached
           /\ [c EXCEPT !.reply = reply, !.value = v] \in CallRecords /\ [c EXCEPT !.reply = reply, !.value = v].step = c.step
           /\ [c EXCEPT !.reply = reply, !.value = v].reply = reply /\ [c EXCEPT !.reply = reply, !.value = v].cached = c.cached
           /\ [c EXCEPT !.step = step, !.value = v, !.cached = b] \in CallRecords
           /\ [c EXCEPT !.step = step, !.value = v, !.cached = b].step = step
           /\ [c EXCEPT !.step = step, !.value = v, !.cached = b].reply = c.reply
           /\ [c EXCEPT !.step = step, !.value = v, !.cached = b].cached = b
           /\ [c EXCEPT !.step = step, !.reply = reply, !.tries = n] \in CallRecords
           /\ [c EXCEPT !.step = step, !.reply = reply, !.tries = n].step = step
           /\ [c EXCEPT !.step = step, !.reply = reply, !.tries = n].reply = reply
           /\ [c EXCEPT !.step = step, !.reply = reply, !.tries = n].cached = c.cached
BY DEF CallRecords

\* What holds of the counts when calls move and nothing is metered.
LEMMA CostsStay ==
    ASSUME GatewayBounds, CostsAreCovered, meter \in Meters, DueCalls' \subseteq DueCalls, ActiveCalls' = ActiveCalls, meter' = meter
    PROVE  CostsAreCovered'
<1>1. DueCalls \subseteq Calls /\ ActiveCalls \subseteq Calls
  BY DEF DueCalls, ActiveCalls
<1>2. IsFiniteSet(DueCalls) /\ Cardinality(DueCalls) \in Nat
  BY <1>1, CallSetsAreFinite
<1>3. Cardinality(DueCalls') <= Cardinality(DueCalls) /\ Cardinality(DueCalls') \in Nat
  BY <1>2, FS_Subset, FS_CardinalityType
<1> QED
  BY <1>2, <1>3 DEF CostsAreCovered, Meters

LEMMA IdleCall ==
           /\ (0 \in 0 .. MaxRetries => Model!Idle \in CallRecords) /\ Model!Idle.step = "idle" /\ Model!Idle.reply = "none" /\ ~Model!Idle.cached
BY DEF Model!Idle, CallRecords, CallSteps, CallReplies

LEMMA GatewayBegins ==
    ASSUME GatewayBounds, Model!Init
    PROVE  GatewayInv
<1>1. Model!Idle \in CallRecords
  BY IdleCall DEF GatewayBounds
<1>2. calls = [i \in Calls |-> Model!Idle]
  BY DEF Model!Init
<1>3. GatewayTypes
  <2>1. calls \in [Calls -> CallRecords] /\ \A i \in Calls : Sensible(calls[i])
    BY <1>1, <1>2, IdleCall DEF Sensible
  <2> QED
    BY <2>1 DEF Model!Init, GatewayTypes, Providers, Breakers, Latches, Meters, Model!ClosedBreaker, Model!NoOutage
<1>4. LatchKept(credits) /\ BreakerKept /\ ProviderKept
  BY DEF Model!Init, LatchKept, BreakerKept, ProviderKept, Model!ClosedBreaker, Model!NoOutage, GatewayBounds
<1>5. RepliesKept /\ DueCalls = {} /\ ActiveCalls = {}
  BY <1>2, IdleCall DEF RepliesKept, DueCalls, ActiveCalls
<1>6. Cardinality({}) = 0 /\ Cardinality(Calls) \in Nat
  BY FS_EmptySet, FS_CardinalityType DEF GatewayBounds
<1>7. CostsAreCovered
  BY <1>5, <1>6 DEF Model!Init, CostsAreCovered, GatewayBounds
<1> QED
  BY <1>3, <1>4, <1>5, <1>7 DEF GatewayInv

LEMMA BeginCall ==
    ASSUME GatewayBounds, GatewayInv, NEW e \in Model!Firsts, Model!Begin(e)
    PROVE  GatewayInv'
<1> DEFINE asked == [Model!Idle EXCEPT !.step = "asked"]
<1>0. Model!Idle \in CallRecords
  BY IdleCall DEF GatewayBounds
<1>1. asked \in CallRecords /\ asked.step = "asked" /\ asked.reply = "none" /\ ~asked.cached
  <2>1. PICK base \in CallRecords : base = Model!Idle
    BY <1>0
  <2>2. asked = [base EXCEPT !.step = "asked"] /\ base.reply = "none" /\ ~base.cached
    BY <2>1, IdleCall
  <2> HIDE DEF asked
  <2> QED
    BY <2>2 DEF CallRecords, CallSteps
<1>2. calls' = [i \in Calls |-> IF i \in Model!Samples(e) THEN asked ELSE calls[i]]
  BY DEF Model!Begin
<1> HIDE DEF asked
<1>3. calls' \in [Calls -> CallRecords] /\ \A i \in Calls : Sensible(calls'[i])
  BY <1>1, <1>2 DEF GatewayInv, GatewayTypes, Sensible
<1>4. meter \in Meters /\ meter' \in Meters /\ meter'.recorded = meter.recorded /\ meter'.billed = meter.billed /\ meter.recorded < Budget
  BY DEF Model!Begin, Model!IsOverBudget, GatewayInv, GatewayTypes, Meters, GatewayBounds
<1>5. provider' = provider /\ breaker' = breaker /\ credits' = credits /\ cache' = cache
  BY DEF Model!Begin
<1>6. GatewayTypes'
  BY <1>3, <1>4, <1>5 DEF GatewayInv, GatewayTypes
<1>7. LatchKept(credits)' /\ BreakerKept' /\ ProviderKept'
  BY <1>5 DEF GatewayInv, LatchKept, BreakerKept, ProviderKept
<1>8. RepliesKept'
  BY <1>1, <1>2, <1>5 DEF GatewayInv, RepliesKept
<1>9. DueCalls' \subseteq DueCalls /\ DueCalls \subseteq Calls /\ ActiveCalls' \subseteq Calls
  BY <1>1, <1>2 DEF DueCalls, ActiveCalls
<1>10. IsFiniteSet(DueCalls) /\ Cardinality(DueCalls) \in Nat /\ Cardinality(DueCalls') <= Cardinality(DueCalls) /\ Cardinality(DueCalls') \in Nat
       /\ Cardinality(ActiveCalls') <= Cardinality(Calls) /\ Cardinality(Calls) \in Nat /\ Cardinality(ActiveCalls') \in Nat
  BY <1>9, CallSetsAreFinite, FS_Subset, FS_CardinalityType
<1>11. CostsAreCovered'
  <2>1. meter.recorded \in Nat /\ meter.billed \in Nat /\ Budget \in Nat
    BY <1>4 DEF Meters, GatewayBounds
  <2> QED
    BY <1>4, <1>10, <2>1 DEF GatewayInv, CostsAreCovered
<1> QED
  BY <1>6, <1>7, <1>8, <1>11 DEF GatewayInv

LEMMA LookUpCall ==
    ASSUME GatewayBounds, GatewayInv, NEW i \in Calls, Model!LookUp(i)
    PROVE  GatewayInv'
<1>0. calls[i] \in CallRecords /\ calls[i].step = "asked" /\ provider' = provider /\ credits' = credits /\ cache' = cache /\ meter' = meter
  BY DEF Model!LookUp, GatewayInv, GatewayTypes
<1>1. ~calls[i].cached /\ calls[i].reply = "none"
  BY <1>0 DEF GatewayInv, GatewayTypes, Sensible
<1>2. /\ breaker' \in Breakers
      /\ breaker'.state # "closed" => breaker.state # "closed"
      /\ breaker'.state = "closed" => breaker.state = "closed"
      /\ breaker'.failures = breaker.failures
      /\ breaker'.cooling => breaker'.state = "open"
  <2>1. CASE breaker' = breaker
    BY <2>1 DEF GatewayInv, GatewayTypes, BreakerKept
  <2>2. CASE breaker' = [breaker EXCEPT !.state = Model!BreakerState]
    BY <2>2 DEF Model!BreakerState, GatewayInv, GatewayTypes, BreakerKept, Breakers
  <2> QED
    BY <2>1, <2>2 DEF Model!LookUp
<1>3. PICK c \in CallRecords :
        /\ calls' = [calls EXCEPT ![i] = c]
        /\ c.step # "idle" /\ Sensible(c) /\ ~((c.step = "sent" /\ c.reply = "ok") \/ (c.step = "answered" /\ ~c.cached))
        /\ c.reply \in {"retryable", "breaker_open"} => provider.down > 0
        /\ c.reply = "no_credits" => provider.dry > 0
  <2>0. calls[i].reply \in {"retryable", "breaker_open"} => provider.down > 0
    BY DEF GatewayInv, RepliesKept
  <2>1. calls[i].reply = "no_credits" => provider.dry > 0
    BY DEF GatewayInv, RepliesKept
  <2>2. CASE Model!CacheHit(i)
    <3>1. cache[i] \in Answers \cup {NoAnswer}
      BY <2>2 DEF Model!CacheHit, GatewayInv, GatewayTypes
    <3>2. calls' = [calls EXCEPT ![i] = [calls[i] EXCEPT !.step = "answered", !.value = cache[i], !.cached = TRUE]]
      BY <1>0, <2>2 DEF Model!LookUp, GatewayInv, GatewayTypes
    <3>3. PICK c : c = [calls[i] EXCEPT !.step = "answered", !.value = cache[i], !.cached = TRUE]
      OBVIOUS
    <3>4. c \in CallRecords /\ c.step = "answered" /\ c.cached /\ c.reply = calls[i].reply
      BY <1>0, <3>1, <3>3 DEF CallRecords, CallSteps
    <3> QED
      BY <2>0, <2>1, <3>2, <3>3, <3>4 DEF Sensible
  <2>3. ASSUME NEW reply \in {"no_credits", "breaker_open"},
               calls' = [calls EXCEPT ![i] = [calls[i] EXCEPT !.step = "failed", !.reply = reply]],
               reply = "no_credits" => provider.dry > 0, reply = "breaker_open" => provider.down > 0
        PROVE  \E c \in CallRecords :
                 /\ calls' = [calls EXCEPT ![i] = c]
                 /\ c.step # "idle" /\ Sensible(c) /\ ~((c.step = "sent" /\ c.reply = "ok") \/ (c.step = "answered" /\ ~c.cached))
                 /\ c.reply \in {"retryable", "breaker_open"} => provider.down > 0
                 /\ c.reply = "no_credits" => provider.dry > 0
    <3>1. PICK c : c = [calls[i] EXCEPT !.step = "failed", !.reply = reply]
      OBVIOUS
    <3>2. c \in CallRecords /\ c.step = "failed" /\ c.reply = reply /\ c.cached = calls[i].cached
      BY <1>0, <3>1 DEF CallRecords, CallSteps, CallReplies
    <3> QED
      BY <1>1, <2>3, <3>1, <3>2 DEF Sensible
  <2>4. CASE ~Model!CacheHit(i) /\ Model!CreditsBlocked
    <3>1. calls' = [calls EXCEPT ![i] = [calls[i] EXCEPT !.step = "failed", !.reply = "no_credits"]]
      BY <2>4 DEF Model!LookUp, Model!FailFast, GatewayInv, GatewayTypes
    <3>2. provider.dry > 0
      BY <2>4 DEF Model!CreditsBlocked, GatewayInv, ProviderKept
    <3> QED
      BY <2>3, <3>1, <3>2
  <2>5. CASE ~Model!CacheHit(i) /\ ~Model!CreditsBlocked /\ Model!BreakerState = "open"
    <3>1. calls' = [calls EXCEPT ![i] = [calls[i] EXCEPT !.step = "failed", !.reply = "breaker_open"]]
      BY <2>5 DEF Model!LookUp, Model!FailFast, GatewayInv, GatewayTypes
    <3>2. provider.down > 0
      BY <2>5 DEF Model!BreakerState, GatewayInv, BreakerKept
    <3> QED
      BY <2>3, <3>1, <3>2
  <2>6. CASE ~Model!CacheHit(i) /\ ~Model!CreditsBlocked /\ Model!BreakerState # "open"
    <3>1. calls' = [calls EXCEPT ![i] = [calls[i] EXCEPT !.step = "sent"]]
      BY <2>6 DEF Model!LookUp, GatewayInv, GatewayTypes
    <3>2. PICK c : c = [calls[i] EXCEPT !.step = "sent"]
      OBVIOUS
    <3>3. c \in CallRecords /\ c.step = "sent" /\ c.reply = calls[i].reply /\ c.cached = calls[i].cached
      BY <1>0, <3>2 DEF CallRecords, CallSteps
    <3> QED
      BY <1>1, <2>0, <2>1, <3>1, <3>2, <3>3 DEF Sensible
  <2> QED
    BY <2>2, <2>4, <2>5, <2>6
<1>4. calls' \in [Calls -> CallRecords] /\ (\A j \in Calls : Sensible(calls'[j])) /\ (\A j \in Calls : calls'[j] = IF j = i THEN c ELSE calls[j])
      /\ ActiveCalls' = ActiveCalls /\ DueCalls' \subseteq DueCalls
  BY <1>0, <1>3, CallMoves DEF GatewayInv
<1>5. GatewayTypes'
  BY <1>0, <1>2, <1>4 DEF GatewayInv, GatewayTypes
<1>6. LatchKept(credits)' /\ ProviderKept'
  BY <1>0 DEF GatewayInv, LatchKept, ProviderKept
<1>7. BreakerKept'
  BY <1>0, <1>2 DEF GatewayInv, BreakerKept
<1>8. RepliesKept'
  BY <1>0, <1>3, <1>4 DEF GatewayInv, RepliesKept
<1>9. CostsAreCovered'
  BY <1>0, <1>4, CostsStay DEF GatewayInv, GatewayTypes
<1> QED
  BY <1>5, <1>6, <1>7, <1>8, <1>9 DEF GatewayInv

LEMMA RespondCall ==
    ASSUME GatewayBounds, GatewayInv, NEW i \in Calls, Model!Respond(i)
    PROVE  GatewayInv'
<1>0. calls[i] \in CallRecords /\ calls[i].step = "sent" /\ calls[i].reply = "none" /\ ~calls[i].cached
      /\ provider' = provider /\ breaker' = breaker /\ credits' = credits /\ cache' = cache
  BY DEF Model!Respond, GatewayInv, GatewayTypes, Sensible
<1>1. PICK reply \in {"no_credits", "retryable", "ok", "truncated"}, v \in Answers \cup {NoAnswer}, n \in {0, 1} :
        /\ calls' = [calls EXCEPT ![i].reply = reply, ![i].value = v]
        /\ meter' = [meter EXCEPT !.billed = @ + n]
        /\ reply = "ok" => n = 1
        /\ reply = "retryable" => provider.down > 0
        /\ reply = "no_credits" => provider.dry > 0
  <2>1. PICK reply \in (IF ~provider.funded THEN {"no_credits"} ELSE IF ~provider.up THEN {"retryable"} ELSE {"ok", "truncated"}), w \in Answers :
          /\ calls' = [calls EXCEPT ![i].reply = reply, ![i].value = IF reply = "ok" THEN w ELSE NoAnswer]
          /\ meter' = [meter EXCEPT !.billed = @ + IF reply \in {"ok", "truncated"} THEN 1 ELSE 0]
    BY DEF Model!Respond
  <2>2. reply \in {"no_credits", "retryable", "ok", "truncated"} /\ (reply = "retryable" => ~provider.up) /\ (reply = "no_credits" => ~provider.funded)
    OBVIOUS
  <2>3. PICK v \in Answers \cup {NoAnswer} : v = IF reply = "ok" THEN w ELSE NoAnswer
    OBVIOUS
  <2>4. PICK n \in {0, 1} : n = IF reply \in {"ok", "truncated"} THEN 1 ELSE 0
    OBVIOUS
  <2>5. calls' = [calls EXCEPT ![i].reply = reply, ![i].value = v]
    BY <2>1, <2>3
  <2>6. meter' = [meter EXCEPT !.billed = @ + n]
    BY <2>1, <2>4
  <2>7. (reply = "retryable" => provider.down > 0) /\ (reply = "no_credits" => provider.dry > 0)
    BY <2>2 DEF GatewayInv, ProviderKept
  <2>8. reply = "ok" => n = 1
    BY <2>4
  <2> QED
    BY <2>2, <2>5, <2>6, <2>7, <2>8
<1>2. PICK c : c = [calls[i] EXCEPT !.reply = reply, !.value = v]
  OBVIOUS
<1>3. c \in CallRecords /\ c.step = "sent" /\ c.reply = reply /\ ~c.cached
  BY <1>0, <1>2 DEF CallRecords, CallReplies
<1>4. calls' = [calls EXCEPT ![i] = c]
  BY <1>1, <1>2 DEF GatewayInv, GatewayTypes
<1>5. Sensible(c)
  BY <1>3 DEF Sensible
<1>6. calls' \in [Calls -> CallRecords] /\ (\A j \in Calls : Sensible(calls'[j])) /\ (\A j \in Calls : calls'[j] = IF j = i THEN c ELSE calls[j])
      /\ ActiveCalls' = ActiveCalls /\ DueCalls' \subseteq DueCalls \cup {i} /\ (reply # "ok" => DueCalls' \subseteq DueCalls)
  BY <1>0, <1>3, <1>4, <1>5, CallMoves DEF GatewayInv
<1>7. /\ meter \in Meters /\ meter' \in Meters /\ meter.billed \in Nat /\ meter.recorded \in Nat
      /\ meter'.recorded = meter.recorded /\ meter'.billed = meter.billed + n
  <2>1. meter \in Meters /\ meter.billed \in Nat
    BY DEF GatewayInv, GatewayTypes, Meters
  <2>2. PICK b \in Nat : b = meter.billed + n
    BY <2>1
  <2>3. meter' = [meter EXCEPT !.billed = b]
    BY <1>1, <2>2
  <2> QED
    BY <2>1, <2>2, <2>3 DEF Meters
<1>8. GatewayTypes'
  BY <1>0, <1>6, <1>7 DEF GatewayInv, GatewayTypes
<1>9. LatchKept(credits)' /\ ProviderKept' /\ BreakerKept'
  BY <1>0 DEF GatewayInv, LatchKept, ProviderKept, BreakerKept
<1>10. RepliesKept'
  BY <1>0, <1>1, <1>3, <1>6 DEF GatewayInv, RepliesKept
<1>11. DueCalls \subseteq Calls
  BY DEF DueCalls
<1>12. IsFiniteSet(DueCalls) /\ Cardinality(DueCalls) \in Nat
  BY <1>11, CallSetsAreFinite
<1>13. Cardinality(DueCalls') <= Cardinality(DueCalls) + n /\ Cardinality(DueCalls') \in Nat
  <2>1. CASE reply = "ok"
    <3>1. IsFiniteSet(DueCalls \cup {i}) /\ Cardinality(DueCalls \cup {i}) <= Cardinality(DueCalls) + 1 /\ Cardinality(DueCalls \cup {i}) \in Nat
      <4>1. i \notin DueCalls
        BY <1>0 DEF DueCalls
      <4>2. IsFiniteSet(DueCalls \cup {i}) /\ Cardinality(DueCalls \cup {i}) = Cardinality(DueCalls) + 1
        BY <1>12, <4>1, FS_AddElement
      <4> QED
        BY <1>12, <4>2
    <3> QED
      BY <1>1, <1>6, <1>12, <2>1, <3>1, FS_Subset, FS_CardinalityType
  <2>2. CASE reply # "ok"
    <3>1. Cardinality(DueCalls') <= Cardinality(DueCalls) /\ Cardinality(DueCalls') \in Nat
      BY <1>6, <1>12, <2>2, FS_Subset, FS_CardinalityType
    <3> QED
      BY <3>1, <1>12
  <2> QED
    BY <2>1, <2>2
<1>14. CostsAreCovered'
  BY <1>6, <1>7, <1>12, <1>13 DEF GatewayInv, CostsAreCovered
<1> QED
  BY <1>8, <1>9, <1>10, <1>14 DEF GatewayInv

\* The breaker after a failure and after a success.
LEMMA BreakerMoves ==
    ASSUME GatewayBounds, breaker \in Breakers, BreakerKept
    PROVE  /\ (Model!BreakerRecordFailure /\ provider.down > 0 /\ provider' = provider) => breaker' \in Breakers /\ BreakerKept'
           /\ (Model!BreakerRecordSuccess /\ provider' = provider) => breaker' \in Breakers /\ BreakerKept'
<1>1. ASSUME Model!BreakerRecordFailure, provider.down > 0, provider' = provider PROVE breaker' \in Breakers /\ BreakerKept'
  <2>1. PICK f \in Nat : f = breaker.failures + 1
    BY DEF Breakers
  <2>2. PICK g \in Nat : g = IF f > Threshold THEN Threshold ELSE f
    BY DEF GatewayBounds
  <2>3. breaker' = IF breaker.state = "half_open" \/ f >= Threshold THEN [state |-> "open", failures |-> g, cooling |-> TRUE]
                   ELSE [breaker EXCEPT !.failures = f]
    BY <1>1, <2>1, <2>2 DEF Model!BreakerRecordFailure
  <2>4. CASE breaker.state = "half_open" \/ f >= Threshold
    BY <1>1, <2>3, <2>4 DEF Breakers, BreakerKept
  <2>5. CASE ~(breaker.state = "half_open" \/ f >= Threshold)
    <3>1. f < Threshold
      BY <2>5 DEF GatewayBounds
    <3>2. breaker' = [breaker EXCEPT !.failures = f]
      BY <2>3, <2>5
    <3>3. breaker' \in Breakers /\ breaker'.failures = f /\ breaker'.state = breaker.state /\ breaker'.cooling = breaker.cooling
      BY <3>2 DEF Breakers
    <3> QED
      BY <1>1, <3>1, <3>3 DEF BreakerKept
  <2> QED
    BY <2>4, <2>5
<1>2. ASSUME Model!BreakerRecordSuccess, provider' = provider PROVE breaker' \in Breakers /\ BreakerKept'
  BY <1>2 DEF Model!BreakerRecordSuccess, Breakers, BreakerKept, GatewayBounds
<1> QED
  BY <1>1, <1>2

\* The latch after an outage, an answer and an alert.
LEMMA LatchMoves ==
    ASSUME NEW c \in Latches, LatchKept(c)
    PROVE  /\ Model!NoteCreditsExhausted(c) \in Latches /\ LatchKept(Model!NoteCreditsExhausted(c))
           /\ Model!NoteCreditsRestored(c) \in Latches /\ LatchKept(Model!NoteCreditsRestored(c))
           /\ Model!NoteCreditsRestored(c).since # 0 => c.since # 0
           /\ Model!AlertCreditOutage(c) \in Latches /\ LatchKept(Model!AlertCreditOutage(c))
           /\ Model!AlertCreditOutage(c).since = c.since
<1>0. c.since \in Nat /\ c.outages \in Nat /\ c.alerted \in Nat /\ c.alerts \in Nat /\ c.restored \in Nat
  BY DEF Latches
<1>1. Model!NoteCreditsExhausted(c) \in Latches /\ LatchKept(Model!NoteCreditsExhausted(c))
  <2>1. PICK n \in Nat : n = c.outages + 1
    BY <1>0
  <2>2. Model!NoteCreditsExhausted(c) = IF c.since = 0 THEN [c EXCEPT !.since = n, !.outages = n, !.waiting = TRUE] ELSE [c EXCEPT !.waiting = TRUE]
    BY <2>1 DEF Model!NoteCreditsExhausted
  <2>3. CASE c.since = 0
    <3>1. PICK d : d = [c EXCEPT !.since = n, !.outages = n, !.waiting = TRUE]
      OBVIOUS
    <3>2. d \in Latches /\ d.since = n /\ d.outages = n /\ d.alerted = c.alerted /\ d.alerts = c.alerts /\ d.restored = c.restored
      BY <3>1 DEF Latches
    <3>3. LatchKept(d)
      BY <1>0, <2>1, <2>3, <3>2 DEF LatchKept
    <3> QED
      BY <2>2, <2>3, <3>1, <3>2, <3>3
  <2>4. CASE c.since # 0
    <3>1. PICK d : d = [c EXCEPT !.waiting = TRUE]
      OBVIOUS
    <3>2. d \in Latches /\ d.since = c.since /\ d.outages = c.outages /\ d.alerted = c.alerted /\ d.alerts = c.alerts /\ d.restored = c.restored
      BY <3>1 DEF Latches
    <3>3. LatchKept(d)
      BY <2>4, <3>2 DEF LatchKept
    <3> QED
      BY <2>2, <2>4, <3>1, <3>2, <3>3
  <2> QED
    BY <2>3, <2>4
<1>2. Model!NoteCreditsRestored(c) \in Latches /\ LatchKept(Model!NoteCreditsRestored(c)) /\ (Model!NoteCreditsRestored(c).since # 0 => c.since # 0)
  <2>1. PICK n \in Nat : n = c.restored + 1
    BY <1>0
  <2>2. CASE c.since = 0
    BY <2>2 DEF Model!NoteCreditsRestored
  <2>3. CASE c.since # 0
    <3>1. PICK d : d = [c EXCEPT !.since = 0, !.waiting = FALSE, !.restored = n]
      OBVIOUS
    <3>2. d \in Latches /\ d.since = 0 /\ ~d.waiting /\ d.outages = c.outages /\ d.alerted = c.alerted /\ d.alerts = c.alerts /\ d.restored = n
      BY <3>1 DEF Latches
    <3>3. LatchKept(d)
      BY <1>0, <2>1, <2>3, <3>2 DEF LatchKept
    <3>4. Model!NoteCreditsRestored(c) = d
      BY <2>1, <2>3, <3>1 DEF Model!NoteCreditsRestored
    <3> QED
      BY <3>2, <3>3, <3>4
  <2> QED
    BY <2>2, <2>3
<1>3. Model!AlertCreditOutage(c) \in Latches /\ LatchKept(Model!AlertCreditOutage(c)) /\ Model!AlertCreditOutage(c).since = c.since
  <2>1. PICK n \in Nat : n = c.alerts + 1
    BY <1>0
  <2>2. CASE c.since = 0 \/ c.alerted = c.since
    BY <2>2 DEF Model!AlertCreditOutage
  <2>3. CASE ~(c.since = 0 \/ c.alerted = c.since)
    <3>1. PICK d : d = [c EXCEPT !.alerted = c.since, !.alerts = n]
      OBVIOUS
    <3>2. d \in Latches /\ d.since = c.since /\ d.waiting = c.waiting /\ d.outages = c.outages /\ d.alerted = c.since /\ d.alerts = n /\ d.restored = c.restored
      BY <1>0, <3>1 DEF Latches
    <3>3. LatchKept(d)
      BY <1>0, <2>1, <2>3, <3>2 DEF LatchKept
    <3>4. Model!AlertCreditOutage(c) = d
      BY <2>1, <2>3, <3>1 DEF Model!AlertCreditOutage
    <3> QED
      BY <3>2, <3>3, <3>4
  <2> QED
    BY <2>2, <2>3
<1> QED
  BY <1>1, <1>2, <1>3

LEMMA SettleCall ==
    ASSUME GatewayBounds, GatewayInv, NEW i \in Calls, Model!Settle(i)
    PROVE  GatewayInv'
<1>0. calls[i] \in CallRecords /\ calls[i].step = "sent" /\ ~calls[i].cached /\ provider' = provider /\ meter' = meter
  BY DEF Model!Settle, GatewayInv, GatewayTypes, Sensible
<1>1. credits \in Latches /\ LatchKept(credits) /\ breaker \in Breakers /\ BreakerKept /\ cache \in [Model!Firsts -> Answers \cup {NoAnswer}]
      /\ calls \in [Calls -> CallRecords]
  BY DEF GatewayInv, GatewayTypes
<1>2. (calls[i].reply \in {"retryable", "breaker_open"} => provider.down > 0) /\ (calls[i].reply = "no_credits" => provider.dry > 0)
  BY DEF GatewayInv, RepliesKept
<1> DEFINE Fine(c) == /\ c \in CallRecords /\ calls' = [calls EXCEPT ![i] = c] /\ Sensible(c) /\ c.step # "idle"
                      /\ (c.step = "answered" => calls[i].reply = "ok") /\ c.step # "sent"
                      /\ c.reply \in {"none", calls[i].reply}
<1>3. ASSUME NEW step \in {"answered", "failed"}, calls' = [calls EXCEPT ![i].step = step], step = "answered" => calls[i].reply = "ok"
      PROVE  \E c : Fine(c)
  <2>1. PICK c : c = [calls[i] EXCEPT !.step = step]
    OBVIOUS
  <2>2. c \in CallRecords /\ c.step = step /\ c.reply = calls[i].reply /\ ~c.cached
    BY <1>0, <2>1 DEF CallRecords, CallSteps
  <2>3. calls' = [calls EXCEPT ![i] = c]
    BY <1>1, <1>3, <2>1
  <2>4. Sensible(c)
    BY <2>2 DEF Sensible
  <2> QED
    BY <1>3, <2>2, <2>3, <2>4
<1>4. /\ credits' \in Latches /\ LatchKept(credits') /\ (credits'.since # 0 => provider.dry > 0)
      /\ breaker' \in Breakers /\ BreakerKept'
      /\ cache' \in [Model!Firsts -> Answers \cup {NoAnswer}]
      /\ \E c : Fine(c)
  <2>0. credits.since # 0 => provider.dry > 0
    BY DEF GatewayInv, ProviderKept
  <2>1. CASE /\ calls[i].reply = "ok" /\ Model!BreakerRecordSuccess /\ credits' = Model!NoteCreditsRestored(credits)
             /\ cache' = (IF i \in Model!Firsts THEN [cache EXCEPT ![i] = calls[i].value] ELSE cache)
             /\ calls' = [calls EXCEPT ![i].step = "answered"]
    <3>1. credits' \in Latches /\ LatchKept(credits') /\ (credits'.since # 0 => provider.dry > 0)
      <4>1. PICK d : d = Model!NoteCreditsRestored(credits)
        OBVIOUS
      <4>2. d \in Latches /\ LatchKept(d) /\ (d.since # 0 => credits.since # 0)
        BY <1>1, <4>1, LatchMoves
      <4>3. credits' = d
        BY <2>1, <4>1
      <4> QED
        BY <2>0, <4>2, <4>3
    <3>2. breaker' \in Breakers /\ BreakerKept'
      BY <1>0, <1>1, <2>1, BreakerMoves
    <3>3. cache' \in [Model!Firsts -> Answers \cup {NoAnswer}]
      <4>1. calls[i].value \in Answers \cup {NoAnswer}
        BY <1>0 DEF CallRecords
      <4> QED
        BY <1>1, <2>1, <4>1
    <3>4. \E c : Fine(c)
      BY <1>3, <2>1
    <3> QED
      BY <3>1, <3>2, <3>3, <3>4
  <2>2. CASE /\ calls[i].reply = "no_credits" /\ credits' = Model!NoteCreditsExhausted(credits)
             /\ calls' = [calls EXCEPT ![i].step = "failed"] /\ UNCHANGED <<breaker, cache>>
    <3>1. credits' \in Latches /\ LatchKept(credits')
      <4>1. PICK d : d = Model!NoteCreditsExhausted(credits)
        OBVIOUS
      <4>2. d \in Latches /\ LatchKept(d)
        BY <1>1, <4>1, LatchMoves
      <4>3. credits' = d
        BY <2>2, <4>1
      <4> QED
        BY <4>2, <4>3
    <3>2. provider.dry > 0
      BY <1>2, <2>2
    <3>3. breaker' = breaker /\ cache' = cache
      BY <2>2
    <3>4. BreakerKept'
      BY <1>0, <1>1, <3>3 DEF BreakerKept
    <3>5. \E c : Fine(c)
      BY <1>3, <2>2
    <3> QED
      BY <1>1, <3>1, <3>2, <3>3, <3>4, <3>5
  <2>3. CASE /\ calls[i].reply = "truncated"
             /\ calls' = [calls EXCEPT ![i].step = "failed"] /\ UNCHANGED <<breaker, credits, cache>>
    <3>1. breaker' = breaker /\ cache' = cache /\ credits' = credits
      BY <2>3
    <3>2. BreakerKept'
      BY <1>0, <1>1, <3>1 DEF BreakerKept
    <3>3. \E c : Fine(c)
      BY <1>3, <2>3
    <3> QED
      BY <1>1, <2>0, <3>1, <3>2, <3>3
  <2>4. CASE /\ calls[i].reply = "retryable" /\ Model!BreakerRecordFailure
             /\ calls' = [calls EXCEPT ![i] =
                    IF breaker'.state = "open" \/ calls[i].tries = MaxRetries THEN [calls[i] EXCEPT !.step = "failed"]
                    ELSE [calls[i] EXCEPT !.step = "sleeping", !.reply = "none", !.tries = @ + 1]]
             /\ UNCHANGED <<credits, cache>>
    <3>1. cache' = cache /\ credits' = credits
      BY <2>4
    <3>2. breaker' \in Breakers /\ BreakerKept'
      BY <1>0, <1>1, <1>2, <2>4, BreakerMoves
    <3>3. \E c : Fine(c)
      <4>1. CASE breaker'.state = "open" \/ calls[i].tries = MaxRetries
        <5>1. calls' = [calls EXCEPT ![i] = [calls[i] EXCEPT !.step = "failed"]]
          BY <1>1, <2>4, <4>1
        <5>2. calls' = [calls EXCEPT ![i].step = "failed"]
          BY <1>1, <5>1
        <5> QED
          BY <1>3, <5>2
      <4>2. CASE ~(breaker'.state = "open" \/ calls[i].tries = MaxRetries)
        <5>0. calls[i].tries \in 0 .. MaxRetries
          BY <1>0 DEF CallRecords
        <5>1. PICK n \in 0 .. MaxRetries : n = calls[i].tries + 1
          BY <4>2, <5>0 DEF GatewayBounds
        <5>2. PICK c : c = [calls[i] EXCEPT !.step = "sleeping", !.reply = "none", !.tries = n]
          OBVIOUS
        <5>3. calls' = [calls EXCEPT ![i] = [calls[i] EXCEPT !.step = "sleeping", !.reply = "none", !.tries = calls[i].tries + 1]]
          BY <1>1, <2>4, <4>2
        <5>4. calls' = [calls EXCEPT ![i] = c]
          BY <5>1, <5>2, <5>3
        <5>5. c \in CallRecords /\ c.step = "sleeping" /\ c.reply = "none" /\ ~c.cached
          BY <1>0, <5>2 DEF CallRecords, CallSteps, CallReplies
        <5>6. Sensible(c)
          BY <5>5 DEF Sensible
        <5> QED
          BY <5>4, <5>5, <5>6
      <4> QED
        BY <4>1, <4>2
    <3> QED
      BY <1>1, <2>0, <3>1, <3>2, <3>3
  <2> QED
    BY <2>1, <2>2, <2>3, <2>4 DEF Model!Settle
<1>5. PICK c : Fine(c)
  BY <1>4
<1>6. calls' \in [Calls -> CallRecords] /\ (\A j \in Calls : Sensible(calls'[j])) /\ (\A j \in Calls : calls'[j] = IF j = i THEN c ELSE calls[j])
      /\ ActiveCalls' = ActiveCalls
  BY <1>0, <1>5, CallMoves DEF GatewayInv
<1>7. DueCalls' \subseteq DueCalls
  <2>1. CASE calls[i].reply = "ok"
    <3>1. i \in DueCalls
      BY <1>0, <2>1 DEF DueCalls
    <3> QED
      BY <3>1, <1>5, CallMoves DEF GatewayInv
  <2>2. CASE calls[i].reply # "ok"
    BY <1>5, <2>2, CallMoves DEF GatewayInv
  <2> QED
    BY <2>1, <2>2
<1>8. GatewayTypes'
  BY <1>0, <1>4, <1>6 DEF GatewayInv, GatewayTypes
<1>9. LatchKept(credits)' /\ ProviderKept'
  BY <1>0, <1>4 DEF GatewayInv, ProviderKept
<1>10. RepliesKept'
  BY <1>0, <1>5, <1>6 DEF GatewayInv, RepliesKept
<1>11. CostsAreCovered'
  BY <1>0, <1>6, <1>7, CostsStay DEF GatewayInv, GatewayTypes
<1> QED
  BY <1>4, <1>8, <1>9, <1>10, <1>11 DEF GatewayInv

LEMMA RetryCall ==
    ASSUME GatewayBounds, GatewayInv, NEW i \in Calls, Model!Retry(i)
    PROVE  GatewayInv'
<1>0. calls[i] \in CallRecords /\ calls[i].step = "sleeping" /\ calls[i].reply = "none" /\ ~calls[i].cached
      /\ provider' = provider /\ breaker' = breaker /\ credits' = credits /\ cache' = cache /\ meter' = meter
  BY DEF Model!Retry, GatewayInv, GatewayTypes, Sensible
<1>1. PICK c : c = [calls[i] EXCEPT !.step = "sent"]
  OBVIOUS
<1>2. c \in CallRecords /\ c.step = "sent" /\ c.reply = "none" /\ ~c.cached
  BY <1>0, <1>1 DEF CallRecords, CallSteps
<1>3. calls' = [calls EXCEPT ![i] = c] /\ Sensible(c)
  BY <1>1, <1>2 DEF Model!Retry, GatewayInv, GatewayTypes, Sensible
<1>4. calls' \in [Calls -> CallRecords] /\ (\A j \in Calls : Sensible(calls'[j])) /\ (\A j \in Calls : calls'[j] = IF j = i THEN c ELSE calls[j])
      /\ ActiveCalls' = ActiveCalls /\ DueCalls' \subseteq DueCalls
  BY <1>0, <1>2, <1>3, CallMoves DEF GatewayInv
<1>5. GatewayTypes'
  BY <1>0, <1>4 DEF GatewayInv, GatewayTypes
<1>6. LatchKept(credits)' /\ ProviderKept' /\ BreakerKept'
  BY <1>0 DEF GatewayInv, LatchKept, ProviderKept, BreakerKept
<1>7. RepliesKept'
  BY <1>0, <1>2, <1>4 DEF GatewayInv, RepliesKept
<1>8. CostsAreCovered'
  BY <1>0, <1>4, CostsStay DEF GatewayInv, GatewayTypes
<1> QED
  BY <1>5, <1>6, <1>7, <1>8 DEF GatewayInv

LEMMA JoinCalls ==
    ASSUME GatewayBounds, GatewayInv, NEW e \in Model!Firsts, Model!Join(e)
    PROVE  GatewayInv'
<1> DEFINE S == Model!Samples(e)
           U == {i \in Model!Answered(e) : ~calls[i].cached}
<1>0. /\ \A i \in S : calls[i].step \in {"answered", "failed"}
      /\ calls' = [i \in Calls |-> IF i \in S THEN Model!Idle ELSE calls[i]]
      /\ provider' = provider /\ breaker' = breaker /\ cache' = cache
  BY DEF Model!Join
<1>1. S \subseteq Calls /\ U \subseteq S /\ Model!Idle \in CallRecords /\ Sensible(Model!Idle)
  BY IdleCall DEF Model!Samples, Model!Answered, GatewayBounds, Sensible
<1>2. calls' \in [Calls -> CallRecords] /\ \A i \in Calls : Sensible(calls'[i])
  BY <1>0, <1>1 DEF GatewayInv, GatewayTypes
<1>3. DueCalls' = DueCalls \ U
  <2>1. \A i \in Calls : i \in S => (i \in DueCalls <=> i \in U)
    BY <1>0 DEF DueCalls, Model!Answered
  <2>2. \A i \in Calls : i \in S => i \notin DueCalls'
    BY <1>0, IdleCall DEF DueCalls
  <2>3. \A i \in Calls : i \notin S => (i \in DueCalls' <=> i \in DueCalls)
    BY <1>0 DEF DueCalls
  <2>4. DueCalls' \subseteq Calls /\ DueCalls \subseteq Calls
    BY DEF DueCalls
  <2> QED
    BY <1>1, <2>1, <2>2, <2>3, <2>4
<1>4. ActiveCalls' = ActiveCalls \ S
  BY <1>0, IdleCall DEF ActiveCalls
<1>5. S \subseteq ActiveCalls /\ U \subseteq DueCalls /\ DueCalls \subseteq Calls /\ ActiveCalls \subseteq Calls
  BY <1>0, <1>1 DEF ActiveCalls, DueCalls, Model!Answered
<1>6. \A T : Model!Cardinality(T) = Cardinality(T)
  BY DEF Model!Cardinality, Cardinality
<1>7. /\ IsFiniteSet(DueCalls) /\ IsFiniteSet(ActiveCalls) /\ IsFiniteSet(S) /\ IsFiniteSet(U)
      /\ Cardinality(DueCalls) \in Nat /\ Cardinality(ActiveCalls) \in Nat /\ Cardinality(S) \in Nat /\ Cardinality(U) \in Nat
  BY <1>1, <1>5, CallSetsAreFinite
<1>15. U \subseteq S
  BY <1>1
<1> HIDE DEF S, U
<1>8. Cardinality(DueCalls \ U) = Cardinality(DueCalls) - Cardinality(U) /\ Cardinality(ActiveCalls \ S) = Cardinality(ActiveCalls) - Cardinality(S)
      /\ Cardinality(U) <= Cardinality(S)
  <2>1. DueCalls \cap U = U /\ ActiveCalls \cap S = S
    BY <1>5
  <2>2. Cardinality(DueCalls \ U) = Cardinality(DueCalls) - Cardinality(DueCalls \cap U)
    BY <1>7, FS_Difference
  <2>3. Cardinality(ActiveCalls \ S) = Cardinality(ActiveCalls) - Cardinality(ActiveCalls \cap S)
    BY <1>7, FS_Difference
  <2>4. Cardinality(U) <= Cardinality(S)
    BY <1>15, <1>7, FS_Subset
  <2> QED
    BY <2>1, <2>2, <2>3, <2>4
<1>9. PICK n : n \in {0, Cardinality(U)} /\ meter' \in Meters /\ meter'.recorded = meter.recorded + n /\ meter'.billed = meter.billed
  <2>1. meter \in Meters /\ meter.recorded \in Nat /\ meter.answered \in Nat
    BY DEF GatewayInv, GatewayTypes, Meters
  <2>2. CASE Model!Majority(e)
    <3>1. PICK a \in Nat : a = meter.answered + Cardinality(U)
      BY <1>7, <2>1
    <3>2. PICK b \in Nat : b = meter.recorded + Cardinality(U)
      BY <1>7, <2>1
    <3>3. meter' = [meter EXCEPT !.answered = a, !.recorded = b]
      BY <1>6, <2>2, <3>1, <3>2 DEF Model!Join, Model!RecordUsage, Model!UsageOf, U
    <3>4. meter' \in Meters /\ meter'.recorded = b /\ meter'.billed = meter.billed
      BY <2>1, <3>3 DEF Meters
    <3> QED
      BY <3>2, <3>4
  <2>3. CASE ~Model!Majority(e)
    <3>1. meter' = meter
      BY <2>3 DEF Model!Join
    <3>2. meter'.recorded = meter.recorded + 0
      BY <2>1, <3>1
    <3> QED
      BY <2>1, <3>1, <3>2
  <2> QED
    BY <2>2, <2>3
<1>10. credits' \in Latches /\ LatchKept(credits') /\ credits'.since = credits.since
  <2>0. credits \in Latches /\ LatchKept(credits)
    BY DEF GatewayInv, GatewayTypes
  <2>1. credits' = credits \/ credits' = Model!AlertCreditOutage(credits)
    BY DEF Model!Join
  <2>2. PICK d : d = Model!AlertCreditOutage(credits)
    OBVIOUS
  <2>3. d \in Latches /\ LatchKept(d) /\ d.since = credits.since
    BY <2>0, <2>2, LatchMoves
  <2> QED
    BY <2>0, <2>1, <2>2, <2>3
<1>11. GatewayTypes'
  BY <1>0, <1>2, <1>9, <1>10 DEF GatewayInv, GatewayTypes
<1>12. LatchKept(credits)' /\ ProviderKept' /\ BreakerKept'
  BY <1>0, <1>10 DEF GatewayInv, ProviderKept, BreakerKept
<1>13. RepliesKept'
  BY <1>0, IdleCall DEF GatewayInv, RepliesKept
<1>14. CostsAreCovered'
  <2>1. meter.recorded \in Nat /\ meter.billed \in Nat /\ Budget \in Nat /\ Cardinality(Calls) \in Nat
    BY FS_CardinalityType DEF GatewayInv, GatewayTypes, Meters, GatewayBounds
  <2>2. meter.recorded + Cardinality(DueCalls) <= meter.billed /\ meter.recorded + Cardinality(ActiveCalls) < Budget + Cardinality(Calls)
    BY DEF GatewayInv, CostsAreCovered
  <2>3. n \in Nat /\ n <= Cardinality(U)
    BY <1>7, <1>9
  <2>4. meter'.recorded + Cardinality(DueCalls') <= meter'.billed
    BY <1>3, <1>7, <1>8, <1>9, <2>1, <2>2, <2>3
  <2>5. meter'.recorded + Cardinality(ActiveCalls') < Budget + Cardinality(Calls)
    BY <1>4, <1>7, <1>8, <1>9, <2>1, <2>2, <2>3
  <2> QED
    BY <2>4, <2>5 DEF CostsAreCovered
<1> QED
  BY <1>11, <1>12, <1>13, <1>14 DEF GatewayInv

\* The provider goes down, runs dry and recovers; cooldowns and kept answers end.
LEMMA WorldMoves ==
    ASSUME GatewayBounds, GatewayInv,
           Model!GoDown \/ Model!RunDry \/ Model!Recover \/ Model!Cooldown \/ \E e \in Model!Firsts : Model!Expire(e)
    PROVE  GatewayInv'
<1>0. provider \in Providers /\ provider.down \in Nat /\ provider.dry \in Nat /\ breaker \in Breakers /\ credits \in Latches
      /\ cache \in [Model!Firsts -> Answers \cup {NoAnswer}]
  BY DEF GatewayInv, GatewayTypes, Providers
<1>1. calls' = calls /\ meter' = meter
  BY DEF Model!GoDown, Model!RunDry, Model!Recover, Model!Cooldown, Model!Expire
<1>2. /\ provider' \in Providers /\ (provider.down > 0 => provider'.down > 0) /\ (provider.dry > 0 => provider'.dry > 0)
      /\ (~provider'.up => provider'.down > 0) /\ (~provider'.funded => provider'.dry > 0)
  <2>1. (~provider.up => provider.down > 0) /\ (~provider.funded => provider.dry > 0)
    BY DEF GatewayInv, ProviderKept
  <2>2. CASE Model!GoDown
    <3>1. PICK n \in Nat : n = provider.down + 1
      BY <1>0
    <3>2. provider' = [provider EXCEPT !.up = FALSE, !.down = n]
      BY <2>2, <3>1 DEF Model!GoDown
    <3>3. provider' \in Providers /\ provider'.down = n /\ provider'.dry = provider.dry /\ provider'.funded = provider.funded
      BY <1>0, <3>2 DEF Providers
    <3> QED
      BY <1>0, <2>1, <3>1, <3>3
  <2>3. CASE Model!RunDry
    <3>1. PICK n \in Nat : n = provider.dry + 1
      BY <1>0
    <3>2. provider' = [provider EXCEPT !.funded = FALSE, !.dry = n]
      BY <2>3, <3>1 DEF Model!RunDry
    <3>3. provider' \in Providers /\ provider'.dry = n /\ provider'.down = provider.down /\ provider'.up = provider.up
      BY <1>0, <3>2 DEF Providers
    <3> QED
      BY <1>0, <2>1, <3>1, <3>3
  <2>4. CASE Model!Recover
    BY <1>0, <2>1, <2>4 DEF Model!Recover, Providers
  <2>5. CASE provider' = provider
    BY <1>0, <2>1, <2>5
  <2> QED
    BY <2>2, <2>3, <2>4, <2>5 DEF Model!Cooldown, Model!Expire
<1>3. /\ breaker' \in Breakers /\ breaker'.state = breaker.state /\ breaker'.failures = breaker.failures
      /\ breaker'.cooling => breaker.cooling
  <2>1. breaker' = breaker \/ breaker' = [breaker EXCEPT !.cooling = FALSE]
    BY DEF Model!GoDown, Model!RunDry, Model!Recover, Model!Cooldown, Model!Expire
  <2> QED
    BY <1>0, <2>1 DEF Breakers
<1>4. credits' \in Latches /\ LatchKept(credits') /\ credits'.since = credits.since
  <2>1. credits' = credits \/ credits' = [credits EXCEPT !.waiting = FALSE]
    BY DEF Model!GoDown, Model!RunDry, Model!Recover, Model!Cooldown, Model!Expire
  <2>2. PICK d : d = [credits EXCEPT !.waiting = FALSE]
    OBVIOUS
  <2>3. d \in Latches /\ d.since = credits.since /\ ~d.waiting /\ d.outages = credits.outages /\ d.alerted = credits.alerted
        /\ d.alerts = credits.alerts /\ d.restored = credits.restored
    BY <1>0, <2>2 DEF Latches
  <2>4. LatchKept(credits)
    BY DEF GatewayInv
  <2>5. LatchKept(d)
    BY <2>3, <2>4 DEF LatchKept
  <2> QED
    BY <1>0, <2>1, <2>2, <2>3, <2>4, <2>5
<1>5. cache' \in [Model!Firsts -> Answers \cup {NoAnswer}]
  BY <1>0 DEF Model!GoDown, Model!RunDry, Model!Recover, Model!Cooldown, Model!Expire
<1>6. GatewayTypes'
  BY <1>1, <1>2, <1>3, <1>4, <1>5 DEF GatewayInv, GatewayTypes
<1>7. LatchKept(credits)' /\ ProviderKept' /\ BreakerKept'
  BY <1>2, <1>3, <1>4 DEF GatewayInv, ProviderKept, BreakerKept
<1>8. RepliesKept' /\ CostsAreCovered'
  <2>1. DueCalls' = DueCalls /\ ActiveCalls' = ActiveCalls
    BY <1>1 DEF DueCalls, ActiveCalls
  <2> QED
    BY <1>1, <1>2, <2>1 DEF GatewayInv, RepliesKept, CostsAreCovered
<1> QED
  BY <1>6, <1>7, <1>8 DEF GatewayInv

LEMMA GatewaySteps ==
    ASSUME GatewayBounds, GatewayInv, [Model!Next]_(Model!vars)
    PROVE  GatewayInv'
<1>1. \/ \E e \in Model!Firsts : Model!Begin(e) \/ Model!Join(e)
      \/ \E i \in Calls : Model!LookUp(i) \/ Model!Respond(i) \/ Model!Settle(i) \/ Model!Retry(i)
      \/ Model!GoDown \/ Model!RunDry \/ Model!Recover \/ Model!Cooldown \/ \E e \in Model!Firsts : Model!Expire(e)
      \/ UNCHANGED Model!vars
  BY Zenon DEF Model!Next
<1>2. CASE UNCHANGED Model!vars
  <2>1. provider' = provider /\ breaker' = breaker /\ credits' = credits /\ cache' = cache /\ calls' = calls /\ meter' = meter
    BY <1>2 DEF Model!vars
  <2> QED
    BY <2>1 DEF GatewayInv, GatewayTypes, LatchKept, BreakerKept, ProviderKept, RepliesKept, CostsAreCovered, DueCalls, ActiveCalls
<1> QED
  BY <1>1, <1>2, BeginCall, JoinCalls, LookUpCall, RespondCall, SettleCall, RetryCall, WorldMoves

(* What the process keeps of its calls, the breaker and the latch stays what it
   is declared as, in whatever order calls, retries and outages fall.        *)
THEOREM GatewayIsTyped ==
    ASSUME GatewayBounds
    PROVE  Model!Spec => []Model!TypeOK
<1>1. Model!Init => GatewayInv
  BY GatewayBegins
<1>2. GatewayInv /\ [Model!Next]_(Model!vars) => GatewayInv'
  BY GatewaySteps
<1>3. GatewayInv => Model!TypeOK
  <2> SUFFICES ASSUME GatewayInv PROVE Model!TypeOK
    OBVIOUS
  <2>1. breaker.state \in {"closed", "open", "half_open"} /\ breaker.failures \in Nat /\ cache \in [Model!Firsts -> Answers \cup {NoAnswer}]
    BY DEF GatewayInv, GatewayTypes, Breakers
  <2>2. credits.since \in 0 .. credits.outages /\ credits.alerted \in 0 .. credits.outages
    BY DEF GatewayInv, GatewayTypes, LatchKept, Latches
  <2>3. \A i \in Calls : calls[i] \in CallRecords
    BY DEF GatewayInv, GatewayTypes
  <2>4. \A i \in Calls : calls[i].step \in {"idle", "asked", "sent", "sleeping", "answered", "failed"} /\ calls[i].tries \in 0 .. MaxRetries
    BY <2>3 DEF CallRecords, CallSteps
  <2> QED
    BY <2>1, <2>2, <2>4 DEF Model!TypeOK
<1> QED
  BY <1>1, <1>2, <1>3, PTL DEF Model!Spec

(* A tenant's operators hear of an outage of the credits once, however many calls
   and probes run into it, and neither the breaker nor the latch turns a call
   away that no failure of the provider explains (BreakerRecordFailure,
   noteCreditsExhausted, alertCreditOutage in llmService.js).                *)
THEOREM OutagesAreToldOnce ==
    ASSUME GatewayBounds
    PROVE  Model!Spec => [](Model!OneAlertPerOutage /\ Model!NobodyIsLockedOut)
<1>1. Model!Init => GatewayInv
  BY GatewayBegins
<1>2. GatewayInv /\ [Model!Next]_(Model!vars) => GatewayInv'
  BY GatewaySteps
<1>3. GatewayInv => Model!OneAlertPerOutage /\ Model!NobodyIsLockedOut
  <2> SUFFICES ASSUME GatewayInv PROVE Model!OneAlertPerOutage /\ Model!NobodyIsLockedOut
    OBVIOUS
  <2>1. Model!OneAlertPerOutage
    BY DEF GatewayInv, GatewayTypes, LatchKept, Latches, Model!OneAlertPerOutage
  <2>2. Model!NobodyIsLockedOut
    BY DEF GatewayInv, LatchKept, BreakerKept, RepliesKept, Model!NobodyIsLockedOut
  <2> QED
    BY <2>1, <2>2
<1> QED
  BY <1>1, <1>2, <1>3, PTL DEF Model!Spec

(* What is recorded against a tenant's budget, with every answer that waits to be
   recorded, never passes what the provider billed, and the budget is passed by
   less than the calls that can be under way (isOverBudget, recordUsage).    *)
THEOREM UsageIsBilled ==
    ASSUME GatewayBounds
    PROVE  Model!Spec => []Model!MeteringIsTrue
<1>1. Model!Init => GatewayInv
  BY GatewayBegins
<1>2. GatewayInv /\ [Model!Next]_(Model!vars) => GatewayInv'
  BY GatewaySteps
<1>3. GatewayInv => Model!MeteringIsTrue
  <2> SUFFICES ASSUME GatewayInv PROVE Model!MeteringIsTrue
    OBVIOUS
  <2> DEFINE W == {i \in Calls : calls[i].step = "answered" /\ ~calls[i].cached}
  <2>1. W \subseteq DueCalls /\ DueCalls \subseteq Calls /\ ActiveCalls \subseteq Calls
    BY DEF DueCalls, ActiveCalls
  <2> HIDE DEF W
  <2>2. IsFiniteSet(DueCalls) /\ Cardinality(DueCalls) \in Nat /\ Cardinality(ActiveCalls) \in Nat /\ Cardinality(Calls) \in Nat
    BY <2>1, CallSetsAreFinite
  <2>3. Cardinality(W) <= Cardinality(DueCalls) /\ Cardinality(W) \in Nat
    BY <2>1, <2>2, FS_Subset, FS_CardinalityType
  <2>4. meter.recorded \in Nat /\ meter.billed \in Nat /\ Budget \in Nat
    BY DEF GatewayInv, GatewayTypes, Meters, GatewayBounds
  <2>5. /\ meter.recorded + Cardinality(W) <= meter.billed /\ meter.recorded <= meter.billed
        /\ meter.recorded < Budget + Cardinality(Calls)
    BY <2>2, <2>3, <2>4 DEF GatewayInv, CostsAreCovered
  <2>6. \A S : Model!Cardinality(S) = Cardinality(S)
    BY DEF Model!Cardinality, Cardinality
  <2> QED
    BY <2>5, <2>6 DEF W, Model!MeteringIsTrue
<1> QED
  BY <1>1, <1>2, <1>3, PTL DEF Model!Spec

(* The vote of an ensemble.                                                  *)

\* A call that was answered has an answer to give.
AnswersHeld ==
    \A i \in Calls : calls[i].step = "answered" \/ (calls[i].step = "sent" /\ calls[i].reply = "ok") => calls[i].value \in Answers

LEMMA AnswersStayHeld == ASSUME GatewayBounds, GatewayInv, AnswersHeld, [Model!Next]_(Model!vars) PROVE AnswersHeld'
<1> DEFINE Held(c) == c.step = "answered" \/ (c.step = "sent" /\ c.reply = "ok") => c.value \in Answers
<1>1. ASSUME \A i \in Calls : calls'[i] = calls[i] \/ calls'[i].step \in {"idle", "asked"} PROVE AnswersHeld'
  BY <1>1 DEF AnswersHeld
<1>2. ASSUME NEW i \in Calls, NEW c, Held(c), calls' = [calls EXCEPT ![i] = c] PROVE AnswersHeld'
  <2>1. \A j \in Calls : calls'[j] = IF j = i THEN c ELSE calls[j]
    BY <1>2 DEF GatewayInv, GatewayTypes
  <2> QED
    BY <1>2, <2>1 DEF AnswersHeld
<1>3. ASSUME NEW i \in Calls PROVE calls[i] \in CallRecords /\ Held(calls[i])
  BY DEF GatewayInv, GatewayTypes, AnswersHeld
<1>4. ASSUME NEW e \in Model!Firsts, Model!Begin(e) \/ Model!Join(e) \/ Model!Expire(e) PROVE AnswersHeld'
  <2>1. Model!Idle.step = "idle" /\ [Model!Idle EXCEPT !.step = "asked"].step = "asked"
    BY DEF Model!Idle
  <2> QED
    BY <1>1, <1>4, <2>1 DEF Model!Begin, Model!Join, Model!Expire
<1>5. ASSUME NEW i \in Calls, Model!LookUp(i) PROVE AnswersHeld'
  <2>1. CASE Model!CacheHit(i)
    <3>1. cache[i] \in Answers
      BY <2>1 DEF Model!CacheHit, GatewayInv, GatewayTypes
    <3>2. calls' = [calls EXCEPT ![i] = [calls[i] EXCEPT !.step = "answered", !.value = cache[i], !.cached = TRUE]]
      BY <1>5, <2>1 DEF Model!LookUp, GatewayInv, GatewayTypes
    <3>3. [calls[i] EXCEPT !.step = "answered", !.value = cache[i], !.cached = TRUE].value = cache[i]
      BY <1>3 DEF CallRecords
    <3> QED
      BY <1>2, <3>1, <3>2, <3>3
  <2>2. ASSUME NEW reply \in CallReplies, calls' = [calls EXCEPT ![i] = [calls[i] EXCEPT !.step = "failed", !.reply = reply]]
        PROVE  AnswersHeld'
    <3>1. [calls[i] EXCEPT !.step = "failed", !.reply = reply].step = "failed"
      BY <1>3 DEF CallRecords
    <3> QED
      BY <1>2, <2>2, <3>1
  <2>3. CASE ~Model!CacheHit(i) /\ (Model!CreditsBlocked \/ Model!BreakerState = "open")
    <3>1. PICK reply \in CallReplies : calls' = [calls EXCEPT ![i] = [calls[i] EXCEPT !.step = "failed", !.reply = reply]]
      BY <1>5, <2>3 DEF Model!LookUp, Model!FailFast, GatewayInv, GatewayTypes, CallReplies
    <3> QED
      BY <2>2, <3>1
  <2>4. CASE ~Model!CacheHit(i) /\ ~Model!CreditsBlocked /\ Model!BreakerState # "open"
    <3>1. calls' = [calls EXCEPT ![i] = [calls[i] EXCEPT !.step = "sent"]] /\ calls[i].step = "asked"
      BY <1>5, <2>4 DEF Model!LookUp, GatewayInv, GatewayTypes
    <3>2. calls[i].reply = "none"
      BY <3>1 DEF GatewayInv, GatewayTypes, Sensible
    <3>3. [calls[i] EXCEPT !.step = "sent"].step = "sent" /\ [calls[i] EXCEPT !.step = "sent"].reply = "none"
      BY <1>3, <3>2 DEF CallRecords
    <3> QED
      BY <1>2, <3>1, <3>3
  <2> QED
    BY <2>1, <2>3, <2>4
<1>6. ASSUME NEW i \in Calls, Model!Respond(i) PROVE AnswersHeld'
  <2>1. PICK reply \in {"no_credits", "retryable", "ok", "truncated"}, v \in Answers :
          calls' = [calls EXCEPT ![i].reply = reply, ![i].value = IF reply = "ok" THEN v ELSE NoAnswer]
    BY <1>6 DEF Model!Respond
  <2>2. PICK w : w = IF reply = "ok" THEN v ELSE NoAnswer
    OBVIOUS
  <2>3. calls' = [calls EXCEPT ![i] = [calls[i] EXCEPT !.reply = reply, !.value = w]]
    BY <2>1, <2>2 DEF GatewayInv, GatewayTypes
  <2>4. /\ [calls[i] EXCEPT !.reply = reply, !.value = w].reply = reply
        /\ [calls[i] EXCEPT !.reply = reply, !.value = w].value = w
        /\ [calls[i] EXCEPT !.reply = reply, !.value = w].step = "sent"
    BY <1>3, <1>6 DEF CallRecords, Model!Respond
  <2> QED
    BY <1>2, <2>2, <2>3, <2>4
<1>7. ASSUME NEW i \in Calls, Model!Settle(i) PROVE AnswersHeld'
  <2>1. ASSUME NEW step \in {"answered", "failed"}, calls' = [calls EXCEPT ![i].step = step],
               step = "answered" => calls[i].reply = "ok"
        PROVE  AnswersHeld'
    <3>1. calls' = [calls EXCEPT ![i] = [calls[i] EXCEPT !.step = step]] /\ calls[i].step = "sent"
      BY <1>7, <2>1 DEF Model!Settle, GatewayInv, GatewayTypes
    <3>2. [calls[i] EXCEPT !.step = step].step = step /\ [calls[i] EXCEPT !.step = step].value = calls[i].value
      BY <1>3 DEF CallRecords
    <3> QED
      BY <1>2, <1>3, <2>1, <3>1, <3>2
  <2>2. ASSUME NEW c, c.step \in {"failed", "sleeping"}, calls' = [calls EXCEPT ![i] = c] PROVE AnswersHeld'
    BY <1>2, <2>2
  <2>3. CASE calls[i].reply = "retryable"
    <3>1. PICK d : /\ calls' = [calls EXCEPT ![i] = d]
                   /\ d \in {[calls[i] EXCEPT !.step = "failed"],
                             [calls[i] EXCEPT !.step = "sleeping", !.reply = "none", !.tries = @ + 1]}
      BY <1>7, <2>3 DEF Model!Settle
    <3>2. d.step \in {"failed", "sleeping"}
      BY <1>3, <3>1 DEF CallRecords
    <3>3. Held(d)
      BY <3>2
    <3> HIDE DEF Held
    <3> QED
      BY <1>2, <3>1, <3>3
  <2>4. CASE calls[i].reply # "retryable"
    BY <1>7, <2>1, <2>4 DEF Model!Settle
  <2> QED
    BY <2>3, <2>4
<1>8. ASSUME NEW i \in Calls, Model!Retry(i) PROVE AnswersHeld'
  <2>1. calls' = [calls EXCEPT ![i] = [calls[i] EXCEPT !.step = "sent"]] /\ calls[i].step = "sleeping"
    BY <1>8 DEF Model!Retry, GatewayInv, GatewayTypes
  <2>2. calls[i].reply = "none"
    BY <2>1 DEF GatewayInv, GatewayTypes, Sensible
  <2>3. [calls[i] EXCEPT !.step = "sent"].step = "sent" /\ [calls[i] EXCEPT !.step = "sent"].reply = "none"
    BY <1>3, <2>2 DEF CallRecords
  <2> QED
    BY <1>2, <2>1, <2>3
<1>9. CASE calls' = calls
  BY <1>1, <1>9
<1> QED
  BY <1>4, <1>5, <1>6, <1>7, <1>8, <1>9
     DEF Model!Next, Model!vars, Model!GoDown, Model!RunDry, Model!Recover, Model!Cooldown

LEMMA LeastIn ==
    ASSUME NEW T, T \subseteq Nat, T # {}
    PROVE  \E z \in T : \A y \in T : z <= y
<1> DEFINE R == OpToRel(<, Nat)
<1>1. PICK z \in T : \A y \in T : <<y, z>> \notin R
  <2>1. IsWellFoundedOn(R, Nat)
    BY NatLessThanWellFounded
  <2> HIDE DEF R
  <2> QED
    BY <2>1, WFMin
<1>2. ASSUME NEW y \in T PROVE z <= y
  <2>1. y \in Nat /\ z \in Nat
    OBVIOUS
  <2>2. ~(y < z)
    BY <1>1, <2>1 DEF OpToRel
  <2> QED
    BY <2>1, <2>2
<1> QED
  BY <1>2

LEMMA FirstVote ==
    ASSUME NEW T, T \subseteq Nat, T # {}
    PROVE  Model!Min(T) \in T /\ \A y \in T : Model!Min(T) <= y
BY LeastIn DEF Model!Min

(* Among the answers given most often there is one that was given first.     *)
LEMMA VoteIsDecided ==
    ASSUME GatewayBounds, Calls \subseteq Nat, GatewayInv, AnswersHeld, NEW e, Model!Answered(e) # {}
    PROVE  /\ Model!Consensus(e) \in Model!Modal(e)
           /\ \A v : /\ Model!Votes(e, v) \subseteq Model!Answered(e) /\ IsFiniteSet(Model!Votes(e, v))
                     /\ Cardinality(Model!Votes(e, v)) \in Nat
           /\ IsFiniteSet(Model!Answered(e)) /\ Cardinality(Model!Answered(e)) \in Nat
<1> DEFINE A == Model!Answered(e)
           N == Cardinality(A)
           Count(v) == Cardinality(Model!Votes(e, v))
           Modal == Model!Modal(e)
<1>1. /\ A \subseteq Calls /\ IsFiniteSet(A) /\ N \in Nat
      /\ \A i \in A : calls[i].value \in Answers
  <2>1. A \subseteq Calls /\ \A i \in A : calls[i].value \in Answers
    BY DEF Model!Answered, Model!Samples, AnswersHeld
  <2> HIDE DEF A
  <2> QED
    BY <2>1, CallSetsAreFinite
<1>2. ASSUME NEW v
      PROVE  /\ Model!Votes(e, v) \subseteq A /\ IsFiniteSet(Model!Votes(e, v))
             /\ Count(v) \in Nat /\ Count(v) <= N
             /\ \A i \in A : i \in Model!Votes(e, v) <=> calls[i].value = v
  <2>1. Model!Votes(e, v) \subseteq A /\ \A i \in A : i \in Model!Votes(e, v) <=> calls[i].value = v
    BY DEF Model!Votes
  <2> HIDE DEF A
  <2> QED
    BY <1>1, <2>1, FS_Subset, FS_CardinalityType
<1>3. \A v : v \in Modal <=> v \in Answers /\ Model!Votes(e, v) # {} /\ \A w \in Answers : Count(w) <= Count(v)
  BY DEF Model!Modal, Model!Cardinality, Cardinality
<1>4. PICK i0 : i0 \in A
  OBVIOUS
<1> HIDE DEF A, N, Modal
<1>5. Modal # {}
  <2> DEFINE V == {v \in Answers : Model!Votes(e, v) # {}}
             T == {N - Count(v) : v \in V}
  <2>1. calls[i0].value \in V
    BY <1>1, <1>2, <1>4
  <2>2. \A v \in V : N - Count(v) \in Nat
    BY <1>1, <1>2
  <2>3. T \subseteq Nat /\ T # {}
    BY <2>1, <2>2
  <2>4. PICK z \in T : \A y \in T : z <= y
    <3> HIDE DEF T
    <3> QED
      BY <2>3, LeastIn
  <2>5. PICK v \in V : z = N - Count(v)
    OBVIOUS
  <2>6. ASSUME NEW w \in Answers PROVE Count(w) <= Count(v)
    <3>1. CASE w \in V
      <4>1. N - Count(w) \in T
        BY <3>1
      <4>2. z <= N - Count(w)
        BY <2>4, <4>1
      <4> QED
        BY <1>1, <1>2, <2>5, <4>2
    <3>2. CASE w \notin V
      <4>1. Count(w) = 0
        BY <3>2, FS_EmptySet
      <4> QED
        BY <1>2, <4>1
    <3> QED
      BY <3>1, <3>2
  <2> QED
    BY <1>3, <2>5, <2>6
<1>6. \E v \in Modal : \A w \in Modal : Model!Min(Model!Votes(e, v)) <= Model!Min(Model!Votes(e, w))
  <2> DEFINE U == {i \in A : calls[i].value \in Modal}
  <2>1. ASSUME NEW v \in Modal
        PROVE  LET m == Model!Min(Model!Votes(e, v))
               IN  m \in U /\ calls[m].value = v /\ \A i \in A : calls[i].value = v => m <= i
    <3>1. Model!Votes(e, v) \subseteq Nat /\ Model!Votes(e, v) # {}
      BY <1>1, <1>2, <1>3
    <3>2. /\ Model!Min(Model!Votes(e, v)) \in Model!Votes(e, v)
          /\ \A y \in Model!Votes(e, v) : Model!Min(Model!Votes(e, v)) <= y
      BY <3>1, FirstVote
    <3> QED
      BY <1>2, <3>2
  <2>2. U \subseteq Nat /\ U # {}
    BY <1>1, <1>5, <2>1
  <2>3. PICK i \in U : \A j \in U : i <= j
    <3> HIDE DEF U
    <3> QED
      BY <2>2, LeastIn
  <2>4. calls[i].value \in Modal /\ i \in A
    OBVIOUS
  <2>5. Model!Min(Model!Votes(e, calls[i].value)) = i
    <3>1. PICK m : m = Model!Min(Model!Votes(e, calls[i].value))
      OBVIOUS
    <3>2. m \in U /\ m <= i
      BY <2>1, <2>4, <3>1
    <3>3. i <= m
      BY <2>3, <3>2
    <3>4. m \in Nat /\ i \in Nat
      BY <2>2, <3>2
    <3> QED
      BY <3>1, <3>2, <3>3, <3>4
  <2>6. \A w \in Modal : i <= Model!Min(Model!Votes(e, w))
    BY <2>1, <2>3
  <2> QED
    BY <2>4, <2>5, <2>6
<1>7. Model!Consensus(e) \in Modal
  BY <1>6 DEF Model!Consensus, Modal
<1> QED
  BY <1>1, <1>2, <1>7 DEF A, N, Modal

(* The answer an ensemble settles on is one a sample gave, and the one most of
   them gave when there is one (llmService.computeConsensus).                *)
THEOREM TheVoteIsHonest ==
    ASSUME GatewayBounds, Calls \subseteq Nat
    PROVE  Model!Spec => []Model!MostSamplesDecide
<1>1. Model!Init => GatewayInv /\ AnswersHeld
  <2>1. Model!Init => \A i \in Calls : calls[i].step = "idle"
    BY IdleCall DEF Model!Init
  <2> QED
    BY <2>1, GatewayBegins DEF AnswersHeld
<1>2. (GatewayInv /\ AnswersHeld) /\ [Model!Next]_(Model!vars) => (GatewayInv /\ AnswersHeld)'
  BY GatewaySteps, AnswersStayHeld
<1>3. GatewayInv /\ AnswersHeld => Model!MostSamplesDecide
  <2> SUFFICES ASSUME GatewayInv, AnswersHeld, NEW e \in Model!Firsts, Model!Answered(e) # {}
               PROVE  /\ \E i \in Model!Answered(e) : calls[i].value = Model!Consensus(e)
                      /\ \A v \in Answers : 2 * Cardinality(Model!Votes(e, v)) > Cardinality(Model!Answered(e))
                                            => Model!Consensus(e) = v
    BY DEF Model!MostSamplesDecide, Model!Cardinality, Cardinality
  <2> DEFINE u == Model!Consensus(e)
             Count(v) == Cardinality(Model!Votes(e, v))
             N == Cardinality(Model!Answered(e))
  <2>1. /\ u \in Model!Modal(e)
        /\ \A v : Model!Votes(e, v) \subseteq Model!Answered(e) /\ IsFiniteSet(Model!Votes(e, v)) /\ Count(v) \in Nat
        /\ IsFiniteSet(Model!Answered(e)) /\ N \in Nat
    BY VoteIsDecided
  <2> HIDE DEF u
  <2>2. Model!Votes(e, u) # {} /\ \A w \in Answers : Count(w) <= Count(u)
    BY <2>1 DEF Model!Modal, Model!Cardinality, Cardinality
  <2>3. \E i \in Model!Answered(e) : calls[i].value = u
    BY <2>2 DEF Model!Votes
  <2>4. ASSUME NEW v \in Answers, 2 * Count(v) > N, u # v PROVE FALSE
    <3>1. Model!Votes(e, u) \cap Model!Votes(e, v) = {}
      BY <2>4 DEF Model!Votes
    <3>2. Cardinality(Model!Votes(e, u) \cup Model!Votes(e, v)) = Count(u) + Count(v)
      <4>1. Cardinality(Model!Votes(e, u) \cup Model!Votes(e, v))
                = Count(u) + Count(v) - Cardinality(Model!Votes(e, u) \cap Model!Votes(e, v))
        BY <2>1, FS_Union
      <4> QED
        BY <2>1, <3>1, <4>1, FS_EmptySet
    <3>3. Cardinality(Model!Votes(e, u) \cup Model!Votes(e, v)) <= N
      <4>1. Model!Votes(e, u) \cup Model!Votes(e, v) \subseteq Model!Answered(e)
        BY <2>1
      <4> QED
        BY <2>1, <4>1, FS_Subset
    <3> QED
      BY <2>1, <2>2, <2>4, <3>2, <3>3
  <2> QED
    BY <2>3, <2>4 DEF u
<1> QED
  BY <1>1, <1>2, <1>3, PTL DEF Model!Spec

(* The gateway returns answers it was given, calls what it may, tells an outage
   once and meters what was billed (llmService.js, usageService.js), for any
   number of calls, ensembles, retries and outages.                          *)
THEOREM TheGatewayIsHonest ==
    ASSUME GatewayBounds, Calls \subseteq Nat
    PROVE  Model!Spec => []Model!GatewayIsHonest
<1>1. /\ Model!MostSamplesDecide /\ Model!MeteringIsTrue /\ Model!OneAlertPerOutage /\ Model!NobodyIsLockedOut
      => Model!GatewayIsHonest
  BY DEF Model!GatewayIsHonest
<1> QED
  BY <1>1, TheVoteIsHonest, UsageIsBilled, OutagesAreToldOnce, PTL

-----------------------------------------------------------------------------
(* The sessions, links and codes of an account.                              *)

CONSTANTS Workers, Families, MaxTokens, MaxLinks, MaxAttempts, MaxSends
VARIABLES tokens, user, otp, request

Session == INSTANCE Accounts

\* What the bounds of the model are.
AccountBounds == MaxTokens \in Nat /\ MaxLinks \in Nat /\ MaxAttempts \in Nat /\ MaxSends \in Nat \ {0}

TokenRequests == [at : {"idle", "claim", "replace", "hash"}, token : Nat, link : 0 .. MaxLinks]

\* Tokens are numbered as they are issued, and a request holds one that was.
AccountTypes ==
    /\ \E n \in Nat : tokens \in [1 .. n -> Session!RefreshToken]
    /\ user \in Session!User /\ otp \in Session!OTPVerification
    /\ sent \in 0 .. MaxLinks
    /\ request \in [Workers -> TokenRequests]
    /\ \A r \in Workers : request[r].token \in {0} \cup Session!Issued
    /\ \A r \in Workers : request[r].at \in {"claim", "replace"} => request[r].token \in Session!Issued

\* A request that has claimed a token and not yet issued the next one.
Replacing(r) == request[r].at = "replace"
FamilyOf(r) == tokens[request[r].token].family

\* A family has one live token, or one request about to issue it, or neither.
ForkInv ==
    /\ \A s, t \in Session!Issued :
        tokens[s].live /\ tokens[t].live /\ tokens[s].family = tokens[t].family => s = t
    /\ \A r \in Workers, t \in Session!Issued :
        Replacing(r) /\ tokens[t].live => tokens[t].family # FamilyOf(r)
    /\ \A q, r \in Workers :
        Replacing(q) /\ Replacing(r) /\ FamilyOf(q) = FamilyOf(r) => q = r

-----------------------------------------------------------------------------
(* Types                                                                     *)

LEMMA IssuedCount ==
    ASSUME NEW n \in Nat, tokens \in [1 .. n -> Session!RefreshToken]
    PROVE  Session!Issued = 1 .. n /\ Session!Cardinality(Session!Issued) = n
<1>1. \A S : Session!Cardinality(S) = Cardinality(S)
  BY DEF Session!Cardinality, Cardinality
<1> QED
  BY <1>1, FS_Interval DEF Session!Issued

LEMMA TokenRequestTypes ==
    ASSUME AccountBounds
    PROVE  /\ Session!Idle \in TokenRequests /\ Session!Idle.at = "idle" /\ Session!Idle.token = 0
           /\ \A t \in Nat : [Session!Idle EXCEPT !.at = "claim", !.token = t] \in TokenRequests
           /\ \A l \in 0 .. MaxLinks : [Session!Idle EXCEPT !.at = "hash", !.link = l] \in TokenRequests
<1>1. Session!Idle \in TokenRequests /\ Session!Idle.at = "idle" /\ Session!Idle.token = 0
  BY DEF Session!Idle, TokenRequests, AccountBounds
<1>2. ASSUME NEW t \in Nat PROVE [Session!Idle EXCEPT !.at = "claim", !.token = t] \in TokenRequests
  BY <1>1 DEF TokenRequests
<1>3. ASSUME NEW l \in 0 .. MaxLinks PROVE [Session!Idle EXCEPT !.at = "hash", !.link = l] \in TokenRequests
  BY <1>1 DEF TokenRequests
<1> QED
  BY <1>1, <1>2, <1>3

\* A token issued: the others stay, and the new one is live.
LEMMA IssueType ==
    ASSUME AccountTypes, NEW f \in Families, Session!Issue(f)
    PROVE  \E n \in Nat :
             /\ tokens \in [1 .. n -> Session!RefreshToken] /\ tokens' \in [1 .. n + 1 -> Session!RefreshToken]
             /\ Session!Issued = 1 .. n /\ Session!Issued' = 1 .. n + 1 /\ Session!Issued \subseteq Session!Issued'
             /\ \A t \in Session!Issued : tokens'[t] = tokens[t]
             /\ tokens'[n + 1] = [family |-> f, live |-> TRUE]
<1>1. PICK n \in Nat : tokens \in [1 .. n -> Session!RefreshToken]
  BY DEF AccountTypes
<1>2. Session!Issued = 1 .. n /\ Session!Cardinality(Session!Issued) = n
  BY <1>1, IssuedCount
<1>3. tokens' = [t \in 1 .. n + 1 |-> IF t \in 1 .. n THEN tokens[t] ELSE [family |-> f, live |-> TRUE]]
  BY <1>2 DEF Session!Issue
<1>4. [family |-> f, live |-> TRUE] \in Session!RefreshToken
  BY DEF Session!RefreshToken
<1>5. tokens' \in [1 .. n + 1 -> Session!RefreshToken]
  BY <1>1, <1>3, <1>4
<1>6. Session!Issued' = 1 .. n + 1 /\ Session!Issued \subseteq Session!Issued'
  BY <1>2, <1>3 DEF Session!Issued
<1>7. \A t \in Session!Issued : tokens'[t] = tokens[t]
  BY <1>2, <1>3, <1>6
<1>8. n + 1 \in 1 .. n + 1 /\ n + 1 \notin 1 .. n
  OBVIOUS
<1>9. tokens'[n + 1] = [family |-> f, live |-> TRUE]
  BY <1>3, <1>8
<1> QED
  BY <1>1, <1>2, <1>5, <1>6, <1>7, <1>9

LEMMA IssueNext ==
    ASSUME AccountTypes, NEW f \in Families, Session!Issue(f)
    PROVE  Session!Issued \subseteq Session!Issued' /\ \E m \in Nat : tokens' \in [1 .. m -> Session!RefreshToken]
<1>1. PICK n \in Nat : tokens' \in [1 .. n + 1 -> Session!RefreshToken] /\ Session!Issued \subseteq Session!Issued'
  BY IssueType
<1>2. n + 1 \in Nat
  OBVIOUS
<1> QED
  BY <1>1, <1>2

\* A family revoked: nothing is live that was not, and no token changes family.
LEMMA RevokeType ==
    ASSUME AccountTypes, NEW f, Session!Revoke(f)
    PROVE  /\ Session!Issued' = Session!Issued
           /\ \A n \in Nat : tokens \in [1 .. n -> Session!RefreshToken] => tokens' \in [1 .. n -> Session!RefreshToken]
           /\ \A t \in Session!Issued : tokens'[t].family = tokens[t].family /\ (tokens'[t].live => tokens[t].live)
<1>1. \A t \in Session!Issued : tokens[t] \in Session!RefreshToken
  BY DEF AccountTypes, Session!Issued
<1>2. tokens' = [t \in Session!Issued |-> IF tokens[t].family = f THEN [tokens[t] EXCEPT !.live = FALSE] ELSE tokens[t]]
  BY DEF Session!Revoke
<1>3. Session!Issued' = Session!Issued
  BY <1>2 DEF Session!Issued
<1>4. ASSUME NEW t \in Session!Issued
      PROVE  /\ tokens'[t] \in Session!RefreshToken
             /\ tokens'[t].family = tokens[t].family
             /\ tokens'[t].live => tokens[t].live
  BY <1>1, <1>2 DEF Session!RefreshToken
<1>5. ASSUME NEW n \in Nat, tokens \in [1 .. n -> Session!RefreshToken]
      PROVE  tokens' \in [1 .. n -> Session!RefreshToken]
  <2>1. Session!Issued = 1 .. n
    BY <1>5 DEF Session!Issued
  <2>2. tokens' = [t \in 1 .. n |-> tokens'[t]]
    BY <1>2, <2>1
  <2> QED
    BY <1>4, <2>1, <2>2
<1> QED
  BY <1>3, <1>4, <1>5

\* A claim of one token does the same to it alone.
LEMMA ClaimType ==
    ASSUME AccountTypes, NEW t \in Session!Issued, tokens' = [tokens EXCEPT ![t].live = FALSE]
    PROVE  /\ Session!Issued' = Session!Issued
           /\ \A n \in Nat : tokens \in [1 .. n -> Session!RefreshToken] => tokens' \in [1 .. n -> Session!RefreshToken]
           /\ \A s \in Session!Issued : tokens'[s].family = tokens[s].family /\ (tokens'[s].live => tokens[s].live)
           /\ ~tokens'[t].live
<1>1. \A s \in Session!Issued : tokens[s] \in Session!RefreshToken
  BY DEF AccountTypes, Session!Issued
<1>2. Session!Issued' = Session!Issued
  BY DEF Session!Issued
<1>3. ASSUME NEW s \in Session!Issued
      PROVE  /\ tokens'[s] \in Session!RefreshToken
             /\ tokens'[s].family = tokens[s].family
             /\ tokens'[s].live => tokens[s].live
             /\ s = t => ~tokens'[s].live
  BY <1>1 DEF Session!RefreshToken, Session!Issued
<1>4. ASSUME NEW n \in Nat, tokens \in [1 .. n -> Session!RefreshToken]
      PROVE  tokens' \in [1 .. n -> Session!RefreshToken]
  BY <1>3, <1>4 DEF Session!Issued
<1> QED
  BY <1>2, <1>3, <1>4

LEMMA AccountsInit == AccountBounds /\ Session!Init => AccountTypes
<1> SUFFICES ASSUME AccountBounds, Session!Init PROVE AccountTypes
  OBVIOUS
<1>1. tokens \in [1 .. 0 -> Session!RefreshToken]
  BY DEF Session!Init
<1>2. request \in [Workers -> TokenRequests] /\ \A r \in Workers : request[r].at = "idle" /\ request[r].token = 0
  BY TokenRequestTypes DEF Session!Init
<1>3. user \in Session!User /\ otp \in Session!OTPVerification /\ sent \in 0 .. MaxLinks
  BY DEF Session!Init, Session!User, Session!OTPVerification, AccountBounds
<1> QED
  BY <1>1, <1>2, <1>3 DEF AccountTypes

\* The tokens and the requests of a step that leaves the mail alone.
LEMMA TypeTokens ==
    ASSUME AccountTypes, UNCHANGED Session!Mail,
           \E n \in Nat : tokens' \in [1 .. n -> Session!RefreshToken],
           Session!Issued \subseteq Session!Issued',
           \/ UNCHANGED request
           \/ \E r \in Workers, h \in TokenRequests :
                 /\ Session!Becomes(r, h) /\ h.token \in {0} \cup Session!Issued
                 /\ h.at \in {"claim", "replace"} => h.token \in Session!Issued
    PROVE  AccountTypes'
<1>1. CASE UNCHANGED request
  BY <1>1 DEF AccountTypes, Session!Mail
<1>2. ASSUME NEW r \in Workers, NEW h \in TokenRequests, Session!Becomes(r, h), h.token \in {0} \cup Session!Issued,
             h.at \in {"claim", "replace"} => h.token \in Session!Issued
      PROVE  AccountTypes'
  <2>1. request' \in [Workers -> TokenRequests] /\ request'[r] = h /\ \A q \in Workers : q # r => request'[q] = request[q]
    BY <1>2 DEF Session!Becomes, AccountTypes
  <2>2. \A q \in Workers : request'[q].token \in {0} \cup Session!Issued'
    BY <1>2, <2>1 DEF AccountTypes
  <2>3. \A q \in Workers : request'[q].at \in {"claim", "replace"} => request'[q].token \in Session!Issued'
    BY <1>2, <2>1 DEF AccountTypes
  <2> QED
    BY <2>1, <2>2, <2>3 DEF AccountTypes, Session!Mail
<1> QED
  BY <1>1, <1>2

LEMMA TypeSessions ==
    ASSUME AccountBounds, AccountTypes,
           \/ \E f \in Families : Session!Login(f)
           \/ \E t \in Session!Issued : Session!Logout(t) \/ \E r \in Workers : Session!Refresh(r, t)
           \/ \E r \in Workers : Session!Claim(r) \/ Session!Replace(r)
    PROVE  AccountTypes'
<1>0. PICK n \in Nat : tokens \in [1 .. n -> Session!RefreshToken] /\ Session!Issued = 1 .. n
  BY IssuedCount DEF AccountTypes
<1>a. \A t \in Session!Issued : t \in Nat /\ tokens[t].family \in Families
  BY <1>0 DEF Session!RefreshToken
<1>1. ASSUME NEW f \in Families, Session!Login(f) PROVE AccountTypes'
  BY <1>1, IssueNext, TypeTokens DEF Session!Login
<1>2. ASSUME NEW t \in Session!Issued, Session!Logout(t) PROVE AccountTypes'
  <2>1. Session!Revoke(tokens[t].family) /\ UNCHANGED Session!Mail /\ UNCHANGED request
    BY <1>2 DEF Session!Logout
  <2> QED
    BY <1>0, <2>1, RevokeType, TypeTokens
<1>3. ASSUME NEW t \in Session!Issued, NEW r \in Workers, Session!Refresh(r, t) PROVE AccountTypes'
  <2>1. CASE tokens[t].live
    <3> DEFINE h == [Session!Idle EXCEPT !.at = "claim", !.token = t]
    <3>1. h \in TokenRequests /\ h.token = t
      BY <1>a, TokenRequestTypes DEF Session!Idle
    <3>2. Session!Becomes(r, h) /\ tokens' = tokens
      BY <1>3, <2>1 DEF Session!Refresh
    <3>3. Session!Issued' = Session!Issued
      BY <3>2 DEF Session!Issued
    <3> HIDE DEF h
    <3> QED
      BY <1>0, <1>3, <3>1, <3>2, <3>3, TypeTokens DEF Session!Refresh
  <2>2. CASE ~tokens[t].live
    BY <1>0, <1>3, <2>2, RevokeType, TypeTokens DEF Session!Refresh
  <2> QED
    BY <2>1, <2>2
<1>4. ASSUME NEW r \in Workers, Session!Claim(r) PROVE AccountTypes'
  <2> DEFINE t == request[r].token
             h == [request[r] EXCEPT !.at = "replace"]
  <2>1. t \in Session!Issued
    BY <1>4 DEF Session!Claim, AccountTypes
  <2>2. CASE tokens[t].live
    <3>1. h \in TokenRequests /\ h.token = t
      BY DEF AccountTypes, TokenRequests
    <3>2. Session!Becomes(r, h) /\ tokens' = [tokens EXCEPT ![t].live = FALSE]
      BY <1>4, <2>2 DEF Session!Claim
    <3> HIDE DEF h
    <3> QED
      BY <1>0, <1>4, <2>1, <3>1, <3>2, ClaimType, TypeTokens DEF Session!Claim
  <2>3. CASE ~tokens[t].live
    <3>1. Session!Becomes(r, Session!Idle) /\ Session!Revoke(tokens[t].family)
      BY <1>4, <2>3 DEF Session!Claim
    <3>2. Session!Idle \in TokenRequests /\ Session!Idle.token = 0 /\ Session!Idle.at = "idle"
      BY TokenRequestTypes
    <3> QED
      BY <1>0, <1>4, <3>1, <3>2, RevokeType, TypeTokens DEF Session!Claim
  <2> QED
    BY <2>2, <2>3
<1>5. ASSUME NEW r \in Workers, Session!Replace(r) PROVE AccountTypes'
  <2>1. tokens[request[r].token].family \in Families
    BY <1>a, <1>5 DEF Session!Replace, AccountTypes
  <2>2. Session!Becomes(r, Session!Idle) /\ UNCHANGED Session!Mail
    BY <1>5 DEF Session!Replace
  <2>3. Session!Idle \in TokenRequests /\ Session!Idle.token = 0 /\ Session!Idle.at = "idle"
    BY TokenRequestTypes
  <2>4. Session!Issued \subseteq Session!Issued' /\ \E m \in Nat : tokens' \in [1 .. m -> Session!RefreshToken]
    <3>1. Session!Issue(tokens[request[r].token].family)
      BY <1>5 DEF Session!Replace
    <3> QED
      BY <2>1, <3>1, IssueNext
  <2> QED
    BY <2>2, <2>3, <2>4, TypeTokens
<1> QED
  BY <1>1, <1>2, <1>3, <1>4, <1>5

LEMMA TypeMail ==
    ASSUME AccountBounds, AccountTypes,
           \/ \E f \in Families : Session!VerifyEmail(f)
           \/ \E r \in Workers : Session!LoadReset(r) \/ Session!ResetPassword(r)
           \/ Session!ForgotPassword \/ Session!ResendVerification \/ Session!SendCompanyOtp \/ Session!VerifyCompanyOtp
    PROVE  AccountTypes'
<1>0. PICK n \in Nat : tokens \in [1 .. n -> Session!RefreshToken]
  BY DEF AccountTypes
<1>1. ASSUME NEW f \in Families, Session!VerifyEmail(f) PROVE AccountTypes'
  <2>1. user' \in Session!User
    <3>1. 0 \in 0 .. MaxLinks
      BY DEF AccountBounds
    <3> QED
      BY <1>1, <3>1 DEF Session!VerifyEmail, AccountTypes, Session!User
  <2>2. Session!Issued \subseteq Session!Issued' /\ \E m \in Nat : tokens' \in [1 .. m -> Session!RefreshToken]
    BY <1>1, IssueNext DEF Session!VerifyEmail
  <2> QED
    BY <1>1, <2>1, <2>2 DEF Session!VerifyEmail, AccountTypes
<1>2. ASSUME NEW r \in Workers, Session!LoadReset(r) PROVE AccountTypes'
  <2> DEFINE h == [Session!Idle EXCEPT !.at = "hash", !.link = user.reset]
  <2>1. user.reset \in 0 .. MaxLinks
    BY DEF AccountTypes, Session!User
  <2>2. h \in TokenRequests /\ h.token = 0 /\ h.at = "hash"
    BY <2>1, TokenRequestTypes DEF Session!Idle
  <2>3. Session!Becomes(r, h) /\ UNCHANGED <<tokens, Session!Mail>>
    BY <1>2 DEF Session!LoadReset
  <2>4. Session!Issued' = Session!Issued
    BY <2>3 DEF Session!Issued
  <2> HIDE DEF h
  <2> QED
    BY <1>0, <2>2, <2>3, <2>4, TypeTokens
<1>3. ASSUME NEW r \in Workers, Session!ResetPassword(r) PROVE AccountTypes'
  <2>1. user' \in Session!User
    BY <1>3 DEF Session!ResetPassword, AccountTypes, Session!User, AccountBounds
  <2>2. request' \in [Workers -> TokenRequests] /\ request'[r] = Session!Idle /\ \A q \in Workers : q # r => request'[q] = request[q]
    BY <1>3, TokenRequestTypes DEF Session!ResetPassword, Session!Becomes, AccountTypes
  <2>3. Session!Issued' = Session!Issued
    BY <1>3 DEF Session!ResetPassword, Session!Issued
  <2> QED
    BY <1>3, <2>1, <2>2, <2>3, TokenRequestTypes DEF Session!ResetPassword, AccountTypes
<1>4. CASE Session!ForgotPassword \/ Session!ResendVerification
  <2>1. sent' \in 0 .. MaxLinks
    BY <1>4 DEF Session!ForgotPassword, Session!ResendVerification, Session!Send, AccountTypes, AccountBounds
  <2>2. user' = [user EXCEPT !.reset = sent'] \/ user' = [user EXCEPT !.verification = sent']
    BY <1>4 DEF Session!ForgotPassword, Session!ResendVerification
  <2>3. PICK s : s = sent'
    OBVIOUS
  <2>4. user' \in Session!User
    BY <2>1, <2>2, <2>3 DEF AccountTypes, Session!User
  <2> QED
    BY <1>4, <2>1, <2>4 DEF Session!ForgotPassword, Session!ResendVerification, AccountTypes, Session!Issued
<1>5. CASE Session!SendCompanyOtp
  <2>1. sent' \in 0 .. MaxLinks
    BY <1>5 DEF Session!SendCompanyOtp, Session!Send, AccountTypes, AccountBounds
  <2>2. PICK count : count = IF otp.verified THEN 1 ELSE otp.sendCount + 1
    OBVIOUS
  <2>3. count \in 0 .. MaxSends
    BY <1>5, <2>2 DEF Session!SendCompanyOtp, AccountTypes, Session!OTPVerification, AccountBounds
  <2>4. otp' = [code |-> sent', attempts |-> 0, verified |-> FALSE, sendCount |-> count]
    BY <1>5, <2>2 DEF Session!SendCompanyOtp
  <2>5. PICK s : s = sent'
    OBVIOUS
  <2>6. otp' \in Session!OTPVerification
    BY <2>1, <2>3, <2>4, <2>5 DEF Session!OTPVerification, AccountBounds
  <2> QED
    BY <1>5, <2>1, <2>6 DEF Session!SendCompanyOtp, AccountTypes, Session!Issued
<1>6. CASE Session!VerifyCompanyOtp
  <2>1. otp' \in Session!OTPVerification
    <3>1. PICK more : more = otp.attempts + 1
      OBVIOUS
    <3>2. more \in 0 .. MaxAttempts
      BY <1>6, <3>1 DEF Session!VerifyCompanyOtp, AccountTypes, Session!OTPVerification, AccountBounds
    <3>3. otp' = [otp EXCEPT !.attempts = more] \/ otp' = [otp EXCEPT !.verified = TRUE]
      BY <1>6, <3>1 DEF Session!VerifyCompanyOtp
    <3> QED
      BY <3>2, <3>3 DEF AccountTypes, Session!OTPVerification
  <2>2. user' \in Session!User
    BY <1>6 DEF Session!VerifyCompanyOtp, AccountTypes, Session!User
  <2> QED
    BY <1>6, <2>1, <2>2 DEF Session!VerifyCompanyOtp, AccountTypes, Session!Issued
<1> QED
  BY <1>1, <1>2, <1>3, <1>4, <1>5, <1>6

LEMMA AccountsStep == AccountBounds /\ AccountTypes /\ [Session!Next]_(Session!vars) => AccountTypes'
<1> SUFFICES ASSUME AccountBounds, AccountTypes, [Session!Next]_(Session!vars) PROVE AccountTypes'
  OBVIOUS
<1>1. CASE UNCHANGED Session!vars
  BY <1>1 DEF Session!vars, AccountTypes, Session!Issued
<1> QED
  BY <1>1, TypeSessions, TypeMail DEF Session!Next

LEMMA AccountsTyped == AccountTypes => Session!TypeOK
<1> SUFFICES ASSUME AccountTypes PROVE Session!TypeOK
  OBVIOUS
<1>1. PICK n \in Nat : tokens \in [1 .. n -> Session!RefreshToken] /\ Session!Issued = 1 .. n /\ Session!Cardinality(Session!Issued) = n
  BY IssuedCount DEF AccountTypes
<1> QED
  BY <1>1 DEF AccountTypes, Session!TypeOK

(* However requests overlap, the tokens, links and codes keep their types.   *)
THEOREM AccountsAreTyped ==
    ASSUME AccountBounds
    PROVE  Session!Spec => []Session!TypeOK
BY AccountsInit, AccountsStep, AccountsTyped, PTL DEF Session!Spec

-----------------------------------------------------------------------------
(* Sessions                                                                  *)

LEMMA ForkInit == Session!Init => ForkInv
BY DEF Session!Init, ForkInv, Session!Issued, Replacing, Session!Idle

\* Tokens may die and requests may end: that forks nothing.
LEMMA ForkShrinks ==
    ASSUME AccountTypes, ForkInv, Session!Issued' = Session!Issued,
           \A t \in Session!Issued : tokens'[t].family = tokens[t].family /\ (tokens'[t].live => tokens[t].live),
           \A r \in Workers : Replacing(r)' => Replacing(r) /\ request'[r].token = request[r].token
    PROVE  ForkInv'
<1>1. \A r \in Workers : Replacing(r)' => Replacing(r) /\ FamilyOf(r)' = FamilyOf(r)
  BY DEF AccountTypes, Replacing, FamilyOf
<1> QED
  BY <1>1 DEF ForkInv

\* The claim puts the request in the place of the token it ends.
LEMMA ForkClaims ==
    ASSUME AccountTypes, ForkInv, NEW r \in Workers, Session!Claim(r)
    PROVE  ForkInv'
<1> DEFINE t == request[r].token
           h == [request[r] EXCEPT !.at = "replace"]
<1>1. t \in Session!Issued /\ request \in [Workers -> TokenRequests]
  BY DEF Session!Claim, AccountTypes
<1>2. CASE tokens[t].live
  <2>1. h.at = "replace" /\ h.token = t
    BY <1>1 DEF TokenRequests
  <2>2. request' = [request EXCEPT ![r] = h] /\ tokens' = [tokens EXCEPT ![t].live = FALSE]
    BY <1>2 DEF Session!Claim, Session!Becomes
  <2> HIDE DEF h, t
  <2>3. /\ Session!Issued' = Session!Issued /\ ~tokens'[t].live
        /\ \A s \in Session!Issued : tokens'[s].family = tokens[s].family /\ (tokens'[s].live => tokens[s].live)
    BY <1>1, <2>2, ClaimType
  <2>4. \A q \in Workers : q # r => request'[q] = request[q]
    BY <1>1, <2>2
  <2>5. request'[r] = h
    BY <1>1, <2>2
  <2>6. FamilyOf(r)' = tokens[t].family
    BY <1>1, <2>1, <2>3, <2>5 DEF FamilyOf
  <2>7. \A q \in Workers : q # r /\ Replacing(q)' => Replacing(q) /\ FamilyOf(q)' = FamilyOf(q)
    BY <2>3, <2>4 DEF AccountTypes, Replacing, FamilyOf
  <2>8. \A s \in Session!Issued : tokens'[s].live => tokens'[s].family # tokens[t].family
    BY <1>1, <1>2, <2>3 DEF ForkInv
  <2>9. \A q \in Workers : q # r /\ Replacing(q)' => FamilyOf(q)' # tokens[t].family
    BY <1>1, <1>2, <2>7 DEF ForkInv
  <2>10. \A s, u \in Session!Issued' :
           tokens'[s].live /\ tokens'[u].live /\ tokens'[s].family = tokens'[u].family => s = u
    BY <2>3 DEF ForkInv
  <2>11. \A q \in Workers, s \in Session!Issued' : Replacing(q)' /\ tokens'[s].live => tokens'[s].family # FamilyOf(q)'
    BY <2>3, <2>6, <2>7, <2>8 DEF ForkInv
  <2>12. \A p, q \in Workers : Replacing(p)' /\ Replacing(q)' /\ FamilyOf(p)' = FamilyOf(q)' => p = q
    BY <2>6, <2>7, <2>9 DEF ForkInv
  <2> QED
    BY <2>10, <2>11, <2>12 DEF ForkInv
<1>3. CASE ~tokens[t].live
  <2>1. request' = [request EXCEPT ![r] = Session!Idle] /\ Session!Revoke(tokens[t].family)
    BY <1>3 DEF Session!Claim, Session!Becomes
  <2>2. \A q \in Workers : Replacing(q)' => Replacing(q) /\ request'[q].token = request[q].token
    BY <1>1, <2>1 DEF Replacing, Session!Idle
  <2> QED
    BY <2>1, <2>2, RevokeType, ForkShrinks
<1> QED
  BY <1>2, <1>3

\* A token is issued to a family that has no live one, by the one request
\* that was about to or for a session that begins.
LEMMA ForkIssues ==
    ASSUME AccountTypes, ForkInv, NEW f \in Families, Session!Issue(f),
           \A t \in Session!Issued : tokens[t].live => tokens[t].family # f,
           \A r \in Workers : Replacing(r)' =>
               Replacing(r) /\ request'[r].token = request[r].token /\ FamilyOf(r) # f
    PROVE  ForkInv'
<1>1. PICK n \in Nat :
        /\ Session!Issued = 1 .. n /\ Session!Issued' = 1 .. n + 1
        /\ \A t \in Session!Issued : tokens'[t] = tokens[t]
        /\ tokens'[n + 1] = [family |-> f, live |-> TRUE]
  BY IssueType
<1>2. \A t \in Session!Issued' : t # n + 1 => t \in Session!Issued /\ tokens'[t] = tokens[t]
  BY <1>1
<1>3. tokens'[n + 1].family = f
  BY <1>1
<1>4. \A r \in Workers : Replacing(r)' => Replacing(r) /\ FamilyOf(r)' = FamilyOf(r) /\ FamilyOf(r) # f
  BY <1>1 DEF AccountTypes, Replacing, FamilyOf
<1>5. \A s, t \in Session!Issued' :
        tokens'[s].live /\ tokens'[t].live /\ tokens'[s].family = tokens'[t].family => s = t
  BY <1>2, <1>3 DEF ForkInv
<1>6. \A r \in Workers, t \in Session!Issued' : Replacing(r)' /\ tokens'[t].live => tokens'[t].family # FamilyOf(r)'
  BY <1>2, <1>3, <1>4 DEF ForkInv
<1>7. \A q, r \in Workers : Replacing(q)' /\ Replacing(r)' /\ FamilyOf(q)' = FamilyOf(r)' => q = r
  BY <1>4 DEF ForkInv
<1> QED
  BY <1>5, <1>6, <1>7 DEF ForkInv

LEMMA ForkStep == AccountBounds /\ AccountTypes /\ ForkInv /\ [Session!Next]_(Session!vars) => ForkInv'
<1> SUFFICES ASSUME AccountBounds, AccountTypes, ForkInv, [Session!Next]_(Session!vars) PROVE ForkInv'
  OBVIOUS
<1>1. ASSUME NEW f \in Families, Session!Login(f) \/ Session!VerifyEmail(f) PROVE ForkInv'
  <2>1. Session!Issue(f) /\ request' = request /\ \A t \in Session!Issued : tokens[t].family # f
    BY <1>1 DEF Session!Login, Session!VerifyEmail
  <2>2. \A r \in Workers : Replacing(r) => FamilyOf(r) # f
    BY <2>1 DEF AccountTypes, Replacing, FamilyOf
  <2> QED
    BY <2>1, <2>2, ForkIssues DEF Replacing
<1>2. ASSUME NEW t \in Session!Issued, Session!Logout(t) PROVE ForkInv'
  BY <1>2, RevokeType, ForkShrinks DEF Session!Logout, Replacing
<1>3. ASSUME NEW t \in Session!Issued, NEW r \in Workers, Session!Refresh(r, t) PROVE ForkInv'
  <2>1. CASE tokens[t].live
    <3> DEFINE h == [Session!Idle EXCEPT !.at = "claim", !.token = t]
    <3>1. h.at = "claim"
      BY DEF Session!Idle
    <3>2. request' = [request EXCEPT ![r] = h] /\ tokens' = tokens
      BY <1>3, <2>1 DEF Session!Refresh, Session!Becomes
    <3> HIDE DEF h
    <3>3. \A q \in Workers : Replacing(q)' => Replacing(q) /\ request'[q].token = request[q].token
      BY <3>1, <3>2 DEF Replacing, AccountTypes
    <3> QED
      BY <3>2, <3>3, ForkShrinks DEF Session!Issued
  <2>2. CASE ~tokens[t].live
    BY <1>3, <2>2, RevokeType, ForkShrinks DEF Session!Refresh, Replacing
  <2> QED
    BY <2>1, <2>2
<1>4. ASSUME NEW r \in Workers, Session!Replace(r) PROVE ForkInv'
  <2>1. Replacing(r) /\ Session!Issue(FamilyOf(r)) /\ request' = [request EXCEPT ![r] = Session!Idle]
    BY <1>4 DEF Session!Replace, Replacing, FamilyOf, Session!Becomes
  <2>2. FamilyOf(r) \in Families
    BY <2>1 DEF AccountTypes, Replacing, FamilyOf, Session!Issued, Session!RefreshToken
  <2>3. PICK f \in Families : f = FamilyOf(r)
    BY <2>2
  <2>4. \A q \in Workers : Replacing(q)' => q # r /\ Replacing(q) /\ request'[q].token = request[q].token
    BY <2>1 DEF AccountTypes, Replacing, Session!Idle
  <2>5. \A q \in Workers : Replacing(q) /\ q # r => FamilyOf(q) # f
    BY <2>1, <2>3 DEF ForkInv
  <2>6. \A t \in Session!Issued : tokens[t].live => tokens[t].family # f
    BY <2>1, <2>3 DEF ForkInv
  <2> QED
    BY <2>1, <2>3, <2>4, <2>5, <2>6, ForkIssues
<1>5. ASSUME NEW r \in Workers, Session!LoadReset(r) \/ Session!ResetPassword(r) PROVE ForkInv'
  <2> DEFINE h == [Session!Idle EXCEPT !.at = "hash", !.link = user.reset]
  <2>1. h.at = "hash" /\ Session!Idle.at = "idle"
    BY DEF Session!Idle
  <2>2. tokens' = tokens /\ \E g \in {h, Session!Idle} : request' = [request EXCEPT ![r] = g]
    BY <1>5 DEF Session!LoadReset, Session!ResetPassword, Session!Becomes
  <2> HIDE DEF h
  <2>3. \A q \in Workers : Replacing(q)' => Replacing(q) /\ request'[q].token = request[q].token
    BY <2>1, <2>2 DEF Replacing, AccountTypes
  <2> QED
    BY <2>2, <2>3, ForkShrinks DEF Session!Issued
<1>6. CASE Session!ForgotPassword \/ Session!ResendVerification \/ Session!SendCompanyOtp \/ Session!VerifyCompanyOtp \/ UNCHANGED Session!vars
  <2>1. tokens' = tokens /\ request' = request
    BY <1>6 DEF Session!ForgotPassword, Session!ResendVerification, Session!SendCompanyOtp, Session!VerifyCompanyOtp, Session!vars
  <2> QED
    BY <2>1, ForkShrinks DEF Replacing, Session!Issued
<1> QED
  BY <1>1, <1>2, <1>3, <1>4, <1>5, <1>6, ForkClaims DEF Session!Next

\* A set with no two elements has one at most.
LEMMA AtMostOne ==
    ASSUME NEW S, \A x, y \in S : x = y
    PROVE  Cardinality(S) \in {0, 1} /\ (Cardinality(S) = 0 <=> S = {}) /\ Session!Cardinality(S) = Cardinality(S)
<1>0. Session!Cardinality(S) = Cardinality(S)
  BY DEF Session!Cardinality, Cardinality
<1>1. CASE S = {}
  BY <1>0, <1>1, FS_EmptySet
<1>2. CASE S # {}
  <2>1. PICK x : S = {x}
    BY <1>2
  <2>2. Cardinality(S) = 1
    BY <2>1, FS_Singleton
  <2> QED
    BY <1>0, <1>2, <2>2
<1> QED
  BY <1>1, <1>2

(* However many tabs refresh one session, present an old token, log out or log
   in again, and wherever they overlap, at most one token of a session is good:
   one replaced is dead before its successor exists (refresh in
   authController.js).                                                       *)
THEOREM SessionsStaySingle ==
    ASSUME AccountBounds
    PROVE  Session!Spec => []Session!SessionsDoNotFork
<1>1. ForkInv => Session!SessionsDoNotFork
  <2> SUFFICES ASSUME ForkInv, NEW f \in Families
               PROVE  Session!Cardinality(Session!Live(f)) + Session!Cardinality({r \in Workers : Replacing(r) /\ FamilyOf(r) = f}) <= 1
    BY DEF Session!SessionsDoNotFork, Replacing, FamilyOf
  <2> DEFINE Coming == {r \in Workers : Replacing(r) /\ FamilyOf(r) = f}
  <2>1. \A s, t \in Session!Live(f) : s = t
    BY DEF ForkInv, Session!Live
  <2>2. \A q, r \in Coming : q = r
    BY DEF ForkInv
  <2>3. Session!Live(f) = {} \/ Coming = {}
    BY DEF ForkInv, Session!Live
  <2> HIDE DEF Coming
  <2>4. /\ Cardinality(Session!Live(f)) \in {0, 1} /\ (Cardinality(Session!Live(f)) = 0 <=> Session!Live(f) = {})
        /\ Cardinality(Coming) \in {0, 1} /\ (Cardinality(Coming) = 0 <=> Coming = {})
    BY <2>1, <2>2, AtMostOne
  <2>5. Session!Cardinality(Session!Live(f)) + Session!Cardinality(Coming) <= 1
    BY <2>1, <2>2, <2>3, <2>4, AtMostOne
  <2> QED
    BY <2>5 DEF Coming
<1> QED
  BY <1>1, AccountsInit, AccountsStep, ForkInit, ForkStep, PTL DEF Session!Spec

-----------------------------------------------------------------------------
(* A candidate's profile.                                                    *)

CONSTANTS Skills, Required, Says, Sweeps, Limit, MaxOps
VARIABLES profile, archived, published, applied, sweep, kept, sinceOff, ops

Profile == INSTANCE CandidateProfile

ProfileBounds == MaxOps \in Nat

Saves == [at : {"save", "dismiss"}, copy : Profile!Profile, job : Jobs]
Edits == [at : {"auto", "skills", "education", "verify", "full"}, copy : Profile!Profile]
NightRounds == [at : {"found", "apply"}, copy : Profile!Profile, ranked : SUBSET Jobs]

ProfileTypes ==
    /\ profile \in Profile!Profile /\ archived \in BOOLEAN /\ published \in SUBSET Jobs
    /\ applied \in [Jobs -> {"none", "self", "auto"}]
    /\ request \in [Requests -> {Profile!Idle} \cup Saves \cup Edits]
    /\ sweep \in [Sweeps -> {Profile!Idle} \cup NightRounds]
    /\ kept \in [saved : SUBSET Jobs, dismissed : SUBSET Jobs]
    /\ sinceOff \in Nat /\ ops \in 0 .. MaxOps

(* A copy is never ahead of the document; of the same version it has the same
   arrays, and a job that is dismissed in it still is.                       *)
CopyIsBehind(c) ==
    /\ c.v <= profile.v /\ c.dismissed \subseteq profile.dismissed
    /\ c.v = profile.v => c.dismissed = profile.dismissed /\ c.saved = profile.saved
CopiesAreBehind == \A r \in Requests : request[r] # Profile!Idle => CopyIsBehind(request[r].copy)

ProfileInv == ProfileTypes /\ CopiesAreBehind /\ Profile!AnswersAreKept

-----------------------------------------------------------------------------
LEMMA ProfileFields ==
    ASSUME NEW p \in Profile!Profile
    PROVE  /\ p.v \in Nat /\ p.skills \in SUBSET Skills /\ p.saved \in [Jobs -> Nat] /\ p.dismissed \in SUBSET Jobs
           /\ p.auto \in BOOLEAN /\ p.education \in BOOLEAN /\ p.emailVerified \in BOOLEAN /\ p.strength \in 0 .. 20
  BY DEF Profile!Profile

(* A save of some fields leaves the version and the arrays alone.            *)
LEMMA MergedKeepsArrays ==
    ASSUME profile \in Profile!Profile, NEW c \in Profile!Profile, NEW new \in Profile!Profile,
           new.saved = c.saved, new.dismissed = c.dismissed
    PROVE  /\ Profile!Merged(c, new) \in Profile!Profile /\ Profile!Merged(c, new).v = profile.v
           /\ Profile!Merged(c, new).saved = profile.saved /\ Profile!Merged(c, new).dismissed = profile.dismissed
<1> DEFINE Fields == {"v", "skills", "saved", "dismissed", "auto", "education", "emailVerified", "strength"}
<1> DEFINE m == [f \in Fields |-> IF f = "v" THEN profile.v ELSE IF new[f] # c[f] THEN new[f] ELSE profile[f]]
<1>1. DOMAIN profile = Fields
  BY DEF Profile!Profile
<1>2. Profile!Merged(c, new) = m
  BY <1>1 DEF Profile!Merged
<1>3. m.v = profile.v /\ m.saved = profile.saved /\ m.dismissed = profile.dismissed
  OBVIOUS
<1>4. /\ m.skills \in {new.skills, profile.skills} /\ m.auto \in {new.auto, profile.auto} /\ m.education \in {new.education, profile.education}
      /\ m.emailVerified \in {new.emailVerified, profile.emailVerified} /\ m.strength \in {new.strength, profile.strength}
  OBVIOUS
<1>5. m = [v |-> m.v, skills |-> m.skills, saved |-> m.saved, dismissed |-> m.dismissed, auto |-> m.auto,
           education |-> m.education, emailVerified |-> m.emailVerified, strength |-> m.strength]
  OBVIOUS
<1> HIDE DEF m
<1>6. m \in Profile!Profile
  BY <1>3, <1>4, <1>5, ProfileFields DEF Profile!Profile
<1> QED
  BY <1>2, <1>3, <1>6

LEMMA BumpedKeeps ==
    ASSUME NEW p \in Profile!Profile
    PROVE  /\ Profile!Bumped(p) \in Profile!Profile /\ Profile!Bumped(p).v = p.v + 1
           /\ Profile!Bumped(p).saved = p.saved /\ Profile!Bumped(p).dismissed = p.dismissed
<1>1. PICK n \in Nat : n = p.v + 1
  BY ProfileFields
<1>2. Profile!Bumped(p) = [p EXCEPT !.v = n]
  BY <1>1 DEF Profile!Bumped
<1>3. /\ [p EXCEPT !.v = n] \in Profile!Profile /\ [p EXCEPT !.v = n].v = n
      /\ [p EXCEPT !.v = n].saved = p.saved /\ [p EXCEPT !.v = n].dismissed = p.dismissed
  BY DEF Profile!Profile
<1> QED
  BY <1>1, <1>2, <1>3

LEMMA ProfileInit == ASSUME ProfileBounds, Profile!Init PROVE ProfileInv
<1>1. profile \in Profile!Profile /\ profile.v = 0
  BY DEF Profile!Init, Profile!Profile
<1>2. kept \in [saved : SUBSET Jobs, dismissed : SUBSET Jobs] /\ kept.saved = {} /\ kept.dismissed = {}
  BY DEF Profile!Init
<1>3. request \in [Requests -> {Profile!Idle} \cup Saves \cup Edits] /\ sweep \in [Sweeps -> {Profile!Idle} \cup NightRounds]
      /\ \A r \in Requests : request[r] = Profile!Idle
  BY DEF Profile!Init
<1>4. applied \in [Jobs -> {"none", "self", "auto"}] /\ published \in SUBSET Jobs /\ sinceOff \in Nat
  BY DEF Profile!Init
<1>5. ops \in 0 .. MaxOps
  BY DEF Profile!Init, ProfileBounds
<1>6. archived \in BOOLEAN
  BY DEF Profile!Init
<1> QED
  BY <1>1, <1>2, <1>3, <1>4, <1>5, <1>6 DEF ProfileInv, ProfileTypes, CopiesAreBehind, Profile!AnswersAreKept

(* What the answer of one request does: the arrays change with the version.  *)
LEMMA RequestAnswered ==
    ASSUME ProfileInv, NEW r \in Requests, NEW k \in [saved : SUBSET Jobs, dismissed : SUBSET Jobs], NEW off \in Nat,
           Profile!Answered(r, k, off), archived' \in BOOLEAN,
           profile' \in Profile!Profile, profile.dismissed \subseteq profile'.dismissed,
           profile'.v = profile.v + 1 \/ (profile'.v = profile.v /\ profile'.dismissed = profile.dismissed /\ profile'.saved = profile.saved),
           k.dismissed \subseteq profile'.dismissed, \A j \in k.saved : profile'.saved[j] > 0
    PROVE  ProfileInv'
<1>1. request' = [request EXCEPT ![r] = Profile!Idle] /\ kept' = k /\ sinceOff' = off /\ UNCHANGED <<published, applied, sweep, ops>>
  BY DEF Profile!Answered
<1>2. request' \in [Requests -> {Profile!Idle} \cup Saves \cup Edits] /\ request'[r] = Profile!Idle
      /\ \A q \in Requests : q # r => request'[q] = request[q]
  BY <1>1 DEF ProfileInv, ProfileTypes
<1>3. ProfileTypes'
  BY <1>1, <1>2 DEF ProfileInv, ProfileTypes
<1>4. ASSUME NEW c \in Profile!Profile, CopyIsBehind(c) PROVE CopyIsBehind(c)'
  <2>1. c.v \in Nat /\ profile.v \in Nat /\ profile'.v \in Nat
    BY ProfileFields DEF ProfileInv, ProfileTypes
  <2> QED
    BY <1>4, <2>1 DEF CopyIsBehind
<1>5. ASSUME NEW q \in Requests, request[q] # Profile!Idle PROVE request[q].copy \in Profile!Profile /\ CopyIsBehind(request[q].copy)
  BY <1>5 DEF ProfileInv, ProfileTypes, CopiesAreBehind, Saves, Edits
<1>6. CopiesAreBehind'
  BY <1>2, <1>4, <1>5 DEF CopiesAreBehind
<1>7. Profile!AnswersAreKept'
  BY <1>1 DEF Profile!AnswersAreKept
<1> QED
  BY <1>3, <1>6, <1>7 DEF ProfileInv

(* What a request that is under way has in its hands.                        *)
LEMMA RequestIsTyped ==
    ASSUME ProfileInv, NEW r \in Requests, request[r].at \in Profile!Handlers
    PROVE  /\ request[r].copy \in Profile!Profile /\ CopyIsBehind(request[r].copy)
           /\ request[r].at \in {"save", "dismiss"} => request[r].job \in Jobs
           /\ profile \in Profile!Profile /\ archived \in BOOLEAN /\ sinceOff \in Nat
           /\ kept \in [saved : SUBSET Jobs, dismissed : SUBSET Jobs]
           /\ kept.dismissed \subseteq profile.dismissed /\ \A j \in kept.saved : j \in Jobs /\ profile.saved[j] > 0
<1>1. request[r] # Profile!Idle
  BY DEF Profile!Idle, Profile!Handlers
<1>2. request[r] \in Saves \cup Edits
  BY <1>1 DEF ProfileInv, ProfileTypes
<1>3. request[r].copy \in Profile!Profile /\ (request[r].at \in {"save", "dismiss"} => request[r].job \in Jobs)
  BY <1>2 DEF Saves, Edits
<1>4. CopyIsBehind(request[r].copy)
  BY <1>1 DEF ProfileInv, CopiesAreBehind
<1> QED
  BY <1>3, <1>4 DEF ProfileInv, ProfileTypes, Profile!AnswersAreKept

(* A save refused for its version changes nothing.                           *)
LEMMA SaveRefused ==
    ASSUME ProfileInv, NEW r \in Requests, NEW c, request[r].at \in Profile!Handlers, Profile!VersionError(r, c), archived' = archived
    PROVE  ProfileInv'
<1>1. profile' = profile /\ Profile!Answered(r, kept, sinceOff)
  BY DEF Profile!VersionError
<1> QED
  BY <1>1, RequestIsTyped, RequestAnswered

LEMMA JobSaved == ASSUME ProfileInv, NEW r \in Requests, Profile!ToggleSavedJob(r) PROVE ProfileInv'
<1>1. request[r].at = "save" /\ archived' = archived
  BY DEF Profile!ToggleSavedJob
<1>2. PICK c \in Profile!Profile : c = request[r].copy
  BY <1>1, RequestIsTyped DEF Profile!Handlers
<1>3. PICK j \in Jobs : j = request[r].job
  BY <1>1, RequestIsTyped DEF Profile!Handlers
<1>4. CopyIsBehind(c) /\ profile \in Profile!Profile /\ archived \in BOOLEAN /\ kept \in [saved : SUBSET Jobs, dismissed : SUBSET Jobs]
      /\ kept.dismissed \subseteq profile.dismissed /\ \A i \in kept.saved : i \in Jobs /\ profile.saved[i] > 0
  BY <1>1, <1>2, RequestIsTyped DEF Profile!Handlers
<1>5. sinceOff \in Nat
  BY DEF ProfileInv, ProfileTypes
<1>6. ASSUME NEW n \in Nat
      PROVE  /\ [profile EXCEPT !.saved[j] = n] \in Profile!Profile /\ [profile EXCEPT !.saved[j] = n].v = profile.v
             /\ [profile EXCEPT !.saved[j] = n].dismissed = profile.dismissed
             /\ [profile EXCEPT !.saved[j] = n].saved = [profile.saved EXCEPT ![j] = n]
  BY <1>4 DEF Profile!Profile
<1>7. \/ c.saved[j] > 0 /\ Profile!SameVersion(c) /\ profile' = Profile!Bumped([profile EXCEPT !.saved[j] = c.saved[j] - 1])
         /\ Profile!Answered(r, [kept EXCEPT !.saved = @ \ {j}], sinceOff)
      \/ c.saved[j] > 0 /\ Profile!VersionError(r, c)
      \/ c.saved[j] = 0 /\ profile' = Profile!Bumped([profile EXCEPT !.saved[j] = @ + 1])
         /\ Profile!Answered(r, [kept EXCEPT !.saved = @ \cup {j}], sinceOff)
  BY <1>2, <1>3, Zenon DEF Profile!ToggleSavedJob
<1>8. CASE c.saved[j] > 0 /\ Profile!SameVersion(c) /\ profile' = Profile!Bumped([profile EXCEPT !.saved[j] = c.saved[j] - 1])
         /\ Profile!Answered(r, [kept EXCEPT !.saved = @ \ {j}], sinceOff)
  <2>1. PICK n \in Nat : n = c.saved[j] - 1
    BY <1>8, ProfileFields
  <2>2. PICK new \in Profile!Profile : new = [profile EXCEPT !.saved[j] = n]
    BY <1>6
  <2>3. profile' = Profile!Bumped(new)
    BY <1>8, <2>1, <2>2
  <2>4. PICK keep : keep = [kept EXCEPT !.saved = @ \ {j}]
    OBVIOUS
  <2>5. keep \in [saved : SUBSET Jobs, dismissed : SUBSET Jobs] /\ keep.saved = kept.saved \ {j} /\ keep.dismissed = kept.dismissed
    BY <1>4, <2>4
  <2>6. profile' \in Profile!Profile /\ profile'.v = profile.v + 1 /\ profile'.dismissed = profile.dismissed
        /\ profile'.saved = [profile.saved EXCEPT ![j] = n]
    BY <1>6, <2>2, <2>3, BumpedKeeps
  <2>7. \A i \in keep.saved : profile'.saved[i] > 0
    BY <1>4, <2>5, <2>6, ProfileFields
  <2>8. Profile!Answered(r, keep, sinceOff)
    BY <1>8, <2>4
  <2> QED
    BY <1>1, <1>4, <1>5, <2>5, <2>6, <2>7, <2>8, RequestAnswered
<1>9. CASE c.saved[j] > 0 /\ Profile!VersionError(r, c)
  BY <1>1, <1>9, SaveRefused DEF Profile!Handlers
<1>10. CASE c.saved[j] = 0 /\ profile' = Profile!Bumped([profile EXCEPT !.saved[j] = @ + 1])
         /\ Profile!Answered(r, [kept EXCEPT !.saved = @ \cup {j}], sinceOff)
  <2>1. PICK n \in Nat : n = profile.saved[j] + 1
    BY <1>4, ProfileFields
  <2>2. PICK new \in Profile!Profile : new = [profile EXCEPT !.saved[j] = n]
    BY <1>6
  <2>3. profile' = Profile!Bumped(new)
    BY <1>10, <2>1, <2>2
  <2>4. PICK keep : keep = [kept EXCEPT !.saved = @ \cup {j}]
    OBVIOUS
  <2>5. keep \in [saved : SUBSET Jobs, dismissed : SUBSET Jobs] /\ keep.saved = kept.saved \cup {j} /\ keep.dismissed = kept.dismissed
    BY <1>4, <2>4
  <2>6. profile' \in Profile!Profile /\ profile'.v = profile.v + 1 /\ profile'.dismissed = profile.dismissed
        /\ profile'.saved = [profile.saved EXCEPT ![j] = n]
    BY <1>6, <2>2, <2>3, BumpedKeeps
  <2>7. \A i \in keep.saved : profile'.saved[i] > 0
    <3>1. profile.saved \in [Jobs -> Nat] /\ n > 0
      BY <1>4, <2>1, ProfileFields
    <3> QED
      BY <1>4, <2>5, <2>6, <3>1
  <2>8. Profile!Answered(r, keep, sinceOff)
    BY <1>10, <2>4
  <2> QED
    BY <1>1, <1>4, <1>5, <2>5, <2>6, <2>7, <2>8, RequestAnswered
<1> QED
  BY <1>7, <1>8, <1>9, <1>10

LEMMA JobDismissed == ASSUME ProfileInv, NEW r \in Requests, Profile!DismissRecommendedJob(r) PROVE ProfileInv'
<1>1. request[r].at = "dismiss" /\ archived' = archived
  BY DEF Profile!DismissRecommendedJob
<1>2. PICK c \in Profile!Profile : c = request[r].copy
  BY <1>1, RequestIsTyped DEF Profile!Handlers
<1>3. PICK j \in Jobs : j = request[r].job
  BY <1>1, RequestIsTyped DEF Profile!Handlers
<1>4. CopyIsBehind(c) /\ profile \in Profile!Profile /\ archived \in BOOLEAN /\ kept \in [saved : SUBSET Jobs, dismissed : SUBSET Jobs]
      /\ kept.dismissed \subseteq profile.dismissed /\ \A i \in kept.saved : i \in Jobs /\ profile.saved[i] > 0
  BY <1>1, <1>2, RequestIsTyped DEF Profile!Handlers
<1>5. sinceOff \in Nat
  BY DEF ProfileInv, ProfileTypes
<1>6. PICK keep : keep = [kept EXCEPT !.dismissed = @ \cup {j}]
  OBVIOUS
<1>7. keep \in [saved : SUBSET Jobs, dismissed : SUBSET Jobs] /\ keep.saved = kept.saved /\ keep.dismissed = kept.dismissed \cup {j}
  BY <1>4, <1>6
<1>8. \/ j \in c.dismissed /\ profile' = profile /\ Profile!Answered(r, keep, sinceOff)
      \/ j \notin c.dismissed /\ Profile!SameVersion(c) /\ profile' = Profile!Bumped([profile EXCEPT !.dismissed = c.dismissed \cup {j}])
         /\ Profile!Answered(r, keep, sinceOff)
      \/ j \notin c.dismissed /\ Profile!VersionError(r, c)
  BY <1>2, <1>3, <1>6, Zenon DEF Profile!DismissRecommendedJob
<1>9. CASE j \in c.dismissed /\ profile' = profile /\ Profile!Answered(r, keep, sinceOff)
  <2>1. keep.dismissed \subseteq profile'.dismissed
    BY <1>4, <1>7, <1>9 DEF CopyIsBehind
  <2> QED
    BY <1>1, <1>4, <1>5, <1>7, <1>9, <2>1, RequestAnswered
<1>10. CASE j \notin c.dismissed /\ Profile!SameVersion(c) /\ profile' = Profile!Bumped([profile EXCEPT !.dismissed = c.dismissed \cup {j}])
         /\ Profile!Answered(r, keep, sinceOff)
  <2>1. c.dismissed = profile.dismissed
    BY <1>4, <1>10 DEF Profile!SameVersion, CopyIsBehind
  <2>2. PICK gone \in SUBSET Jobs : gone = c.dismissed \cup {j}
    BY ProfileFields
  <2>3. PICK new : new = [profile EXCEPT !.dismissed = gone]
    OBVIOUS
  <2>4. new \in Profile!Profile /\ new.v = profile.v /\ new.saved = profile.saved /\ new.dismissed = gone
    BY <1>4, <2>3 DEF Profile!Profile
  <2>5. profile' = Profile!Bumped(new)
    BY <1>10, <2>2, <2>3
  <2>6. profile' \in Profile!Profile /\ profile'.v = profile.v + 1 /\ profile'.dismissed = gone /\ profile'.saved = profile.saved
    BY <2>4, <2>5, BumpedKeeps
  <2> QED
    BY <1>1, <1>4, <1>5, <1>7, <1>10, <2>1, <2>2, <2>6, RequestAnswered
<1>11. CASE j \notin c.dismissed /\ Profile!VersionError(r, c)
  BY <1>1, <1>11, SaveRefused DEF Profile!Handlers
<1> QED
  BY <1>8, <1>9, <1>10, <1>11

(* The handlers that save no array.                                          *)
LEMMA FieldsSaved ==
    ASSUME ProfileInv, NEW r \in Requests, NEW c \in Profile!Profile, NEW new \in Profile!Profile, NEW off \in Nat,
           new.saved = c.saved, new.dismissed = c.dismissed, archived' \in BOOLEAN, request[r].at \in Profile!Handlers,
           profile' = Profile!Merged(c, new) \/ profile' = Profile!Bumped(Profile!Merged(c, new)), Profile!Answered(r, kept, off)
    PROVE  ProfileInv'
<1>1. PICK m \in Profile!Profile : m = Profile!Merged(c, new)
  BY RequestIsTyped, MergedKeepsArrays
<1>2. m.v = profile.v /\ m.saved = profile.saved /\ m.dismissed = profile.dismissed
  BY <1>1, RequestIsTyped, MergedKeepsArrays
<1>3. profile' \in Profile!Profile /\ profile'.saved = profile.saved /\ profile'.dismissed = profile.dismissed
      /\ (profile'.v = profile.v \/ profile'.v = profile.v + 1)
  BY <1>1, <1>2, BumpedKeeps
<1> QED
  BY <1>3, RequestIsTyped, RequestAnswered

LEMMA ProfileEdited ==
    ASSUME ProfileInv, NEW r \in Requests,
           \/ \E b \in BOOLEAN : Profile!UpdateEducation(r, b) \/ \E other \in BOOLEAN : Profile!UpdateAutoApplySettings(r, b, other)
           \/ Profile!VerifyOtp(r) \/ Profile!GetFullProfile(r) \/ \E new \in SUBSET Skills : Profile!UpdateProfile(r, new)
    PROVE  ProfileInv'
<1>1. request[r].at \in Profile!Handlers
  BY DEF Profile!UpdateEducation, Profile!UpdateAutoApplySettings, Profile!VerifyOtp, Profile!GetFullProfile, Profile!UpdateProfile,
         Profile!Handlers
<1>2. PICK c \in Profile!Profile : c = request[r].copy
  BY <1>1, RequestIsTyped
<1>3. profile \in Profile!Profile /\ archived \in BOOLEAN /\ sinceOff \in Nat
  BY <1>1, RequestIsTyped
<1>4. ASSUME NEW p \in Profile!Profile PROVE Profile!Strength(p) \in 0 .. 20
  BY ProfileFields DEF Profile!Strength
<1>5. ASSUME NEW b \in BOOLEAN, Profile!UpdateEducation(r, b) PROVE ProfileInv'
  <2>1. PICK n : n = [c EXCEPT !.education = b]
    OBVIOUS
  <2>2. n \in Profile!Profile /\ n.saved = c.saved /\ n.dismissed = c.dismissed
    BY <2>1 DEF Profile!Profile
  <2>3. PICK strength \in 0 .. 20 : strength = Profile!Strength(n)
    BY <1>4, <2>2
  <2>4. PICK new : new = [n EXCEPT !.strength = strength]
    OBVIOUS
  <2>5. new \in Profile!Profile /\ new.saved = c.saved /\ new.dismissed = c.dismissed
    BY <2>2, <2>4 DEF Profile!Profile
  <2>6. archived' = archived
    BY <1>5 DEF Profile!UpdateEducation
  <2>7. \/ profile' = Profile!Bumped(Profile!Merged(c, new)) /\ Profile!Answered(r, kept, sinceOff)
        \/ Profile!VersionError(r, c)
    BY <1>2, <1>5, <2>1, <2>3, <2>4 DEF Profile!UpdateEducation
  <2> QED
    BY <1>1, <1>3, <2>5, <2>6, <2>7, FieldsSaved, SaveRefused
<1>6. ASSUME NEW b \in BOOLEAN, NEW other \in BOOLEAN, Profile!UpdateAutoApplySettings(r, b, other) PROVE ProfileInv'
  <2>1. PICK off \in Nat : Profile!Answered(r, kept, off)
    <3>1. Profile!Answered(r, kept, IF b THEN sinceOff ELSE 0) /\ (IF b THEN sinceOff ELSE 0) \in Nat
      BY <1>3, <1>6 DEF Profile!UpdateAutoApplySettings
    <3> QED
      BY <3>1
  <2>2. CASE b /\ archived /\ ~other
    <3>1. UNCHANGED <<profile, archived>>
      BY <1>6, <2>2 DEF Profile!UpdateAutoApplySettings
    <3> QED
      BY <1>1, <2>1, <3>1, RequestIsTyped, RequestAnswered
  <2>3. CASE ~(b /\ archived /\ ~other)
    <3>1. PICK new : new = [c EXCEPT !.auto = b]
      OBVIOUS
    <3>2. new \in Profile!Profile /\ new.saved = c.saved /\ new.dismissed = c.dismissed
      BY <3>1 DEF Profile!Profile
    <3>3. profile' = Profile!Merged(c, new) /\ archived' \in BOOLEAN
      BY <1>2, <1>6, <2>3, <3>1 DEF Profile!UpdateAutoApplySettings
    <3> QED
      BY <1>1, <2>1, <3>2, <3>3, FieldsSaved
  <2> QED
    BY <2>2, <2>3
<1>7. CASE Profile!VerifyOtp(r)
  <2>1. PICK n : n = [c EXCEPT !.emailVerified = TRUE]
    OBVIOUS
  <2>2. n \in Profile!Profile /\ n.saved = c.saved /\ n.dismissed = c.dismissed
    BY <2>1 DEF Profile!Profile
  <2>3. PICK strength \in 0 .. 20 : strength = Profile!Strength(n)
    BY <1>4, <2>2
  <2>4. PICK new : new = [n EXCEPT !.strength = strength]
    OBVIOUS
  <2>5. new \in Profile!Profile /\ new.saved = c.saved /\ new.dismissed = c.dismissed
    BY <2>2, <2>4 DEF Profile!Profile
  <2>6. archived' = archived /\ profile' = Profile!Merged(c, new) /\ Profile!Answered(r, kept, sinceOff)
    BY <1>2, <1>7, <2>1, <2>3, <2>4 DEF Profile!VerifyOtp
  <2> QED
    BY <1>1, <1>3, <2>5, <2>6, FieldsSaved
<1>8. CASE Profile!GetFullProfile(r)
  <2>1. PICK strength \in 0 .. 20 : strength = Profile!Strength(c)
    BY <1>4
  <2>2. PICK new : new = [c EXCEPT !.strength = strength]
    OBVIOUS
  <2>3. new \in Profile!Profile /\ new.saved = c.saved /\ new.dismissed = c.dismissed
    BY <2>2 DEF Profile!Profile
  <2>4. archived' = archived /\ profile' = Profile!Merged(c, new) /\ Profile!Answered(r, kept, sinceOff)
    BY <1>2, <1>8, <2>1, <2>2 DEF Profile!GetFullProfile
  <2> QED
    BY <1>1, <1>3, <2>3, <2>4, FieldsSaved
<1>9. ASSUME NEW skills \in SUBSET Skills, Profile!UpdateProfile(r, skills) PROVE ProfileInv'
  <2>1. PICK new : new = [profile EXCEPT !.skills = skills]
    OBVIOUS
  <2>2. new \in Profile!Profile /\ new.v = profile.v /\ new.saved = profile.saved /\ new.dismissed = profile.dismissed
    BY <1>3, <2>1 DEF Profile!Profile
  <2>3. archived' = archived
    BY <1>9 DEF Profile!UpdateProfile
  <2>4. \/ profile' = Profile!Bumped(new) /\ Profile!Answered(r, kept, sinceOff)
        \/ Profile!VersionError(r, c)
    BY <1>2, <1>9, <2>1 DEF Profile!UpdateProfile
  <2>5. CASE profile' = Profile!Bumped(new) /\ Profile!Answered(r, kept, sinceOff)
    <3>1. profile' \in Profile!Profile /\ profile'.v = profile.v + 1 /\ profile'.saved = profile.saved /\ profile'.dismissed = profile.dismissed
      BY <2>2, <2>5, BumpedKeeps
    <3> QED
      BY <1>1, <1>3, <2>3, <2>5, <3>1, RequestIsTyped, RequestAnswered
  <2> QED
    BY <1>1, <1>3, <2>3, <2>4, <2>5, SaveRefused
<1> QED
  BY <1>5, <1>6, <1>7, <1>8, <1>9

LEMMA ProfileRead ==
    ASSUME ProfileInv, ProfileBounds, NEW r \in Requests, NEW h \in Profile!Handlers, NEW j \in Jobs, Profile!Read(r, h, j)
    PROVE  ProfileInv'
<1>1. PICK x \in Saves \cup Edits : request' = [request EXCEPT ![r] = x] /\ x.copy = profile
  <2>1. profile \in Profile!Profile
    BY DEF ProfileInv, ProfileTypes
  <2>2. CASE h \in {"save", "dismiss"}
    <3>1. request' = [request EXCEPT ![r] = [at |-> h, copy |-> profile, job |-> j]]
      BY <2>2 DEF Profile!Read
    <3>2. [at |-> h, copy |-> profile, job |-> j] \in Saves /\ [at |-> h, copy |-> profile, job |-> j].copy = profile
      BY <2>1, <2>2 DEF Saves
    <3> QED
      BY <3>1, <3>2
  <2>3. CASE h \notin {"save", "dismiss"}
    <3>1. request' = [request EXCEPT ![r] = [at |-> h, copy |-> profile]]
      BY <2>3 DEF Profile!Read
    <3>2. [at |-> h, copy |-> profile] \in Edits /\ [at |-> h, copy |-> profile].copy = profile
      BY <2>1, <2>3 DEF Edits, Profile!Handlers
    <3> QED
      BY <3>1, <3>2
  <2> QED
    BY <2>2, <2>3
<1>2. UNCHANGED <<profile, archived, published, applied, sweep, kept, sinceOff>> /\ ops < MaxOps /\ ops' = ops + 1
  BY DEF Profile!Read
<1>3. request' \in [Requests -> {Profile!Idle} \cup Saves \cup Edits] /\ request'[r] = x
      /\ \A q \in Requests : q # r => request'[q] = request[q]
  BY <1>1 DEF ProfileInv, ProfileTypes
<1>4. ops' \in 0 .. MaxOps
  BY <1>2 DEF ProfileInv, ProfileTypes, ProfileBounds
<1>5. ProfileTypes'
  BY <1>2, <1>3, <1>4 DEF ProfileInv, ProfileTypes
<1>6. CopyIsBehind(profile)
  BY ProfileFields DEF CopyIsBehind, ProfileInv, ProfileTypes
<1>7. CopiesAreBehind'
  BY <1>1, <1>2, <1>3, <1>6 DEF ProfileInv, CopiesAreBehind, CopyIsBehind
<1>8. Profile!AnswersAreKept'
  BY <1>2 DEF ProfileInv, Profile!AnswersAreKept
<1> QED
  BY <1>5, <1>7, <1>8 DEF ProfileInv

LEMMA ProfileStep == ASSUME ProfileBounds, ProfileInv, [Profile!Next]_(Profile!vars) PROVE ProfileInv'
<1>1. ASSUME UNCHANGED <<profile, request, kept, ops>>, archived' \in BOOLEAN, published' \in SUBSET Jobs, sinceOff' \in Nat,
             applied' \in [Jobs -> {"none", "self", "auto"}], sweep' \in [Sweeps -> {Profile!Idle} \cup NightRounds]
      PROVE  ProfileInv'
  BY <1>1 DEF ProfileInv, ProfileTypes, CopiesAreBehind, CopyIsBehind, Profile!AnswersAreKept
<1>2. archived \in BOOLEAN /\ published \in SUBSET Jobs /\ sinceOff \in Nat /\ applied \in [Jobs -> {"none", "self", "auto"}]
      /\ sweep \in [Sweeps -> {Profile!Idle} \cup NightRounds] /\ profile \in Profile!Profile
  BY DEF ProfileInv, ProfileTypes
<1>3. ASSUME NEW s \in Sweeps, Profile!SweepFind(s) PROVE ProfileInv'
  <2>1. [at |-> "found", copy |-> profile, ranked |-> {}] \in NightRounds
    BY <1>2 DEF NightRounds
  <2>2. sweep' \in [Sweeps -> {Profile!Idle} \cup NightRounds]
    BY <1>2, <1>3, <2>1 DEF Profile!SweepFind
  <2> QED
    BY <1>1, <1>2, <1>3, <2>2 DEF Profile!SweepFind
<1>4. ASSUME NEW s \in Sweeps, Profile!SweepRank(s) PROVE ProfileInv'
  <2>1. UNCHANGED <<profile, archived, published, applied, request, kept, sinceOff, ops>> /\ sweep[s].at = "found"
    BY <1>4 DEF Profile!SweepRank
  <2>2. PICK round \in NightRounds : round = sweep[s]
    BY <1>2, <2>1 DEF Profile!Idle
  <2>3. sweep' = [sweep EXCEPT ![s] = Profile!Idle] \/ \E top \in SUBSET Jobs : sweep' = [sweep EXCEPT ![s] = [round EXCEPT !.at = "apply", !.ranked = top]]
    <3>1. CASE archived
      BY <1>4, <3>1 DEF Profile!SweepRank
    <3>2. CASE ~archived
      <4>1. PICK top \in SUBSET {j \in published : applied[j] = "none" /\ j \notin sweep[s].copy.dismissed /\ Profile!HasProfileMatch(j, sweep[s].copy)} :
                sweep' = [sweep EXCEPT ![s] = [@ EXCEPT !.at = "apply", !.ranked = top]]
        BY <1>4, <3>2, Zenon DEF Profile!SweepRank
      <4>2. top \in SUBSET Jobs
        BY <1>2
      <4>3. sweep' = [sweep EXCEPT ![s] = [round EXCEPT !.at = "apply", !.ranked = top]]
        BY <2>2, <4>1
      <4> QED
        BY <4>2, <4>3
    <3> QED
      BY <3>1, <3>2
  <2>4. ASSUME NEW top \in SUBSET Jobs PROVE [round EXCEPT !.at = "apply", !.ranked = top] \in NightRounds
    BY DEF NightRounds
  <2>5. sweep' \in [Sweeps -> {Profile!Idle} \cup NightRounds]
    BY <1>2, <2>3, <2>4
  <2> QED
    BY <1>1, <1>2, <2>1, <2>5
<1>5. ASSUME NEW s \in Sweeps, NEW j \in Jobs, Profile!SweepApply(s, j) PROVE ProfileInv'
  <2>1. sweep[s].at = "apply" /\ UNCHANGED <<profile, archived, published, request, kept, ops>>
    BY <1>5 DEF Profile!SweepApply
  <2>2. PICK round \in NightRounds : round = sweep[s]
    BY <1>2, <2>1 DEF Profile!Idle
  <2>3. PICK left \in SUBSET Jobs : left = round.ranked \ {j}
    BY DEF NightRounds
  <2>4. sweep' = [sweep EXCEPT ![s] = [round EXCEPT !.ranked = left]]
    BY <1>5, <2>2, <2>3 DEF Profile!SweepApply
  <2>5. [round EXCEPT !.ranked = left] \in NightRounds
    BY DEF NightRounds
  <2>6. sweep' \in [Sweeps -> {Profile!Idle} \cup NightRounds]
    BY <1>2, <2>4, <2>5
  <2>7. applied' \in [Jobs -> {"none", "self", "auto"}] /\ sinceOff' \in Nat
    BY <1>2, <1>5 DEF Profile!SweepApply
  <2> QED
    BY <1>1, <1>2, <2>1, <2>6, <2>7
<1>6. ASSUME NEW s \in Sweeps, Profile!SweepEnd(s) PROVE ProfileInv'
  BY <1>1, <1>2, <1>6 DEF Profile!SweepEnd
<1>7. CASE Profile!Archive \/ \E j \in Jobs : Profile!CloseJob(j) \/ Profile!Apply(j)
  BY <1>1, <1>2, <1>7 DEF Profile!Archive, Profile!CloseJob, Profile!Apply, Profile!Elsewhere
<1>8. CASE UNCHANGED Profile!vars
  BY <1>1, <1>2, <1>8 DEF Profile!vars
<1>9. ASSUME NEW r \in Requests,
             \/ Profile!ToggleSavedJob(r) \/ Profile!DismissRecommendedJob(r) \/ \E h \in Profile!Handlers, j \in Jobs : Profile!Read(r, h, j)
      PROVE  ProfileInv'
  BY <1>9, JobSaved, JobDismissed, ProfileRead
<1>10. ASSUME NEW r \in Requests,
             \/ \E b \in BOOLEAN : Profile!UpdateEducation(r, b) \/ \E other \in BOOLEAN : Profile!UpdateAutoApplySettings(r, b, other)
             \/ Profile!VerifyOtp(r) \/ Profile!GetFullProfile(r) \/ \E new \in SUBSET Skills : Profile!UpdateProfile(r, new)
       PROVE ProfileInv'
  BY <1>10, ProfileEdited
<1> QED
  BY <1>3, <1>4, <1>5, <1>6, <1>7, <1>8, <1>9, <1>10 DEF Profile!Next

(* The profile, the copies requests and sweeps hold of it and the
   applications made on the candidate's behalf keep their types.             *)
THEOREM ProfileIsTyped == ASSUME ProfileBounds PROVE Profile!Spec => []Profile!TypeOK
<1>1. Profile!Init => ProfileInv
  BY ProfileInit
<1>2. ProfileInv /\ [Profile!Next]_(Profile!vars) => ProfileInv'
  BY ProfileStep
<1>3. ProfileInv => Profile!TypeOK
  <2> SUFFICES ASSUME ProfileInv PROVE Profile!TypeOK
    OBVIOUS
  <2>1. \A r \in Requests : request[r] = Profile!Idle \/ (request[r].at \in Profile!Handlers /\ request[r].copy \in Profile!Profile)
    BY DEF ProfileInv, ProfileTypes, Saves, Edits, Profile!Handlers
  <2>2. \A s \in Sweeps : sweep[s] = Profile!Idle \/ (sweep[s].copy \in Profile!Profile /\ sweep[s].ranked \subseteq Jobs)
    BY DEF ProfileInv, ProfileTypes, NightRounds
  <2> QED
    BY <2>1, <2>2 DEF ProfileInv, ProfileTypes, Profile!TypeOK
<1> QED
  BY <1>1, <1>2, <1>3, PTL DEF Profile!Spec

(* A job the candidate was told is saved or dismissed stays so, whatever
   the other tabs and the hourly sweep save over the profile
   (toggleSavedJob, dismissRecommendedJob, runAutoApplySweep).               *)
THEOREM AnswersStayKept == ASSUME ProfileBounds PROVE Profile!Spec => []Profile!AnswersAreKept
<1>1. Profile!Init => ProfileInv
  BY ProfileInit
<1>2. ProfileInv /\ [Profile!Next]_(Profile!vars) => ProfileInv'
  BY ProfileStep
<1>3. ProfileInv => Profile!AnswersAreKept
  BY DEF ProfileInv
<1> QED
  BY <1>1, <1>2, <1>3, PTL DEF Profile!Spec

-----------------------------------------------------------------------------
(* Off means off.                                                            *)

SweepBounds == ProfileBounds /\ Limit \in Nat /\ IsFiniteSet(Jobs) /\ IsFiniteSet(Sweeps)

(* What the sweeps under way may still apply to, one pair for each
   application: as many as a sweep makes at most, or those it has ranked.    *)
StillToCome ==
    {x \in Sweeps \X (1 .. Limit) :
        sweep[x[1]].at = "found" \/ (sweep[x[1]].at = "apply" /\ x[2] <= Cardinality(sweep[x[1]].ranked))}

OffInv ==
    /\ \A s \in Sweeps : sweep[s].at = "apply" => Cardinality(sweep[s].ranked) <= Limit
    /\ ~profile.auto => sinceOff + Cardinality(StillToCome) <= Limit * Cardinality(Sweeps)

LEMMA StillToComeIsBounded ==
    ASSUME SweepBounds
    PROVE  /\ IsFiniteSet(StillToCome) /\ Cardinality(StillToCome) \in Nat
           /\ Cardinality(StillToCome) <= Limit * Cardinality(Sweeps) /\ Limit * Cardinality(Sweeps) \in Nat
<1>1. IsFiniteSet(1 .. Limit) /\ Cardinality(1 .. Limit) = Limit
  BY FS_Interval DEF SweepBounds
<1>2. /\ IsFiniteSet(Sweeps \X (1 .. Limit))
      /\ Cardinality(Sweeps \X (1 .. Limit)) = Cardinality(Sweeps) * Cardinality(1 .. Limit)
  BY <1>1, FS_Product DEF SweepBounds
<1>3. PICK n \in Nat : n = Cardinality(Sweeps)
  BY FS_CardinalityType DEF SweepBounds
<1>4. Cardinality(Sweeps \X (1 .. Limit)) = Limit * Cardinality(Sweeps) /\ Limit * Cardinality(Sweeps) \in Nat
  BY <1>1, <1>2, <1>3 DEF SweepBounds
<1>5. StillToCome \in SUBSET (Sweeps \X (1 .. Limit))
  BY DEF StillToCome
<1>6. IsFiniteSet(StillToCome) /\ Cardinality(StillToCome) <= Cardinality(Sweeps \X (1 .. Limit))
  BY <1>2, <1>5, FS_Subset
<1> QED
  BY <1>4, <1>6, FS_CardinalityType

LEMMA RankedIsFinite ==
    ASSUME SweepBounds, NEW S \in SUBSET Jobs
    PROVE  IsFiniteSet(S) /\ Cardinality(S) \in Nat
BY FS_Subset, FS_CardinalityType DEF SweepBounds

LEMMA OffInit == ASSUME Profile!Init, SweepBounds PROVE OffInv
<1>1. \A s \in Sweeps : sweep[s].at = "idle"
  BY DEF Profile!Init, Profile!Idle
<1>2. StillToCome = {}
  BY <1>1 DEF StillToCome
<1>3. sinceOff = 0
  BY DEF Profile!Init
<1> QED
  BY <1>1, <1>2, <1>3, FS_EmptySet, StillToComeIsBounded DEF OffInv

(* A sweep goes on to fewer applications.                                    *)
LEMMA LessToCome ==
    ASSUME ProfileInv, OffInv, SweepBounds, NEW s \in Sweeps, NEW round,
           sweep' = [sweep EXCEPT ![s] = round], UNCHANGED <<profile, sinceOff>>,
           \/ round.at = "idle"
           \/ round.at = "apply" /\ sweep[s].at = "found" /\ Cardinality(round.ranked) <= Limit
    PROVE  OffInv'
<1>1. sweep'[s] = round /\ \A t \in Sweeps : t # s => sweep'[t] = sweep[t]
  BY DEF ProfileInv, ProfileTypes
<1>2. StillToCome' \subseteq StillToCome
  BY <1>1 DEF StillToCome
<1>3. Cardinality(StillToCome') <= Cardinality(StillToCome)
  BY <1>2, StillToComeIsBounded, FS_Subset
<1>4. Cardinality(StillToCome) \in Nat /\ Cardinality(StillToCome') \in Nat
  BY <1>2, StillToComeIsBounded, FS_Subset, FS_CardinalityType
<1>5. sinceOff \in Nat /\ Limit * Cardinality(Sweeps) \in Nat
  BY StillToComeIsBounded DEF ProfileInv, ProfileTypes
<1>6. \A t \in Sweeps : sweep'[t].at = "apply" => Cardinality(sweep'[t].ranked) <= Limit
  BY <1>1 DEF OffInv
<1>7. ~profile.auto => sinceOff + Cardinality(StillToCome') <= Limit * Cardinality(Sweeps)
  BY <1>3, <1>4, <1>5 DEF OffInv
<1> QED
  BY <1>6, <1>7 DEF OffInv

LEMMA OneApplied == ASSUME ProfileInv, OffInv, SweepBounds, NEW s \in Sweeps, NEW j \in Jobs, Profile!SweepApply(s, j) PROVE OffInv'
<1>1. sweep[s].at = "apply" /\ j \in sweep[s].ranked /\ profile' = profile /\ sinceOff' \in {sinceOff, sinceOff + 1}
  BY DEF Profile!SweepApply
<1>2. PICK round \in NightRounds : round = sweep[s]
  BY <1>1 DEF ProfileInv, ProfileTypes, Profile!Idle
<1>3. PICK left \in SUBSET Jobs : left = round.ranked \ {j}
  BY DEF NightRounds
<1>4. sweep' = [sweep EXCEPT ![s] = [round EXCEPT !.ranked = left]]
  BY <1>2, <1>3 DEF Profile!SweepApply
<1>5. sweep'[s].at = "apply" /\ sweep'[s].ranked = left /\ \A t \in Sweeps : t # s => sweep'[t] = sweep[t]
  <2>1. [round EXCEPT !.ranked = left].at = "apply" /\ [round EXCEPT !.ranked = left].ranked = left
    BY <1>1, <1>2 DEF NightRounds
  <2> QED
    BY <1>4, <2>1 DEF ProfileInv, ProfileTypes
<1>6. PICK n \in Nat : n = Cardinality(round.ranked)
  BY RankedIsFinite DEF NightRounds
<1>7. Cardinality(left) = n - 1 /\ Cardinality(left) \in Nat
  BY <1>1, <1>2, <1>3, <1>6, RankedIsFinite, FS_RemoveElement DEF NightRounds
<1>8. n \in 1 .. Limit
  BY <1>1, <1>2, <1>6, <1>7 DEF OffInv, SweepBounds
<1>9. <<s, n>> \in StillToCome
  BY <1>1, <1>2, <1>6, <1>8 DEF StillToCome
<1>10. StillToCome' \subseteq StillToCome \ {<<s, n>>}
  <2> SUFFICES ASSUME NEW x \in StillToCome' PROVE x \in StillToCome /\ x # <<s, n>>
    OBVIOUS
  <2>1. PICK t \in Sweeps, k \in 1 .. Limit : x = <<t, k>> /\ (sweep'[t].at = "found" \/ (sweep'[t].at = "apply" /\ k <= Cardinality(sweep'[t].ranked)))
    BY DEF StillToCome
  <2>2. CASE t = s
    <3>1. k <= n - 1 /\ k # n
      BY <1>5, <1>7, <2>1, <2>2
    <3>2. k <= Cardinality(sweep[s].ranked)
      BY <1>2, <1>6, <3>1
    <3> QED
      BY <1>1, <2>1, <2>2, <3>1, <3>2 DEF StillToCome
  <2>3. CASE t # s
    BY <1>5, <2>1, <2>3 DEF StillToCome
  <2> QED
    BY <2>2, <2>3
<1>11. /\ IsFiniteSet(StillToCome \ {<<s, n>>})
       /\ Cardinality(StillToCome \ {<<s, n>>}) = Cardinality(StillToCome) - 1
  BY <1>9, StillToComeIsBounded, FS_RemoveElement
<1>12. Cardinality(StillToCome') <= Cardinality(StillToCome) - 1 /\ Cardinality(StillToCome') \in Nat
  BY <1>10, <1>11, FS_Subset, FS_CardinalityType
<1>13. \A t \in Sweeps : sweep'[t].at = "apply" => Cardinality(sweep'[t].ranked) <= Limit
  BY <1>5, <1>6, <1>7, <1>8 DEF OffInv, SweepBounds
<1>14. sinceOff \in Nat /\ Limit * Cardinality(Sweeps) \in Nat /\ Cardinality(StillToCome) \in Nat
  BY StillToComeIsBounded DEF ProfileInv, ProfileTypes
<1>15. ~profile.auto => sinceOff' + Cardinality(StillToCome') <= Limit * Cardinality(Sweeps)
  BY <1>1, <1>12, <1>14 DEF OffInv
<1> QED
  BY <1>1, <1>13, <1>15 DEF OffInv

-----------------------------------------------------------------------------
(* Who turns it off, and who does not.                                       *)

LEMMA AutoInFields ==
    ASSUME profile \in Profile!Profile, NEW c \in Profile!Profile, NEW new \in Profile!Profile
    PROVE  Profile!Merged(c, new).auto = IF new.auto # c.auto THEN new.auto ELSE profile.auto
<1> DEFINE Fields == {"v", "skills", "saved", "dismissed", "auto", "education", "emailVerified", "strength"}
<1>1. DOMAIN profile = Fields
  BY DEF Profile!Profile
<1> QED
  BY <1>1 DEF Profile!Merged

LEMMA BumpedAuto == ASSUME NEW p, "auto" \in DOMAIN p PROVE Profile!Bumped(p).auto = p.auto
BY DEF Profile!Bumped

LEMMA AutoIsSet ==
    ASSUME ProfileInv, NEW r \in Requests, NEW b \in BOOLEAN, NEW other \in BOOLEAN, Profile!UpdateAutoApplySettings(r, b, other)
    PROVE  sweep' = sweep /\ ((sinceOff' = sinceOff /\ (profile.auto => profile'.auto)) \/ sinceOff' = 0)
<1>1. request[r].at \in Profile!Handlers /\ sweep' = sweep /\ sinceOff' = IF b THEN sinceOff ELSE 0
  BY DEF Profile!UpdateAutoApplySettings, Profile!Answered, Profile!Handlers
<1>2. PICK c \in Profile!Profile : c = request[r].copy
  BY <1>1, RequestIsTyped
<1>3. PICK new : new = [c EXCEPT !.auto = b]
  OBVIOUS
<1>4. new \in Profile!Profile /\ new.auto = b
  BY <1>3 DEF Profile!Profile
<1>5. profile' = profile \/ profile' = Profile!Merged(c, new)
  BY <1>2, <1>3 DEF Profile!UpdateAutoApplySettings
<1>6. profile \in Profile!Profile
  BY DEF ProfileInv, ProfileTypes
<1>7. profile'.auto \in {b, profile.auto}
  BY <1>2, <1>4, <1>5, <1>6, AutoInFields
<1>8. b /\ profile.auto => profile'.auto
  BY <1>7, Zenon
<1> QED
  BY <1>1, <1>8

LEMMA AutoIsLeft ==
    ASSUME ProfileInv, NEW r \in Requests,
           \/ \E b \in BOOLEAN : Profile!UpdateEducation(r, b)
           \/ Profile!ToggleSavedJob(r) \/ Profile!DismissRecommendedJob(r) \/ Profile!VerifyOtp(r) \/ Profile!GetFullProfile(r)
           \/ \E new \in SUBSET Skills : Profile!UpdateProfile(r, new)
    PROVE  sweep' = sweep /\ sinceOff' = sinceOff /\ profile'.auto = profile.auto
<1>1. request[r].at \in Profile!Handlers
  BY DEF Profile!UpdateEducation, Profile!ToggleSavedJob, Profile!DismissRecommendedJob, Profile!VerifyOtp, Profile!GetFullProfile,
         Profile!UpdateProfile, Profile!Handlers
<1>2. sweep' = sweep /\ sinceOff' = sinceOff
  BY DEF Profile!UpdateEducation, Profile!ToggleSavedJob, Profile!DismissRecommendedJob, Profile!VerifyOtp, Profile!GetFullProfile,
         Profile!UpdateProfile, Profile!VersionError, Profile!Answered
<1>3. PICK c \in Profile!Profile : c = request[r].copy
  BY <1>1, RequestIsTyped
<1>4. profile \in Profile!Profile /\ "auto" \in DOMAIN profile
  BY DEF ProfileInv, ProfileTypes, Profile!Profile
<1>5. ASSUME NEW p \in Profile!Profile PROVE Profile!Strength(p) \in 0 .. 20
  BY ProfileFields DEF Profile!Strength
<1>6. ASSUME NEW n \in Profile!Profile, n.auto = c.auto,
             \/ profile' = Profile!Merged(c, [n EXCEPT !.strength = Profile!Strength(n)])
             \/ profile' = Profile!Bumped(Profile!Merged(c, [n EXCEPT !.strength = Profile!Strength(n)]))
      PROVE  profile'.auto = profile.auto
  <2>1. PICK strength \in 0 .. 20 : strength = Profile!Strength(n)
    BY <1>5
  <2>2. PICK new : new = [n EXCEPT !.strength = strength]
    OBVIOUS
  <2>3. new \in Profile!Profile /\ new.auto = c.auto
    BY <1>6, <2>2 DEF Profile!Profile
  <2>4. Profile!Merged(c, new).auto = profile.auto /\ "auto" \in DOMAIN Profile!Merged(c, new)
    BY <1>4, <2>3, AutoInFields DEF Profile!Merged, Profile!Profile
  <2>5. profile' = Profile!Merged(c, new) \/ profile' = Profile!Bumped(Profile!Merged(c, new))
    BY <1>6, <2>1, <2>2
  <2> QED
    BY <2>4, <2>5, BumpedAuto
<1>7. ASSUME NEW b \in BOOLEAN, Profile!UpdateEducation(r, b) PROVE profile'.auto = profile.auto
  <2>1. PICK n : n = [c EXCEPT !.education = b]
    OBVIOUS
  <2>2. n \in Profile!Profile /\ n.auto = c.auto
    BY <2>1 DEF Profile!Profile
  <2>3. \/ profile' = Profile!Bumped(Profile!Merged(c, [n EXCEPT !.strength = Profile!Strength(n)]))
        \/ profile' = profile
    BY <1>3, <1>7, <2>1 DEF Profile!UpdateEducation, Profile!VersionError
  <2> QED
    BY <1>6, <2>2, <2>3
<1>8. CASE Profile!VerifyOtp(r)
  <2>1. PICK n : n = [c EXCEPT !.emailVerified = TRUE]
    OBVIOUS
  <2>2. n \in Profile!Profile /\ n.auto = c.auto
    BY <2>1 DEF Profile!Profile
  <2>3. profile' = Profile!Merged(c, [n EXCEPT !.strength = Profile!Strength(n)])
    BY <1>3, <1>8, <2>1 DEF Profile!VerifyOtp
  <2> QED
    BY <1>2, <1>6, <2>2, <2>3
<1>9. CASE Profile!GetFullProfile(r)
  <2>1. profile' = Profile!Merged(c, [c EXCEPT !.strength = Profile!Strength(c)])
    BY <1>3, <1>9 DEF Profile!GetFullProfile
  <2> QED
    BY <1>2, <1>6, <2>1
<1>10. ASSUME NEW p, "auto" \in DOMAIN p, p.auto = profile.auto, profile' = Profile!Bumped(p) PROVE profile'.auto = profile.auto
  BY <1>10, BumpedAuto
<1>11. CASE Profile!ToggleSavedJob(r)
  <2>1. \/ profile' = profile \/ \E saved : profile' = Profile!Bumped([profile EXCEPT !.saved = saved])
    BY <1>11 DEF Profile!ToggleSavedJob, Profile!VersionError
  <2>2. ASSUME NEW saved, profile' = Profile!Bumped([profile EXCEPT !.saved = saved]) PROVE profile'.auto = profile.auto
    <3>1. PICK p : p = [profile EXCEPT !.saved = saved]
      OBVIOUS
    <3>2. "auto" \in DOMAIN p /\ p.auto = profile.auto /\ profile' = Profile!Bumped(p)
      BY <1>4, <2>2, <3>1
    <3> QED
      BY <1>10, <3>2
  <2> QED
    BY <1>2, <2>1, <2>2
<1>12. CASE Profile!DismissRecommendedJob(r)
  <2>1. \/ profile' = profile \/ \E gone : profile' = Profile!Bumped([profile EXCEPT !.dismissed = gone])
    BY <1>12 DEF Profile!DismissRecommendedJob, Profile!VersionError
  <2>2. ASSUME NEW gone, profile' = Profile!Bumped([profile EXCEPT !.dismissed = gone]) PROVE profile'.auto = profile.auto
    <3>1. PICK p : p = [profile EXCEPT !.dismissed = gone]
      OBVIOUS
    <3>2. "auto" \in DOMAIN p /\ p.auto = profile.auto /\ profile' = Profile!Bumped(p)
      BY <1>4, <2>2, <3>1
    <3> QED
      BY <1>10, <3>2
  <2> QED
    BY <1>2, <2>1, <2>2
<1>13. ASSUME NEW new \in SUBSET Skills, Profile!UpdateProfile(r, new) PROVE profile'.auto = profile.auto
  <2>1. "auto" \in DOMAIN [profile EXCEPT !.skills = new] /\ [profile EXCEPT !.skills = new].auto = profile.auto
    BY <1>4
  <2> QED
    BY <1>10, <1>13, <2>1 DEF Profile!UpdateProfile, Profile!VersionError
<1> QED
  BY <1>2, <1>7, <1>8, <1>9, <1>11, <1>12, <1>13

(* However the setting is saved, the bound holds when it reads "off".        *)
LEMMA OffWhenSaved ==
    ASSUME ProfileInv, OffInv, SweepBounds, sweep' = sweep,
           (sinceOff' = sinceOff /\ (profile.auto => profile'.auto)) \/ sinceOff' = 0
    PROVE  OffInv'
<1>1. StillToCome' = StillToCome
  BY DEF StillToCome
<1>2. sinceOff \in Nat /\ Limit * Cardinality(Sweeps) \in Nat /\ Cardinality(StillToCome) \in Nat
      /\ Cardinality(StillToCome) <= Limit * Cardinality(Sweeps)
  BY StillToComeIsBounded DEF ProfileInv, ProfileTypes
<1> QED
  BY <1>1, <1>2 DEF OffInv

LEMMA OffStep == ASSUME ProfileInv, OffInv, SweepBounds, [Profile!Next]_(Profile!vars) PROVE OffInv'
<1>1. ASSUME UNCHANGED <<profile, sweep, sinceOff>> PROVE OffInv'
  BY <1>1, OffWhenSaved
<1>2. ASSUME NEW s \in Sweeps, Profile!SweepFind(s) PROVE OffInv'
  <2>1. profile.auto /\ profile' = profile /\ sweep' = [sweep EXCEPT ![s] = [at |-> "found", copy |-> profile, ranked |-> {}]]
    BY <1>2 DEF Profile!SweepFind
  <2>2. \A t \in Sweeps : sweep'[t] = IF t = s THEN [at |-> "found", copy |-> profile, ranked |-> {}] ELSE sweep[t]
    BY <2>1 DEF ProfileInv, ProfileTypes
  <2> QED
    BY <2>1, <2>2 DEF OffInv
<1>3. ASSUME NEW s \in Sweeps, Profile!SweepRank(s) PROVE OffInv'
  <2>1. sweep[s].at = "found" /\ UNCHANGED <<profile, sinceOff>>
    BY <1>3 DEF Profile!SweepRank
  <2>2. CASE archived
    <3>1. sweep' = [sweep EXCEPT ![s] = Profile!Idle] /\ Profile!Idle.at = "idle"
      BY <1>3, <2>2 DEF Profile!SweepRank, Profile!Idle
    <3> QED
      BY <2>1, <3>1, LessToCome
  <2>3. CASE ~archived
    <3> DEFINE pool == {i \in published : applied[i] = "none" /\ i \notin sweep[s].copy.dismissed /\ Profile!HasProfileMatch(i, sweep[s].copy)}
    <3>1. PICK top \in SUBSET pool :
              /\ Profile!Cardinality(top) = IF Profile!Cardinality(pool) < Limit THEN Profile!Cardinality(pool) ELSE Limit
              /\ sweep' = [sweep EXCEPT ![s] = [@ EXCEPT !.at = "apply", !.ranked = top]]
      BY <1>3, <2>3, Zenon DEF Profile!SweepRank
    <3>2. pool \in SUBSET Jobs /\ top \in SUBSET Jobs
      BY DEF ProfileInv, ProfileTypes
    <3>3. \A S : Profile!Cardinality(S) = Cardinality(S)
      BY DEF Profile!Cardinality, Cardinality
    <3>4. Cardinality(top) <= Limit
      <4>1. PICK n \in Nat : n = Cardinality(pool)
        BY <3>2, RankedIsFinite
      <4>2. Cardinality(top) = IF n < Limit THEN n ELSE Limit
        BY <3>1, <3>3, <4>1
      <4> QED
        BY <4>1, <4>2 DEF SweepBounds
    <3>5. PICK round \in NightRounds : round = sweep[s]
      BY <2>1 DEF ProfileInv, ProfileTypes, Profile!Idle
    <3>6. PICK next : next = [round EXCEPT !.at = "apply", !.ranked = top]
      OBVIOUS
    <3>7. next.at = "apply" /\ next.ranked = top /\ sweep' = [sweep EXCEPT ![s] = next]
      BY <3>1, <3>5, <3>6 DEF NightRounds
    <3> QED
      BY <2>1, <3>4, <3>7, LessToCome
  <2> QED
    BY <2>2, <2>3
<1>4. ASSUME NEW s \in Sweeps, NEW j \in Jobs, Profile!SweepApply(s, j) PROVE OffInv'
  BY <1>4, OneApplied
<1>5. ASSUME NEW s \in Sweeps, Profile!SweepEnd(s) PROVE OffInv'
  <2>1. sweep' = [sweep EXCEPT ![s] = Profile!Idle] /\ Profile!Idle.at = "idle" /\ UNCHANGED <<profile, sinceOff>>
    BY <1>5 DEF Profile!SweepEnd, Profile!Idle
  <2> QED
    BY <2>1, LessToCome
<1>6. CASE Profile!Archive \/ \E j \in Jobs : Profile!CloseJob(j) \/ Profile!Apply(j)
  BY <1>1, <1>6 DEF Profile!Archive, Profile!CloseJob, Profile!Apply, Profile!Elsewhere
<1>7. ASSUME NEW r \in Requests,
             \/ \E b \in BOOLEAN : Profile!UpdateEducation(r, b)
             \/ Profile!ToggleSavedJob(r) \/ Profile!DismissRecommendedJob(r) \/ Profile!VerifyOtp(r) \/ Profile!GetFullProfile(r)
             \/ \E new \in SUBSET Skills : Profile!UpdateProfile(r, new)
      PROVE  OffInv'
  <2>1. sweep' = sweep /\ sinceOff' = sinceOff /\ profile'.auto = profile.auto
    BY <1>7, AutoIsLeft
  <2> QED
    BY <2>1, OffWhenSaved
<1>8. ASSUME NEW r \in Requests, NEW b \in BOOLEAN, NEW other \in BOOLEAN, Profile!UpdateAutoApplySettings(r, b, other) PROVE OffInv'
  BY <1>8, AutoIsSet, OffWhenSaved
<1>9. ASSUME NEW r \in Requests, NEW h \in Profile!Handlers, NEW j \in Jobs, Profile!Read(r, h, j) PROVE OffInv'
  BY <1>1, <1>9 DEF Profile!Read
<1>10. CASE UNCHANGED Profile!vars
  BY <1>1, <1>10 DEF Profile!vars
<1> QED
  BY <1>2, <1>3, <1>4, <1>5, <1>6, <1>7, <1>8, <1>9, <1>10 DEF Profile!Next

(* Turned off is off: the sweeps that were under way still apply, each to its
   Limit at most, and no other does, however the setting and other requests
   are saved meanwhile (runAutoApplySweep, updateAutoApplySettings); and what
   requests answered stays so (toggleSavedJob, dismissRecommendedJob).       *)
THEOREM OffStaysOff == ASSUME SweepBounds PROVE Profile!Spec => []Profile!ProfileHolds
<1>1. Profile!Init => ProfileInv /\ OffInv
  BY ProfileInit, OffInit DEF SweepBounds
<1>2. ProfileInv /\ OffInv /\ [Profile!Next]_(Profile!vars) => (ProfileInv /\ OffInv)'
  BY ProfileStep, OffStep DEF SweepBounds
<1>3. ProfileInv /\ OffInv => Profile!ProfileHolds
  <2> SUFFICES ASSUME ProfileInv, OffInv PROVE Profile!ProfileHolds
    OBVIOUS
  <2>1. Profile!Cardinality(Sweeps) = Cardinality(Sweeps)
    BY DEF Profile!Cardinality, Cardinality
  <2>2. sinceOff \in Nat /\ Cardinality(StillToCome) \in Nat /\ Limit * Cardinality(Sweeps) \in Nat
    BY StillToComeIsBounded DEF ProfileInv, ProfileTypes
  <2>3. ~profile.auto => sinceOff <= Limit * Profile!Cardinality(Sweeps)
    BY <2>1, <2>2 DEF OffInv
  <2> QED
    BY <2>3 DEF Profile!ProfileHolds, Profile!OffMeansOff, ProfileInv
<1> QED
  BY <1>1, <1>2, <1>3, PTL DEF Profile!Spec

-----------------------------------------------------------------------------
(* What a candidate is told to do next.                                      *)

CONSTANTS MaxTime, Validity, StartWindow
VARIABLES now, assessment, interview

Dashboard == INSTANCE NextActions

DashboardBounds == MaxTime \in Nat /\ Validity \in Nat /\ StartWindow \in Nat

Scheduled == [status : Dashboard!Statuses, started : BOOLEAN, done : BOOLEAN, deadline : Dashboard!Times, expires : Dashboard!Times]

DashboardTypes ==
    /\ now \in 0 .. MaxTime
    /\ application \in [status : {"open", "offer_sent", "rejected"}, exit : BOOLEAN, job : BOOLEAN]
    /\ assessment \in Scheduled /\ interview \in Scheduled

(* An assessment is to be started before its link ends, is under way only once
   started, and is marked expired only unstarted and after its start window;
   an interview is marked expired only after its link has ended.             *)
LinksAreDated ==
    /\ assessment.deadline <= assessment.expires
    /\ assessment.status # "paused" /\ (assessment.status = "in_progress" => assessment.started)
    /\ assessment.status = "expired" => ~assessment.started /\ assessment.deadline < now
    /\ interview.status = "expired" => interview.expires < now

DashboardInv == DashboardTypes /\ LinksAreDated

-----------------------------------------------------------------------------
LEMMA SessionFields ==
    ASSUME NEW s \in Scheduled
    PROVE  /\ s.status \in Dashboard!Statuses /\ s.started \in BOOLEAN /\ s.done \in BOOLEAN
           /\ s.deadline \in Dashboard!Times /\ s.expires \in Dashboard!Times
  BY DEF Scheduled

LEMMA SessionMade ==
    ASSUME DashboardBounds, NEW d \in 0 .. Validity, now \in 0 .. MaxTime,
           NEW s, s = [Dashboard!NoSession EXCEPT !.status = "scheduled", !.expires = now + Validity, !.deadline = now + d]
                  \/ s = [Dashboard!NoSession EXCEPT !.status = "scheduled", !.expires = now + Validity]
    PROVE  /\ s \in Scheduled /\ s.status = "scheduled" /\ s.expires = now + Validity
           /\ s.deadline <= s.expires
<1>1. Dashboard!NoSession = [status |-> "none", started |-> FALSE, done |-> FALSE, deadline |-> 0, expires |-> 0]
  BY DEF Dashboard!NoSession
<1>2. now + Validity \in Dashboard!Times /\ now + d \in Dashboard!Times /\ 0 \in Dashboard!Times
  BY DEF DashboardBounds, Dashboard!Times
<1>3. s = [status |-> "scheduled", started |-> FALSE, done |-> FALSE, deadline |-> now + d, expires |-> now + Validity]
      \/ s = [status |-> "scheduled", started |-> FALSE, done |-> FALSE, deadline |-> 0, expires |-> now + Validity]
  BY <1>1
<1>4. s \in Scheduled
  <2>1. \A y \in Dashboard!Times : [status |-> "scheduled", started |-> FALSE, done |-> FALSE, deadline |-> y, expires |-> now + Validity] \in Scheduled
    BY <1>2 DEF Scheduled, Dashboard!Statuses
  <2> QED
    BY <1>2, <1>3, <2>1
<1>5. now \in Int /\ Validity \in Nat /\ d \in Int /\ d <= Validity
  BY DEF DashboardBounds
<1>6. s.status = "scheduled" /\ s.expires = now + Validity /\ (s.deadline = now + d \/ s.deadline = 0)
  BY <1>3
<1> QED
  BY <1>4, <1>5, <1>6

LEMMA DashboardInit == ASSUME DashboardBounds PROVE Dashboard!Init => DashboardInv
<1> SUFFICES ASSUME Dashboard!Init PROVE DashboardInv
  OBVIOUS
<1>1. Dashboard!NoSession \in Scheduled
  BY DEF DashboardBounds, Dashboard!NoSession, Scheduled, Dashboard!Statuses, Dashboard!Times
<1>2. Dashboard!NoSession.status = "none" /\ Dashboard!NoSession.deadline = 0 /\ Dashboard!NoSession.expires = 0
  BY DEF Dashboard!NoSession
<1> QED
  BY <1>1, <1>2 DEF Dashboard!Init, DashboardInv, DashboardTypes, LinksAreDated, DashboardBounds

(* A step of the assessment that leaves the clock and the interview alone.   *)
LEMMA AssessmentStep ==
    ASSUME DashboardInv, now' = now, application' = application, interview' = interview,
           assessment' \in Scheduled, assessment'.deadline <= assessment'.expires,
           assessment'.status # "paused", assessment'.status = "in_progress" => assessment'.started,
           assessment'.status = "expired" => ~assessment'.started /\ assessment'.deadline < now
    PROVE  DashboardInv'
  BY DEF DashboardInv, DashboardTypes, LinksAreDated

LEMMA InterviewStep ==
    ASSUME DashboardInv, now' = now, application' = application, assessment' = assessment,
           interview' \in Scheduled, interview'.status = "expired" => interview'.expires < now
    PROVE  DashboardInv'
  BY DEF DashboardInv, DashboardTypes, LinksAreDated

LEMMA ApplicationStep ==
    ASSUME DashboardInv, now' = now, assessment' = assessment, interview' = interview,
           NEW e \in BOOLEAN, NEW j \in BOOLEAN, NEW st \in {"open", "offer_sent", "rejected"},
           application' = [status |-> st, exit |-> e, job |-> j]
    PROVE  DashboardInv'
  BY DEF DashboardInv, DashboardTypes, LinksAreDated

LEMMA DashboardStep ==
    ASSUME DashboardBounds PROVE DashboardInv /\ [Dashboard!Next]_Dashboard!vars => DashboardInv'
<1> SUFFICES ASSUME DashboardInv, [Dashboard!Next]_Dashboard!vars PROVE DashboardInv'
  OBVIOUS
<1>t. /\ now \in 0 .. MaxTime /\ assessment \in Scheduled /\ interview \in Scheduled
      /\ application \in [status : {"open", "offer_sent", "rejected"}, exit : BOOLEAN, job : BOOLEAN]
  BY DEF DashboardInv, DashboardTypes
<1>l. LinksAreDated
  BY DEF DashboardInv
<1>f. /\ now + Validity \in Dashboard!Times /\ now + Validity \in Nat /\ now \in Nat
      /\ Dashboard!Times \subseteq Nat
  BY <1>t DEF DashboardBounds, Dashboard!Times
<1>a. /\ assessment.status \in Dashboard!Statuses /\ assessment.started \in BOOLEAN /\ assessment.done \in BOOLEAN
      /\ assessment.deadline \in Dashboard!Times /\ assessment.expires \in Dashboard!Times
  BY <1>t, SessionFields
<1>b. /\ interview.status \in Dashboard!Statuses /\ interview.started \in BOOLEAN /\ interview.done \in BOOLEAN
      /\ interview.deadline \in Dashboard!Times /\ interview.expires \in Dashboard!Times
  BY <1>t, SessionFields
<1>i. /\ now \in Int /\ assessment.deadline \in Int /\ assessment.expires \in Int
      /\ interview.deadline \in Int /\ interview.expires \in Int
  BY <1>t, <1>a, <1>b DEF Dashboard!Times
<1>1. CASE UNCHANGED Dashboard!vars
  BY <1>1 DEF Dashboard!vars, DashboardInv, DashboardTypes, LinksAreDated
<1>2. CASE Dashboard!Tick
  <2>1. /\ now' = now + 1 /\ now' \in 0 .. MaxTime
        /\ application' = application /\ assessment' = assessment /\ interview' = interview
    BY <1>2, <1>t DEF Dashboard!Tick, DashboardBounds
  <2>2. LinksAreDated'
    BY <2>1, <1>i, <1>l DEF LinksAreDated
  <2> QED
    BY <2>1, <2>2, <1>t DEF DashboardInv, DashboardTypes
<1>3. CASE Dashboard!InviteAssessment
  <2>1. now' = now /\ application' = application /\ interview' = interview
    BY <1>3 DEF Dashboard!InviteAssessment
  <2>2. PICK d \in 0 .. Validity : assessment' = [Dashboard!NoSession EXCEPT !.status = "scheduled", !.expires = now + Validity,
                                                                             !.deadline = now + d]
    <3>1. Dashboard!Lesser(StartWindow, Validity) \in 0 .. Validity
      BY DEF Dashboard!Lesser, DashboardBounds
    <3> QED
      BY <3>1, <1>3 DEF Dashboard!InviteAssessment
  <2>3. assessment' \in Scheduled /\ assessment'.status = "scheduled" /\ assessment'.deadline <= assessment'.expires
    BY <2>2, <1>t, SessionMade
  <2> QED
    BY <2>1, <2>3, AssessmentStep
<1>4. CASE Dashboard!InviteInterview
  <2>1. now' = now /\ application' = application /\ assessment' = assessment
        /\ interview' = [Dashboard!NoSession EXCEPT !.status = "scheduled", !.expires = now + Validity]
    BY <1>4 DEF Dashboard!InviteInterview
  <2>2. 0 \in 0 .. Validity
    BY DEF DashboardBounds
  <2>3. interview' \in Scheduled /\ interview'.status = "scheduled"
    BY <2>1, <2>2, <1>t, SessionMade
  <2> QED
    BY <2>1, <2>3, InterviewStep
<1>5. CASE Dashboard!StartAssessment
  <2>1. now' = now /\ application' = application /\ interview' = interview
    BY <1>5 DEF Dashboard!StartAssessment
  <2>2. CASE now > assessment.deadline
    <3>1. assessment' = [assessment EXCEPT !.status = "expired"] /\ ~assessment.started
      BY <1>5, <2>2 DEF Dashboard!StartAssessment
    <3>2. /\ assessment' \in Scheduled /\ assessment'.status = "expired" /\ assessment'.started = assessment.started
          /\ assessment'.deadline = assessment.deadline /\ assessment'.expires = assessment.expires
      BY <3>1, <1>t DEF Scheduled, Dashboard!Statuses
    <3> QED
      BY <3>1, <3>2, <2>1, <2>2, <1>l, <1>a, <1>f, AssessmentStep DEF LinksAreDated
  <2>3. CASE ~(now > assessment.deadline)
    <3>1. assessment' = [assessment EXCEPT !.status = "in_progress", !.started = TRUE]
      BY <1>5, <2>3 DEF Dashboard!StartAssessment
    <3>2. /\ assessment' \in Scheduled /\ assessment'.status = "in_progress" /\ assessment'.started
          /\ assessment'.deadline = assessment.deadline /\ assessment'.expires = assessment.expires
      BY <3>1, <1>t DEF Scheduled, Dashboard!Statuses
    <3> QED
      BY <3>2, <2>1, <1>l, AssessmentStep DEF LinksAreDated
  <2> QED
    BY <2>2, <2>3
<1>6. CASE Dashboard!EndAssessment
  <2>1. now' = now /\ application' = application /\ interview' = interview
    BY <1>6 DEF Dashboard!EndAssessment
  <2>2. \/ assessment' = [assessment EXCEPT !.status = "completed"]
        \/ ~assessment.started /\ now > assessment.expires /\ assessment' = [assessment EXCEPT !.status = "expired"]
    BY <1>6 DEF Dashboard!EndAssessment
  <2>3. /\ assessment' \in Scheduled /\ assessment'.status \in {"completed", "expired"} /\ assessment'.started = assessment.started
        /\ assessment'.deadline = assessment.deadline /\ assessment'.expires = assessment.expires
        /\ assessment'.status = "expired" => ~assessment.started /\ now > assessment.expires
    BY <2>2, <1>t DEF Scheduled, Dashboard!Statuses
  <2>4. assessment'.deadline <= assessment'.expires
    BY <2>3, <1>l DEF LinksAreDated
  <2>5. assessment'.status = "expired" => ~assessment'.started /\ assessment'.deadline < now
    BY <2>3, <1>i, <1>l DEF LinksAreDated
  <2> QED
    BY <2>1, <2>3, <2>4, <2>5, AssessmentStep
<1>7. CASE Dashboard!StartInterview
  <2>1. now' = now /\ application' = application /\ assessment' = assessment
        /\ interview' = [interview EXCEPT !.status = "in_progress", !.started = TRUE]
    BY <1>7 DEF Dashboard!StartInterview
  <2>2. interview' \in Scheduled /\ interview'.status = "in_progress"
    BY <2>1, <1>t DEF Scheduled, Dashboard!Statuses
  <2> QED
    BY <2>1, <2>2, InterviewStep
<1>8. CASE Dashboard!EndInterview
  <2>1. now' = now /\ application' = application /\ assessment' = assessment
    BY <1>8 DEF Dashboard!EndInterview
  <2>2. interview' = [interview EXCEPT !.status = "completed"] \/ interview' = [interview EXCEPT !.done = TRUE]
    BY <1>8 DEF Dashboard!EndInterview
  <2>3. interview' \in Scheduled /\ interview'.expires = interview.expires
        /\ (interview'.status = "completed" \/ interview'.status = interview.status)
    BY <2>2, <1>t DEF Scheduled, Dashboard!Statuses
  <2> QED
    BY <2>1, <2>3, <1>l, InterviewStep DEF LinksAreDated
<1>9. CASE Dashboard!OpenOwnInterview
  <2>1. now' = now /\ application' = application /\ assessment' = assessment
        /\ interview' = [interview EXCEPT !.status = "expired"] /\ now > interview.expires
    BY <1>9 DEF Dashboard!OpenOwnInterview
  <2>2. interview' \in Scheduled /\ interview'.expires = interview.expires
    BY <2>1, <1>t DEF Scheduled, Dashboard!Statuses
  <2> QED
    BY <2>1, <2>2, <1>f, <1>b, InterviewStep
<1>10. CASE Dashboard!CancelSession
  <2>1. now' = now /\ application' = application
    BY <1>10 DEF Dashboard!CancelSession
  <2>2. \/ assessment' = [assessment EXCEPT !.status = "cancelled"] /\ interview' = interview
        \/ interview' = [interview EXCEPT !.status = "cancelled"] /\ assessment' = assessment
    BY <1>10 DEF Dashboard!CancelSession
  <2>3. CASE assessment' = [assessment EXCEPT !.status = "cancelled"] /\ interview' = interview
    <3>1. /\ assessment' \in Scheduled /\ assessment'.status = "cancelled"
          /\ assessment'.deadline = assessment.deadline /\ assessment'.expires = assessment.expires
      BY <2>3, <1>t DEF Scheduled, Dashboard!Statuses
    <3> QED
      BY <3>1, <2>1, <2>3, <1>l, AssessmentStep DEF LinksAreDated
  <2>4. CASE interview' = [interview EXCEPT !.status = "cancelled"] /\ assessment' = assessment
    <3>1. interview' \in Scheduled /\ interview'.status = "cancelled"
      BY <2>4, <1>t DEF Scheduled, Dashboard!Statuses
    <3> QED
      BY <3>1, <2>1, <2>4, InterviewStep
  <2> QED
    BY <2>2, <2>3, <2>4
<1>11. ASSUME NEW own \in BOOLEAN, Dashboard!ResendAssessment(own) PROVE DashboardInv'
  <2>1. now' = now /\ application' = application /\ interview' = interview
    BY <1>11 DEF Dashboard!ResendAssessment
  <2> DEFINE st == IF assessment.status \in {"expired", "cancelled"}
                   THEN (IF assessment.started THEN "in_progress" ELSE "scheduled") ELSE assessment.status
  <2>2. assessment' = [assessment EXCEPT !.status = st, !.deadline = now + Validity, !.expires = now + Validity]
    BY <1>11 DEF Dashboard!ResendAssessment
  <2>3. /\ st \in Dashboard!Statuses /\ st # "expired" /\ st # "paused"
        /\ st = "in_progress" => assessment.started
    BY <1>a, <1>l DEF Dashboard!Statuses, LinksAreDated
  <2> HIDE DEF st
  <2>4. /\ assessment' \in Scheduled /\ assessment'.status = st /\ assessment'.started = assessment.started
        /\ assessment'.deadline = now + Validity /\ assessment'.expires = now + Validity
    BY <2>2, <2>3, <1>t, <1>f DEF Scheduled
  <2> QED
    BY <2>1, <2>3, <2>4, <1>f, AssessmentStep
<1>12. ASSUME NEW own \in BOOLEAN, Dashboard!ResendInterview(own) PROVE DashboardInv'
  <2>1. now' = now /\ application' = application /\ assessment' = assessment
        /\ interview' = [interview EXCEPT !.status = "scheduled", !.expires = now + Validity]
    BY <1>12 DEF Dashboard!ResendInterview
  <2>2. interview' \in Scheduled /\ interview'.status = "scheduled"
    BY <2>1, <1>t, <1>f DEF Scheduled, Dashboard!Statuses
  <2> QED
    BY <2>1, <2>2, InterviewStep
<1>13. CASE Dashboard!CloseRole \/ Dashboard!DeleteJob \/ Dashboard!Decide
  <2>1. now' = now /\ assessment' = assessment /\ interview' = interview
    BY <1>13 DEF Dashboard!CloseRole, Dashboard!DeleteJob, Dashboard!Decide
  <2>2. \/ application' = [application EXCEPT !.exit = TRUE] \/ application' = [application EXCEPT !.job = FALSE]
        \/ \E d \in {"offer_sent", "rejected"} : application' = [application EXCEPT !.status = d]
    BY <1>13 DEF Dashboard!CloseRole, Dashboard!DeleteJob, Dashboard!Decide
  <2>3. application' \in [status : {"open", "offer_sent", "rejected"}, exit : BOOLEAN, job : BOOLEAN]
    BY <2>2, <1>t
  <2> QED
    BY <2>1, <2>3, <1>t, <1>l DEF DashboardInv, DashboardTypes, LinksAreDated
<1> QED
  BY <1>1, <1>2, <1>3, <1>4, <1>5, <1>6, <1>7, <1>8, <1>9, <1>10, <1>11, <1>12, <1>13 DEF Dashboard!Next

-----------------------------------------------------------------------------
LEMMA WhatIsOffered ==
    ASSUME NEW s, NEW due, Dashboard!State(s, due) \in {"in_progress", "due"}
    PROVE  /\ s.status \notin {"none", "completed", "cancelled", "expired"} /\ ~s.done
           /\ ~(due <= now)
  BY DEF Dashboard!State, Dashboard!Overdue

LEMMA WhatIsMissed ==
    ASSUME NEW s, NEW due, Dashboard!State(s, due) = "missed"
    PROVE  s.status = "expired" \/ due <= now
  BY DEF Dashboard!State, Dashboard!Overdue

(* The five claims of the dashboard, of any state of the invariant.          *)
LEMMA TheDashboardIsTrue == ASSUME DashboardInv PROVE Dashboard!DashboardTellsTheTruth
<1>t. /\ now \in Int /\ assessment.deadline \in Int /\ assessment.expires \in Int /\ interview.expires \in Int
      /\ application.exit \in BOOLEAN /\ application.job \in BOOLEAN
  BY DEF DashboardInv, DashboardTypes, Scheduled, Dashboard!Times
<1>l. LinksAreDated
  BY DEF DashboardInv
<1> DEFINE ds == Dashboard!AssessmentDue(assessment)
<1>1. ASSUME Dashboard!AssessmentAction \in {"in_progress", "due"}, ~Dashboard!Exited PROVE Dashboard!AssessmentAdmits
  <2>1. /\ assessment.status \notin {"none", "completed", "cancelled", "expired"}
        /\ ~(ds <= now)
    BY <1>1, WhatIsOffered DEF Dashboard!AssessmentAction
  <2>2. ds = (IF Dashboard!Started(assessment) THEN assessment.expires ELSE assessment.deadline)
    BY DEF Dashboard!AssessmentDue
  <2> HIDE DEF ds
  <2>3. now <= assessment.expires
    BY <2>1, <2>2, <1>t, <1>l DEF LinksAreDated
  <2>4. assessment.started \/ now <= assessment.deadline
    BY <2>1, <2>2, <1>t, <1>l DEF LinksAreDated, Dashboard!Started
  <2> QED
    BY <1>1, <1>t, <2>1, <2>3, <2>4 DEF Dashboard!AssessmentAdmits, Dashboard!Loads, Dashboard!Exited
<1>2. ASSUME Dashboard!InterviewAction \in {"in_progress", "due"}, ~Dashboard!Exited PROVE Dashboard!InterviewAdmits
  <2>1. /\ interview.status \notin {"none", "completed", "cancelled", "expired"}
        /\ ~(interview.expires <= now)
    BY <1>2, WhatIsOffered DEF Dashboard!InterviewAction
  <2> QED
    BY <1>2, <1>t, <2>1 DEF Dashboard!InterviewAdmits, Dashboard!Loads, Dashboard!Exited
<1>3. ASSUME Dashboard!Missed(Dashboard!AssessmentAction), now # ds PROVE ~Dashboard!AssessmentAdmits
  <2>1. assessment.status = "expired" \/ ds <= now
    BY <1>3, WhatIsMissed DEF Dashboard!Missed, Dashboard!AssessmentAction
  <2>2. ds = (IF Dashboard!Started(assessment) THEN assessment.expires ELSE assessment.deadline)
    BY DEF Dashboard!AssessmentDue
  <2>3. now # ds
    BY <1>3
  <2> HIDE DEF ds
  <2>4. CASE assessment.status = "expired"
    BY <2>4, <1>l, <1>t DEF LinksAreDated, Dashboard!AssessmentAdmits
  <2>5. CASE ds <= now
    BY <2>5, <2>2, <2>3, <1>l, <1>t DEF LinksAreDated, Dashboard!AssessmentAdmits, Dashboard!Started
  <2> QED
    BY <2>1, <2>4, <2>5
<1>4. ASSUME Dashboard!Missed(Dashboard!InterviewAction), now # interview.expires PROVE ~Dashboard!InterviewAdmits
  <2>1. interview.status = "expired" \/ interview.expires <= now
    BY <1>4, WhatIsMissed DEF Dashboard!Missed, Dashboard!InterviewAction
  <2> QED
    BY <2>1, <1>4, <1>l, <1>t DEF LinksAreDated, Dashboard!InterviewAdmits
<1>5. ASSUME Dashboard!Primary \in {"in_progress", "due"} PROVE Dashboard!AssessmentAdmits \/ Dashboard!InterviewAdmits
  <2>1. ~Dashboard!Exited /\ ("in_progress" \in Dashboard!Owed \/ "due" \in Dashboard!Owed)
    BY <1>5 DEF Dashboard!Primary
  <2>2. Dashboard!AssessmentAction \in {"in_progress", "due"} \/ Dashboard!InterviewAction \in {"in_progress", "due"}
    BY <2>1 DEF Dashboard!Owed
  <2> QED
    BY <2>1, <2>2, <1>1, <1>2
<1> HIDE DEF ds
<1>6. Dashboard!Offered(Dashboard!AssessmentAction) => Dashboard!AssessmentAdmits
  BY <1>1 DEF Dashboard!Offered
<1>7. Dashboard!Offered(Dashboard!InterviewAction) => Dashboard!InterviewAdmits
  BY <1>2 DEF Dashboard!Offered
<1> QED
  BY <1>3, <1>4, <1>5, <1>6, <1>7, Zenon DEF Dashboard!DashboardTellsTheTruth, ds

(* The clock, the application and its two sessions keep their types.         *)
THEOREM DashboardIsTyped == ASSUME DashboardBounds PROVE Dashboard!Spec => []Dashboard!TypeOK
<1>1. DashboardInv => Dashboard!TypeOK
  BY DEF DashboardInv, DashboardTypes, Scheduled, Dashboard!TypeOK
<1> QED
  BY <1>1, DashboardInit, DashboardStep, PTL DEF Dashboard!Spec

(* What a candidate's dashboard offers the portals admit, what it calls missed
   they refuse, and the one step it puts first can be taken, however sessions
   start, expire, are resent or cancelled meanwhile (buildNextActions against
   loadOwnSession, openSession and openSessionForOwner).                     *)
THEOREM TheDashboardTellsTheTruth == ASSUME DashboardBounds PROVE Dashboard!Spec => []Dashboard!DashboardTellsTheTruth
<1>1. DashboardInv => Dashboard!DashboardTellsTheTruth
  BY TheDashboardIsTrue
<1> QED
  BY <1>1, DashboardInit, DashboardStep, PTL DEF Dashboard!Spec

-----------------------------------------------------------------------------
(* What is filed beside an interview.                                        *)

CONSTANTS Seqs, MaxClips, MaxAnswers, MaxIntents, MaxSilences, MaxObjects, Lanes
VARIABLES session, clips, answered, uploaded, silences, made

Filing == INSTANCE InterviewEvidence

EvidenceBounds == MaxAnswers \in Nat /\ MaxObjects \in Nat

Chunks == [seq : Seqs, key : Nat]
Files == [turns : SUBSET (1 .. MaxAnswers), intents : Nat, chunks : SUBSET Chunks, key : Nat, audio : SUBSET (1 .. MaxAnswers),
          status : {"none", "recording", "partial", "failed", "completed"}]
Proctorings == [consent : BOOLEAN, lost : Nat, flagged : BOOLEAN, phone : {"none", "fresh", "silent"}]
Copies == [ai : Files, rev : Nat, proctoring : Proctorings]
EvidenceSteps == {"idle", "answer", "intent", "audio", "put", "chunk", "failed", "read", "join", "partial", "delete",
                  "completed", "clip", "consent", "login", "beat", "events"}
Handlers == [step : EvidenceSteps, copy : Copies, seq : Seqs \cup {0}, key : Nat, left : SUBSET Chunks]

EvidenceTypes ==
    /\ session \in Copies
    /\ stored \in SUBSET [id : Nat, seqs : SUBSET Seqs]
    /\ req \in [Requests -> Handlers] /\ \A r \in Requests : req[r].step = "put" => req[r].seq \in Seqs
    /\ uploaded \in SUBSET Seqs /\ silences \in Nat /\ made \in 0 .. MaxObjects
    /\ \A o \in stored : o.id \in 1 .. made

Busy == {"chunk", "delete"}

(* A chunk a copy of the session still names: what lies under its name is that
   chunk, and no request is about to name something else so.                 *)
Placed(c) ==
    /\ c.key \in 1 .. made /\ \A o \in stored : o.id = c.key => o.seqs = {c.seq}
    /\ \A r \in Requests : req[r].step \in Busy => req[r].key # c.key
ChunksPlaced ==
    /\ \A c \in session.ai.chunks : Placed(c)
    /\ \A r \in Requests : \A c \in req[r].copy.ai.chunks : Placed(c)

(* A chunk that is stored and not yet saved; a joined file whose parts are being
   deleted.                                                                  *)
ChunkWaits(r) ==
    /\ req[r].key \in 1 .. made /\ req[r].seq \in Seqs
    /\ \E o \in stored : o.id = req[r].key
    /\ \A o \in stored : o.id = req[r].key => o.seqs = {req[r].seq}
PartsJoined(r) ==
    /\ req[r].key \in 1 .. made /\ req[r].left \subseteq req[r].copy.ai.chunks
    /\ \E o \in stored : o.id = req[r].key /\ \A c \in req[r].copy.ai.chunks : c.seq \in o.seqs
ObjectsWait ==
    /\ \A r \in Requests : req[r].step = "chunk" => ChunkWaits(r)
    /\ \A r \in Requests : req[r].step = "delete" => PartsJoined(r)
    /\ \A q, r \in Requests : q # r /\ req[q].step \in Busy /\ req[r].step \in Busy => req[q].key # req[r].key

(* A silence nobody has flagged is still to be counted.                      *)
SilenceKept(p) == p.lost <= silences /\ (p.phone = "silent" /\ ~p.flagged => p.lost < silences)
SilencesKept == SilenceKept(session.proctoring) /\ \A r \in Requests : SilenceKept(req[r].copy.proctoring)

AnswersInTurn ==
    /\ \E n \in 0 .. MaxAnswers : answered = 1 .. n
    /\ \A q, r \in Requests : req[q].step = "answer" => answered # 1 .. MaxAnswers /\ (req[r].step = "answer" => q = r)

EvidenceInv == EvidenceTypes /\ ChunksPlaced /\ ObjectsWait /\ SilencesKept /\ Filing!FootageSurvives

-----------------------------------------------------------------------------
LEMMA IdleHandlers ==
    /\ Filing!NoSession \in Copies /\ Filing!NoSession.ai = Filing!NotRecorded /\ Filing!NoSession.proctoring = Filing!Unproctored
    /\ Filing!NotRecorded.chunks = {}
    /\ Filing!Unproctored.lost = 0 /\ Filing!Unproctored.phone = "none"
    /\ Filing!Idle \in Handlers /\ Filing!Idle.step = "idle" /\ Filing!Idle.copy = Filing!NoSession
<1>1. Filing!NotRecorded \in Files /\ Filing!NotRecorded.chunks = {}
  BY DEF Filing!NotRecorded, Files
<1>2. Filing!Unproctored \in Proctorings /\ Filing!Unproctored.lost = 0 /\ Filing!Unproctored.phone = "none"
  BY DEF Filing!Unproctored, Proctorings
<1>3. Filing!NoSession \in Copies /\ Filing!NoSession.ai = Filing!NotRecorded /\ Filing!NoSession.proctoring = Filing!Unproctored
  BY <1>1, <1>2 DEF Filing!NoSession, Copies
<1>4. Filing!Idle \in Handlers /\ Filing!Idle.step = "idle" /\ Filing!Idle.copy = Filing!NoSession
  BY <1>3 DEF Filing!Idle, Handlers, EvidenceSteps
<1> QED
  BY <1>1, <1>2, <1>3, <1>4

LEMMA EvidenceInit == ASSUME EvidenceBounds, Filing!Init PROVE EvidenceInv
<1>1. req \in [Requests -> Handlers] /\ \A r \in Requests : req[r] = Filing!Idle
  BY IdleHandlers DEF Filing!Init
<1>2. session = Filing!NoSession /\ stored = {} /\ uploaded = {} /\ silences = 0 /\ made = 0
  BY DEF Filing!Init
<1>3. EvidenceTypes
  BY <1>1, <1>2, IdleHandlers DEF EvidenceTypes, EvidenceBounds
<1>4. ChunksPlaced /\ ObjectsWait
  BY <1>1, <1>2, IdleHandlers DEF ChunksPlaced, ObjectsWait, Busy
<1>5. SilencesKept
  BY <1>1, <1>2, IdleHandlers DEF SilencesKept, SilenceKept
<1>6. Filing!FootageSurvives
  BY <1>2 DEF Filing!FootageSurvives
<1> QED
  BY <1>3, <1>4, <1>5, <1>6 DEF EvidenceInv

(* A request that holds no object of its own goes on or writes the session: the
   chunks it names were named before.                                        *)
LEMMA NothingNewIsNamed ==
    ASSUME EvidenceInv, NEW r \in Requests, NEW x \in Handlers, req' = [req EXCEPT ![r] = x], x.step \notin Busy,
           x.step = "put" => x.seq \in Seqs,
           session' \in Copies, session'.ai.chunks \subseteq session.ai.chunks \cup req[r].copy.ai.chunks,
           x.copy.ai.chunks \subseteq session.ai.chunks \cup req[r].copy.ai.chunks,
           SilenceKept(session'.proctoring), SilenceKept(x.copy.proctoring),
           UNCHANGED <<stored, uploaded, silences, made>>
    PROVE  EvidenceInv'
<1>1. req' \in [Requests -> Handlers] /\ req'[r] = x /\ \A q \in Requests : q # r => req'[q] = req[q]
  BY DEF EvidenceInv, EvidenceTypes
<1>2. EvidenceTypes'
  BY <1>1 DEF EvidenceInv, EvidenceTypes
<1>3. ASSUME NEW c, Placed(c) PROVE Placed(c)'
  BY <1>1, <1>3 DEF Placed
<1>4. ChunksPlaced'
  BY <1>1, <1>3 DEF EvidenceInv, ChunksPlaced
<1>5. \A q \in Requests : req'[q].step \in Busy => req'[q] = req[q]
  BY <1>1
<1>6. ObjectsWait'
  BY <1>5 DEF EvidenceInv, ObjectsWait, ChunkWaits, PartsJoined, Busy
<1>7. SilencesKept'
  BY <1>1 DEF EvidenceInv, SilencesKept, SilenceKept
<1>8. Filing!FootageSurvives'
  BY DEF EvidenceInv, Filing!FootageSurvives
<1> QED
  BY <1>2, <1>4, <1>6, <1>7, <1>8 DEF EvidenceInv

(* The copy a handler begins with names what the session names.              *)
LEMMA CopiesAreRead ==
    ASSUME EvidenceInv, NEW lane \in {"answer", "recording", "intent", "audio", "clip", "consent", "phone"}
    PROVE  /\ Filing!Read(lane) \in Copies
           /\ Filing!Read(lane).ai.chunks \subseteq session.ai.chunks
           /\ SilenceKept(Filing!Read(lane).proctoring)
<1>1. session \in Copies /\ session.ai \in Files /\ session.proctoring \in Proctorings /\ session.rev \in Nat /\ silences \in Nat
  BY DEF EvidenceInv, EvidenceTypes, Copies
<1>2. SilenceKept(session.proctoring) /\ SilenceKept(Filing!Unproctored)
  BY <1>1, IdleHandlers DEF EvidenceInv, SilencesKept, SilenceKept
<1>3. PICK base \in Copies : base = Filing!NoSession
  BY IdleHandlers
<1>4. base.ai.chunks = {} /\ SilenceKept(base.proctoring) /\ base.ai \in Files
  BY <1>2, <1>3, IdleHandlers DEF Copies
<1>5. CASE lane \in {"consent", "phone"}
  <2>1. Filing!Read(lane) = [base EXCEPT !.proctoring = session.proctoring]
    BY <1>3, <1>5, Zenon DEF Filing!Read
  <2>2. /\ [base EXCEPT !.proctoring = session.proctoring] \in Copies
        /\ [base EXCEPT !.proctoring = session.proctoring].ai = base.ai
        /\ [base EXCEPT !.proctoring = session.proctoring].proctoring = session.proctoring
    BY <1>1 DEF Copies
  <2> QED
    BY <1>2, <1>4, <2>1, <2>2
<1>6. CASE lane \in {"recording", "intent"}
  <2>1. Filing!Read(lane) = [base EXCEPT !.ai = session.ai]
    BY <1>3, <1>6 DEF Filing!Read
  <2>2. /\ [base EXCEPT !.ai = session.ai] \in Copies
        /\ [base EXCEPT !.ai = session.ai].ai = session.ai
        /\ [base EXCEPT !.ai = session.ai].proctoring = base.proctoring
    BY <1>1 DEF Copies
  <2> QED
    BY <1>2, <1>4, <2>1, <2>2
<1>7. CASE lane = "audio"
  <2>1. Filing!Read(lane) = [base EXCEPT !.ai.turns = session.ai.turns, !.rev = session.rev]
    BY <1>3, <1>7 DEF Filing!Read
  <2>2. PICK turns \in SUBSET (1 .. MaxAnswers) : turns = session.ai.turns
    BY <1>1 DEF Files
  <2>3. PICK rev \in Nat : rev = session.rev
    BY <1>1
  <2>4. /\ [base EXCEPT !.ai.turns = turns, !.rev = rev].ai = [base.ai EXCEPT !.turns = turns]
        /\ [base EXCEPT !.ai.turns = turns, !.rev = rev].rev = rev
        /\ [base EXCEPT !.ai.turns = turns, !.rev = rev].proctoring = base.proctoring
        /\ [base.ai EXCEPT !.turns = turns] \in Files
        /\ [base.ai EXCEPT !.turns = turns].chunks = base.ai.chunks
        /\ [base EXCEPT !.ai.turns = turns, !.rev = rev] \in Copies
    BY <1>4 DEF Copies, Files
  <2> QED
    BY <1>2, <1>4, <2>1, <2>2, <2>3, <2>4
<1>8. CASE lane \in {"answer", "clip"}
  <2>1. Filing!Read(lane) = base
    BY <1>3, <1>8 DEF Filing!Read
  <2> QED
    BY <1>4, <2>1
<1> QED
  BY <1>5, <1>6, <1>7, <1>8
(* A handler begins: of the session it takes what it reads.                  *)
LEMMA HandlerBegins ==
    ASSUME EvidenceInv, NEW r \in Requests, NEW lane \in {"answer", "recording", "intent", "audio", "clip", "consent", "phone"},
           NEW step \in EvidenceSteps \ (Busy \cup {"put"}), Filing!Begin(r, lane, step), UNCHANGED <<session, stored, uploaded, silences, made>>
    PROVE  EvidenceInv'
<1>1. PICK copy \in Copies : copy = Filing!Read(lane)
  BY CopiesAreRead
<1>2. copy.ai.chunks \subseteq session.ai.chunks /\ SilenceKept(copy.proctoring)
  BY <1>1, CopiesAreRead
<1>3. PICK base \in Handlers : base = Filing!Idle
  BY IdleHandlers
<1>4. PICK x : x = [base EXCEPT !.step = step, !.copy = copy]
  OBVIOUS
<1>5. x \in Handlers /\ x.step = step /\ x.copy = copy
  BY <1>4 DEF Handlers, Busy
<1>6. req' = [req EXCEPT ![r] = x]
  BY <1>1, <1>3, <1>4 DEF Filing!Begin
<1>7. session \in Copies /\ SilenceKept(session.proctoring)
  BY DEF EvidenceInv, EvidenceTypes, SilencesKept
<1> QED
  BY <1>2, <1>5, <1>6, <1>7, NothingNewIsNamed DEF Busy

(* A handler ends: what it writes of the session was named before.           *)
LEMMA HandlerEnds ==
    ASSUME EvidenceInv, NEW r \in Requests, Filing!End(r), session' \in Copies,
           session'.ai.chunks \subseteq session.ai.chunks \cup req[r].copy.ai.chunks, SilenceKept(session'.proctoring),
           UNCHANGED <<stored, uploaded, silences, made>>
    PROVE  EvidenceInv'
<1>1. req' = [req EXCEPT ![r] = Filing!Idle]
  BY DEF Filing!End
<1>2. Filing!Idle.copy.ai.chunks = {} /\ SilenceKept(Filing!Idle.copy.proctoring)
  BY IdleHandlers DEF SilenceKept, EvidenceInv, EvidenceTypes
<1> QED
  BY <1>1, <1>2, IdleHandlers, NothingNewIsNamed DEF Busy

(* A handler goes on with the copy it has.                                   *)
LEMMA HandlerGoesOn ==
    ASSUME EvidenceInv, NEW r \in Requests, NEW step \in EvidenceSteps \ (Busy \cup {"put"}), Filing!Goto(r, step),
           UNCHANGED <<session, stored, uploaded, silences, made>>
    PROVE  EvidenceInv'
<1>1. PICK h \in Handlers : h = req[r]
  BY DEF EvidenceInv, EvidenceTypes
<1>2. PICK x : x = [h EXCEPT !.step = step]
  OBVIOUS
<1>3. x \in Handlers /\ x.step = step /\ x.copy = h.copy
  BY <1>2 DEF Handlers
<1>4. req' = [req EXCEPT ![r] = x]
  BY <1>1, <1>2 DEF Filing!Goto
<1>5. session \in Copies /\ SilenceKept(session.proctoring) /\ SilenceKept(h.copy.proctoring)
  BY <1>1 DEF EvidenceInv, EvidenceTypes, SilencesKept
<1> QED
  BY <1>1, <1>3, <1>4, <1>5, NothingNewIsNamed

(* What the copy of a request is made of.                                    *)
LEMMA CopyIsTyped ==
    ASSUME EvidenceInv, NEW r \in Requests
    PROVE  /\ req[r] \in Handlers /\ req[r].copy \in Copies /\ req[r].copy.ai \in Files /\ req[r].copy.proctoring \in Proctorings
           /\ session \in Copies /\ session.ai \in Files /\ session.proctoring \in Proctorings /\ session.rev \in Nat
           /\ silences \in Nat /\ made \in Nat
           /\ SilenceKept(session.proctoring) /\ SilenceKept(req[r].copy.proctoring)
<1>1. req[r] \in Handlers /\ session \in Copies /\ silences \in Nat /\ made \in Nat
  BY DEF EvidenceInv, EvidenceTypes
<1>2. req[r].copy \in Copies
  BY <1>1 DEF Handlers
<1>3. req[r].copy.ai \in Files /\ req[r].copy.proctoring \in Proctorings
  BY <1>2 DEF Copies
<1>4. session.ai \in Files /\ session.proctoring \in Proctorings /\ session.rev \in Nat
  BY <1>1 DEF Copies
<1> QED
  BY <1>1, <1>2, <1>3, <1>4 DEF EvidenceInv, SilencesKept

(* The interview's part of the session is written back.                      *)
LEMMA InterviewWritten ==
    ASSUME EvidenceInv, NEW r \in Requests, Filing!End(r), NEW files \in Files, session' = [session EXCEPT !.ai = files],
           files.chunks \subseteq session.ai.chunks \cup req[r].copy.ai.chunks, UNCHANGED <<stored, uploaded, silences, made>>
    PROVE  EvidenceInv'
<1>1. session' \in Copies /\ session'.ai = files /\ session'.proctoring = session.proctoring
  BY CopyIsTyped DEF Copies
<1> QED
  BY <1>1, CopyIsTyped, HandlerEnds

(* The proctoring of the session is written back.                            *)
LEMMA ProctoringWritten ==
    ASSUME EvidenceInv, NEW r \in Requests, Filing!End(r), NEW p \in Proctorings, session' = [session EXCEPT !.proctoring = p],
           SilenceKept(p), UNCHANGED <<stored, uploaded, silences, made>>
    PROVE  EvidenceInv'
<1>1. session' \in Copies /\ session'.proctoring = p /\ session'.ai = session.ai
  BY CopyIsTyped DEF Copies
<1> QED
  BY <1>1, CopyIsTyped, HandlerEnds

-----------------------------------------------------------------------------
(* Recording.                                                                *)
LEMMA ChunkBegins == ASSUME EvidenceInv, NEW r \in Requests, NEW n \in Seqs, Filing!StoreChunk(r, n) PROVE EvidenceInv'
<1>1. PICK copy \in Copies : copy = Filing!Read("recording")
  BY CopiesAreRead
<1>2. copy.ai.chunks \subseteq session.ai.chunks /\ SilenceKept(copy.proctoring)
  BY <1>1, CopiesAreRead
<1>3. PICK base \in Handlers : base = Filing!Idle
  BY IdleHandlers
<1>4. PICK x : x = [base EXCEPT !.step = "put", !.copy = copy, !.seq = n]
  OBVIOUS
<1>5. x \in Handlers /\ x.step = "put" /\ x.copy = copy /\ x.seq = n
  BY <1>4 DEF Handlers, EvidenceSteps
<1>6. req' = [req EXCEPT ![r] = x]
  BY <1>1, <1>3, <1>4 DEF Filing!StoreChunk
<1>7. UNCHANGED <<session, stored, uploaded, silences, made>>
  BY DEF Filing!StoreChunk
<1> QED
  BY <1>2, <1>5, <1>6, <1>7, CopyIsTyped, NothingNewIsNamed DEF Busy

LEMMA ChunkPut == ASSUME EvidenceInv, EvidenceBounds, NEW r \in Requests, Filing!PutChunk(r) PROVE EvidenceInv'
<1>1. PICK h \in Handlers : h = req[r]
  BY DEF EvidenceInv, EvidenceTypes
<1>2. PICK id \in Nat : id = made + 1 /\ id \in 1 .. MaxObjects
  BY DEF Filing!PutChunk, Filing!Put, EvidenceInv, EvidenceTypes, EvidenceBounds
<1>3. PICK x : x = [h EXCEPT !.step = "chunk", !.key = id]
  OBVIOUS
<1>4. x \in Handlers /\ x.step = "chunk" /\ x.key = id /\ x.copy = h.copy /\ x.seq = h.seq
  BY <1>2, <1>3 DEF Handlers, EvidenceSteps
<1>5. req' = [req EXCEPT ![r] = x] /\ h.step = "put" /\ UNCHANGED <<session, uploaded, silences>>
      /\ made' = id /\ stored' = stored \cup {[id |-> id, seqs |-> {h.seq}]} /\ h.seq \in Seqs
  BY <1>1, <1>2, <1>3 DEF Filing!PutChunk, Filing!Put, Filing!At, EvidenceInv, EvidenceTypes
<1>6. PICK object \in [id : Nat, seqs : SUBSET Seqs] : object = [id |-> id, seqs |-> {h.seq}]
  BY <1>5
<1>7. object.id = id /\ object.seqs = {h.seq} /\ stored' = stored \cup {object} /\ object \in stored'
  BY <1>5, <1>6
<1>8. req' \in [Requests -> Handlers] /\ req'[r] = x /\ \A q \in Requests : q # r => req'[q] = req[q]
  BY <1>4, <1>5 DEF EvidenceInv, EvidenceTypes
<1>9. made \in Nat /\ id = made + 1 /\ \A o \in stored : o.id \in 1 .. made /\ o.id # id
  BY <1>2 DEF EvidenceInv, EvidenceTypes
<1>10. EvidenceTypes'
  <2>1. stored' \in SUBSET [id : Nat, seqs : SUBSET Seqs] /\ session' \in Copies /\ uploaded' \in SUBSET Seqs /\ silences' \in Nat
    BY <1>5, <1>7, <1>9 DEF EvidenceInv, EvidenceTypes
  <2>2. made' \in 0 .. MaxObjects /\ \A o \in stored' : o.id \in 1 .. made'
    BY <1>2, <1>5, <1>7, <1>9
  <2>3. \A q \in Requests : req'[q].step = "put" => req'[q].seq \in Seqs
    BY <1>4, <1>8 DEF EvidenceInv, EvidenceTypes
  <2> QED
    BY <1>4, <1>8, <2>1, <2>2, <2>3 DEF EvidenceTypes
<1>11. ASSUME NEW c, Placed(c) PROVE Placed(c)'
  <2>1. c.key \in 1 .. made' /\ c.key # id
    BY <1>5, <1>9, <1>11 DEF Placed
  <2> QED
    BY <1>4, <1>7, <1>8, <1>11, <2>1 DEF Placed
<1>12. ChunksPlaced'
  BY <1>1, <1>4, <1>5, <1>8, <1>11 DEF EvidenceInv, ChunksPlaced
<1>13. ASSUME NEW q \in Requests, q # r, req[q].step \in Busy PROVE req'[q] = req[q] /\ req[q].key \in 1 .. made /\ req[q].key # id
  BY <1>8, <1>9, <1>13 DEF EvidenceInv, ObjectsWait, ChunkWaits, PartsJoined, Busy
<1>14. ChunkWaits(r)'
  BY <1>4, <1>5, <1>7, <1>8, <1>9 DEF ChunkWaits
<1>15. ASSUME NEW q \in Requests, q # r, req[q].step = "chunk" PROVE ChunkWaits(q)'
  BY <1>5, <1>7, <1>9, <1>13, <1>15 DEF EvidenceInv, ObjectsWait, ChunkWaits, Busy
<1>16. ASSUME NEW q \in Requests, q # r, req[q].step = "delete" PROVE PartsJoined(q)'
  BY <1>5, <1>7, <1>9, <1>13, <1>16 DEF EvidenceInv, ObjectsWait, PartsJoined, Busy
<1>17. ObjectsWait'
  BY <1>4, <1>8, <1>13, <1>14, <1>15, <1>16 DEF EvidenceInv, ObjectsWait, Busy
<1>18. SilencesKept'
  BY <1>1, <1>4, <1>5, <1>8 DEF EvidenceInv, SilencesKept, SilenceKept
<1>19. Filing!FootageSurvives'
  BY <1>5, <1>7 DEF EvidenceInv, Filing!FootageSurvives
<1> QED
  BY <1>10, <1>12, <1>17, <1>18, <1>19 DEF EvidenceInv

LEMMA ChunkSaved == ASSUME EvidenceInv, NEW r \in Requests, Filing!SaveChunk(r) PROVE EvidenceInv'
<1>1. PICK h \in Handlers : h = req[r]
  BY DEF EvidenceInv, EvidenceTypes
<1>2. h.step = "chunk" /\ ChunkWaits(r) /\ UNCHANGED <<stored, silences, made>>
  BY <1>1 DEF Filing!SaveChunk, Filing!At, EvidenceInv, ObjectsWait
<1>3. h.seq \in Seqs /\ h.key \in Nat /\ h.key \in 1 .. made
  BY <1>1, <1>2 DEF ChunkWaits, Handlers
<1>4. PICK chunk \in Chunks : chunk = [seq |-> h.seq, key |-> h.key]
  BY <1>3 DEF Chunks
<1>5. chunk.seq = h.seq /\ chunk.key = h.key
  BY <1>4
<1>6. PICK base \in Files : base = h.copy.ai
  BY <1>1, CopyIsTyped
<1>7. PICK chunks \in SUBSET Chunks : chunks = base.chunks \cup {chunk}
  BY DEF Files
<1>8. PICK files : files = [base EXCEPT !.chunks = chunks, !.status = "recording"]
  OBVIOUS
<1>9. files \in Files /\ files.chunks = chunks
  BY <1>8 DEF Files
<1>10. session' = [session EXCEPT !.ai = files] /\ uploaded' = uploaded \cup {h.seq} /\ Filing!End(r)
  BY <1>1, <1>4, <1>6, <1>7, <1>8 DEF Filing!SaveChunk, Filing!Copy
<1>11. session' \in Copies /\ session'.ai = files /\ session'.proctoring = session.proctoring
  BY <1>9, <1>10, CopyIsTyped DEF Copies
<1>12. req' \in [Requests -> Handlers] /\ req'[r] = Filing!Idle /\ \A q \in Requests : q # r => req'[q] = req[q]
  BY <1>10, IdleHandlers DEF Filing!End, EvidenceInv, EvidenceTypes
<1>13. EvidenceTypes'
  BY <1>2, <1>3, <1>10, <1>11, <1>12, IdleHandlers DEF EvidenceInv, EvidenceTypes
<1>14. ASSUME NEW c, Placed(c) PROVE Placed(c)'
  BY <1>2, <1>12, <1>14, IdleHandlers DEF Placed, Busy
<1>15. Placed(chunk)'
  <2>1. \A o \in stored' : o.id = chunk.key => o.seqs = {chunk.seq}
    BY <1>1, <1>2, <1>5 DEF ChunkWaits
  <2>2. \A q \in Requests : req'[q].step \in Busy => req'[q].key # chunk.key
    BY <1>1, <1>2, <1>5, <1>12, IdleHandlers DEF EvidenceInv, ObjectsWait, Busy
  <2> QED
    BY <1>2, <1>3, <1>5, <2>1, <2>2 DEF Placed
<1>16. \A c \in session'.ai.chunks : Placed(c)'
  BY <1>1, <1>6, <1>7, <1>9, <1>11, <1>14, <1>15 DEF EvidenceInv, ChunksPlaced
<1>17. ChunksPlaced'
  BY <1>12, <1>14, <1>16, IdleHandlers DEF EvidenceInv, ChunksPlaced
<1>18. \A q \in Requests : req'[q].step \in Busy => req'[q] = req[q]
  BY <1>12, IdleHandlers DEF Busy
<1>19. ObjectsWait'
  BY <1>2, <1>18 DEF EvidenceInv, ObjectsWait, ChunkWaits, PartsJoined, Busy
<1>20. SilencesKept'
  BY <1>2, <1>11, <1>12, IdleHandlers DEF EvidenceInv, EvidenceTypes, SilencesKept, SilenceKept
<1>21. Filing!FootageSurvives'
  BY <1>1, <1>2, <1>10 DEF EvidenceInv, Filing!FootageSurvives, ChunkWaits
<1> QED
  BY <1>13, <1>17, <1>19, <1>20, <1>21 DEF EvidenceInv

JoinedIsPut(r) ==
    /\ Filing!Join(r, made + 1)
    /\ req' = [req EXCEPT ![r].step = "delete", ![r].key = made + 1, ![r].left = Filing!ChunksOf(r)]
LEMMA RecordingPut == ASSUME EvidenceInv, EvidenceBounds, NEW r \in Requests, JoinedIsPut(r), UNCHANGED <<session, uploaded, silences>> PROVE EvidenceInv'
<1>1. PICK h \in Handlers : h = req[r]
  BY DEF EvidenceInv, EvidenceTypes
<1>2. PICK id \in Nat : id = made + 1 /\ id \in 1 .. MaxObjects
  BY DEF JoinedIsPut, Filing!Join, Filing!Put, EvidenceInv, EvidenceTypes, EvidenceBounds
<1>3. PICK parts \in SUBSET Chunks : parts = h.copy.ai.chunks
  BY <1>1, CopyIsTyped DEF Files
<1>4. PICK x : x = [h EXCEPT !.step = "delete", !.key = id, !.left = parts]
  OBVIOUS
<1>5. x \in Handlers /\ x.step = "delete" /\ x.key = id /\ x.copy = h.copy /\ x.left = parts
  BY <1>2, <1>4 DEF Handlers, EvidenceSteps
<1>6. PICK seqs \in SUBSET Seqs : seqs = {c.seq : c \in parts}
  BY DEF Chunks
<1>7. req' = [req EXCEPT ![r] = x]
  BY <1>1, <1>2, <1>3, <1>4 DEF JoinedIsPut, Filing!ChunksOf, Filing!Copy
<1>8. made' = id /\ stored' = stored \cup {[id |-> id, seqs |-> seqs]} /\ UNCHANGED <<session, uploaded, silences>>
  BY <1>1, <1>2, <1>3, <1>6 DEF JoinedIsPut, Filing!Join, Filing!Put, Filing!ChunksOf, Filing!Copy
<1>9. PICK object \in [id : Nat, seqs : SUBSET Seqs] : object = [id |-> id, seqs |-> seqs]
  OBVIOUS
<1>10. object.id = id /\ object.seqs = seqs /\ stored' = stored \cup {object} /\ object \in stored'
  BY <1>8, <1>9
<1>11. req' \in [Requests -> Handlers] /\ req'[r] = x /\ \A q \in Requests : q # r => req'[q] = req[q]
  BY <1>5, <1>7 DEF EvidenceInv, EvidenceTypes
<1>12. made \in Nat /\ id = made + 1 /\ \A o \in stored : o.id \in 1 .. made /\ o.id # id
  BY <1>2 DEF EvidenceInv, EvidenceTypes
<1>13. EvidenceTypes'
  <2>1. stored' \in SUBSET [id : Nat, seqs : SUBSET Seqs] /\ session' \in Copies /\ uploaded' \in SUBSET Seqs /\ silences' \in Nat
    BY <1>8, <1>10, <1>12 DEF EvidenceInv, EvidenceTypes
  <2>2. made' \in 0 .. MaxObjects /\ \A o \in stored' : o.id \in 1 .. made'
    BY <1>2, <1>8, <1>10, <1>12
  <2>3. \A q \in Requests : req'[q].step = "put" => req'[q].seq \in Seqs
    BY <1>5, <1>11 DEF EvidenceInv, EvidenceTypes
  <2> QED
    BY <1>5, <1>11, <2>1, <2>2, <2>3 DEF EvidenceTypes
<1>14. ASSUME NEW c, Placed(c) PROVE Placed(c)'
  <2>1. c.key \in 1 .. made' /\ c.key # id
    BY <1>8, <1>12, <1>14 DEF Placed
  <2> QED
    BY <1>5, <1>10, <1>11, <1>14, <2>1 DEF Placed
<1>15. ChunksPlaced'
  BY <1>1, <1>5, <1>8, <1>11, <1>14 DEF EvidenceInv, ChunksPlaced
<1>16. ASSUME NEW q \in Requests, q # r, req[q].step \in Busy PROVE req'[q] = req[q] /\ req[q].key \in 1 .. made /\ req[q].key # id
  BY <1>11, <1>12, <1>16 DEF EvidenceInv, ObjectsWait, ChunkWaits, PartsJoined, Busy
<1>17. PartsJoined(r)'
  <2>1. \A c \in parts : c.seq \in object.seqs
    BY <1>6, <1>10
  <2> QED
    BY <1>3, <1>5, <1>8, <1>10, <1>11, <1>12, <2>1 DEF PartsJoined
<1>18. ASSUME NEW q \in Requests, q # r, req[q].step = "chunk" PROVE ChunkWaits(q)'
  BY <1>8, <1>10, <1>12, <1>16, <1>18 DEF EvidenceInv, ObjectsWait, ChunkWaits, Busy
<1>19. ASSUME NEW q \in Requests, q # r, req[q].step = "delete" PROVE PartsJoined(q)'
  BY <1>8, <1>10, <1>12, <1>16, <1>19 DEF EvidenceInv, ObjectsWait, PartsJoined, Busy
<1>20. ObjectsWait'
  BY <1>5, <1>11, <1>16, <1>17, <1>18, <1>19 DEF EvidenceInv, ObjectsWait, Busy
<1>21. SilencesKept'
  BY <1>1, <1>5, <1>8, <1>11 DEF EvidenceInv, SilencesKept, SilenceKept
<1>22. Filing!FootageSurvives'
  BY <1>8, <1>10 DEF EvidenceInv, Filing!FootageSurvives
<1> QED
  BY <1>13, <1>15, <1>20, <1>21, <1>22 DEF EvidenceInv

(* A part is deleted when the file it was joined into is there.              *)
LEMMA PartDeleted ==
    ASSUME EvidenceInv, NEW r \in Requests, Filing!At(r, "delete"), NEW c \in req[r].left,
           stored' \in {stored, stored \ Filing!Object(c.key)}, req' = [req EXCEPT ![r].left = @ \ {c}],
           UNCHANGED <<session, uploaded, silences, made>>
    PROVE  EvidenceInv'
<1>1. PICK h \in Handlers : h = req[r]
  BY DEF EvidenceInv, EvidenceTypes
<1>2. PICK left \in SUBSET Chunks : left = h.left \ {c}
  BY DEF Handlers
<1>3. PICK x : x = [h EXCEPT !.left = left]
  OBVIOUS
<1>4. x \in Handlers /\ x.step = h.step /\ x.key = h.key /\ x.copy = h.copy /\ x.left = left /\ x.seq = h.seq
  BY <1>3 DEF Handlers
<1>5. req' = [req EXCEPT ![r] = x]
  BY <1>1, <1>2, <1>3
<1>6. req' \in [Requests -> Handlers] /\ req'[r] = x /\ \A q \in Requests : q # r => req'[q] = req[q]
  BY <1>4, <1>5 DEF EvidenceInv, EvidenceTypes
<1>7. h.step = "delete" /\ PartsJoined(r) /\ c \in h.copy.ai.chunks /\ c \in req[r].copy.ai.chunks /\ left \subseteq h.copy.ai.chunks
  BY <1>1, <1>2 DEF Filing!At, EvidenceInv, ObjectsWait, PartsJoined
<1>8. Placed(c)
  BY <1>7 DEF EvidenceInv, ChunksPlaced
<1>9. \A q \in Requests : req[q].step \in Busy => req[q].key # c.key
  BY <1>8 DEF Placed
<1>10. stored' \subseteq stored /\ \A o \in stored : o.id # c.key => o \in stored'
  BY DEF Filing!Object
<1>11. \A o \in stored : o \in stored' \/ o.seqs = {c.seq}
  BY <1>8, <1>10 DEF Placed
<1>12. EvidenceTypes'
  BY <1>1, <1>4, <1>6, <1>7, <1>10 DEF EvidenceInv, EvidenceTypes
<1>13. \A q \in Requests : req'[q].step = req[q].step /\ req'[q].key = req[q].key /\ req'[q].copy = req[q].copy /\ req'[q].seq = req[q].seq
  BY <1>1, <1>4, <1>6
<1>14. ASSUME NEW d, Placed(d) PROVE Placed(d)'
  BY <1>10, <1>13, <1>14 DEF Placed
<1>15. ChunksPlaced'
  BY <1>13, <1>14 DEF EvidenceInv, ChunksPlaced
<1>16. ASSUME NEW q \in Requests, req[q].step = "chunk" PROVE ChunkWaits(q)'
  <2>1. ChunkWaits(q) /\ req[q].key # c.key
    BY <1>9, <1>16 DEF EvidenceInv, ObjectsWait, Busy
  <2> QED
    BY <1>10, <1>13, <2>1 DEF ChunkWaits
<1>17. ASSUME NEW q \in Requests, req[q].step = "delete" PROVE PartsJoined(q)'
  <2>1. PartsJoined(q) /\ req[q].key # c.key
    BY <1>9, <1>17 DEF EvidenceInv, ObjectsWait, Busy
  <2>2. req'[q].left \subseteq req[q].copy.ai.chunks
    BY <1>1, <1>4, <1>6, <1>7, <2>1 DEF PartsJoined
  <2> QED
    BY <1>10, <1>13, <2>1, <2>2 DEF PartsJoined
<1>18. ObjectsWait'
  BY <1>13, <1>16, <1>17 DEF EvidenceInv, ObjectsWait
<1>19. SilencesKept'
  BY <1>13 DEF EvidenceInv, SilencesKept, SilenceKept
<1>20. PICK joined \in stored : joined.id = req[r].key /\ \A d \in req[r].copy.ai.chunks : d.seq \in joined.seqs
  BY <1>7 DEF PartsJoined
<1>21. joined \in stored' /\ c.seq \in joined.seqs
  BY <1>1, <1>7, <1>9, <1>10, <1>20 DEF Busy
<1>22. Filing!FootageSurvives'
  BY <1>11, <1>21 DEF EvidenceInv, Filing!FootageSurvives
<1> QED
  BY <1>12, <1>15, <1>18, <1>19, <1>22 DEF EvidenceInv

-----------------------------------------------------------------------------
(* Answers, intents, audio.                                                  *)
LEMMA AnswerSaved ==
    ASSUME EvidenceInv, AnswersInTurn, EvidenceBounds, NEW r \in Requests, Filing!SaveAnswer(r)
    PROVE  EvidenceInv' /\ \E n \in 0 .. MaxAnswers : answered' = 1 .. n
<1>1. \A S : Filing!Cardinality(S) = Cardinality(S)
  BY DEF Filing!Cardinality, Cardinality
<1>2. PICK m \in 0 .. MaxAnswers : answered = 1 .. m
  BY DEF AnswersInTurn
<1>3. Cardinality(answered) = m
  BY <1>2, FS_Interval DEF EvidenceBounds
<1>4. m # MaxAnswers
  BY <1>2 DEF Filing!SaveAnswer, Filing!At, AnswersInTurn
<1>5. PICK n \in 1 .. MaxAnswers : n = m + 1
  BY <1>2, <1>4 DEF EvidenceBounds
<1>6. PICK base \in Files : base = session.ai
  BY CopyIsTyped
<1>7. PICK turns \in SUBSET (1 .. MaxAnswers) : turns = base.turns \cup {n}
  BY DEF Files
<1>8. PICK rev \in Nat : rev = session.rev + 1
  BY CopyIsTyped
<1>9. PICK copy \in Copies : copy = session
  BY CopyIsTyped
<1>10. session' = [copy EXCEPT !.ai.turns = turns, !.rev = rev] /\ answered' = answered \cup {n}
       /\ Filing!End(r) /\ UNCHANGED <<stored, uploaded, silences, made>>
  BY <1>1, <1>3, <1>5, <1>6, <1>7, <1>8, <1>9 DEF Filing!SaveAnswer
<1>11. /\ [copy EXCEPT !.ai.turns = turns, !.rev = rev] \in Copies
       /\ [copy EXCEPT !.ai.turns = turns, !.rev = rev].ai.chunks = copy.ai.chunks
       /\ [copy EXCEPT !.ai.turns = turns, !.rev = rev].proctoring = copy.proctoring
  BY DEF Copies, Files
<1>12. EvidenceInv'
  BY <1>9, <1>10, <1>11, CopyIsTyped, HandlerEnds
<1>13. answered' = 1 .. n
  BY <1>2, <1>5, <1>10
<1> QED
  BY <1>5, <1>12, <1>13

LEMMA IntentSaved == ASSUME EvidenceInv, NEW r \in Requests, Filing!SaveIntent(r) PROVE EvidenceInv'
<1>1. PICK base \in Files : base = req[r].copy.ai
  BY CopyIsTyped
<1>2. PICK n \in Nat : n = base.intents + 1
  BY DEF Files
<1>3. PICK files : files = [base EXCEPT !.intents = n]
  OBVIOUS
<1>4. files \in Files /\ files.chunks = base.chunks
  BY <1>3 DEF Files
<1>5. session' = [session EXCEPT !.ai = files] /\ Filing!End(r) /\ UNCHANGED <<stored, uploaded, silences, made>>
  BY <1>1, <1>2, <1>3 DEF Filing!SaveIntent, Filing!Copy
<1> QED
  BY <1>1, <1>4, <1>5, InterviewWritten

LEMMA AudioSaved == ASSUME EvidenceInv, NEW r \in Requests, Filing!SaveAnswerAudio(r) PROVE EvidenceInv'
<1>1. Filing!End(r) /\ UNCHANGED <<stored, uploaded, silences, made>>
  BY DEF Filing!SaveAnswerAudio
<1>2. CASE session.rev = req[r].copy.rev
  <2>1. PICK copy \in Copies : copy = session
    BY CopyIsTyped
  <2>2. PICK turns \in SUBSET (1 .. MaxAnswers) : turns = req[r].copy.ai.turns
    BY CopyIsTyped DEF Files
  <2>3. PICK rev \in Nat : rev = session.rev + 1
    BY CopyIsTyped
  <2>4. session' = [copy EXCEPT !.ai.turns = turns, !.ai.audio = turns, !.rev = rev]
    BY <1>2, <2>1, <2>2, <2>3 DEF Filing!SaveAnswerAudio, Filing!Copy
  <2>5. /\ [copy EXCEPT !.ai.turns = turns, !.ai.audio = turns, !.rev = rev] \in Copies
        /\ [copy EXCEPT !.ai.turns = turns, !.ai.audio = turns, !.rev = rev].ai.chunks = copy.ai.chunks
        /\ [copy EXCEPT !.ai.turns = turns, !.ai.audio = turns, !.rev = rev].proctoring = copy.proctoring
    BY DEF Copies, Files
  <2> QED
    BY <1>1, <2>1, <2>4, <2>5, CopyIsTyped, HandlerEnds
<1>3. CASE session.rev # req[r].copy.rev
  <2>1. session' = session
    BY <1>3 DEF Filing!SaveAnswerAudio, Filing!Copy
  <2> QED
    BY <1>1, <2>1, CopyIsTyped, HandlerEnds
<1> QED
  BY <1>2, <1>3

(* The session is written when the recording was joined, or could not be.    *)
LEMMA RecordingSaved == ASSUME EvidenceInv, NEW r \in Requests, Filing!SaveRecording(r) PROVE EvidenceInv'
<1>1. Filing!End(r) /\ UNCHANGED <<stored, uploaded, silences, made>>
  BY DEF Filing!SaveRecording
<1>2. PICK base \in Files : base = req[r].copy.ai
  BY CopyIsTyped
<1>3. CASE req[r].step = "completed"
  <2>1. PICK key \in Nat : key = req[r].key
    BY CopyIsTyped DEF Handlers
  <2>2. PICK files : files = [base EXCEPT !.chunks = {}, !.key = key, !.status = "completed"]
    OBVIOUS
  <2>3. files \in Files /\ files.chunks = {}
    BY <2>2 DEF Files
  <2>4. session' = [session EXCEPT !.ai = files]
    BY <1>2, <1>3, <2>1, <2>2 DEF Filing!SaveRecording, Filing!At, Filing!Copy
  <2> QED
    BY <1>1, <2>3, <2>4, InterviewWritten
<1>4. CASE req[r].step \in {"failed", "partial"}
  <2>1. PICK status \in {"failed", "partial"} : status = req[r].step
    BY <1>4
  <2>2. PICK files : files = [base EXCEPT !.status = status]
    OBVIOUS
  <2>3. files \in Files /\ files.chunks = base.chunks
    BY <2>2 DEF Files
  <2>4. session' = [session EXCEPT !.ai = files]
    BY <1>2, <1>4, <2>1, <2>2 DEF Filing!SaveRecording, Filing!At, Filing!Copy
  <2> QED
    BY <1>1, <1>2, <2>3, <2>4, InterviewWritten
<1> QED
  BY <1>3, <1>4 DEF Filing!SaveRecording

-----------------------------------------------------------------------------
(* Proctoring.                                                               *)
LEMMA ProctoringSaved ==
    ASSUME EvidenceInv, NEW r \in Requests, Filing!SaveConsent(r) \/ Filing!SaveBeat(r) \/ Filing!IngestEvents(r)
    PROVE  EvidenceInv'
<1>1. PICK p \in Proctorings : p = req[r].copy.proctoring
  BY CopyIsTyped
<1>2. SilenceKept(p) /\ silences \in Nat /\ p.lost \in Nat
  BY <1>1, CopyIsTyped DEF Proctorings
<1>3. ASSUME NEW x \in Proctorings, SilenceKept(x), Filing!SaveProctoring(r, x) PROVE EvidenceInv'
  BY <1>3, ProctoringWritten DEF Filing!SaveProctoring
<1>4. CASE Filing!SaveConsent(r)
  <2>1. PICK given \in BOOLEAN : Filing!SaveProctoring(r, [p EXCEPT !.consent = given])
    BY <1>1, <1>4 DEF Filing!SaveConsent, Filing!Copy
  <2>2. PICK x : x = [p EXCEPT !.consent = given]
    OBVIOUS
  <2>3. x \in Proctorings /\ x.lost = p.lost /\ x.phone = p.phone /\ x.flagged = p.flagged
    BY <2>2 DEF Proctorings
  <2> QED
    BY <1>2, <1>3, <2>1, <2>2, <2>3 DEF SilenceKept
<1>5. CASE Filing!SaveBeat(r)
  <2>1. PICK x : x = [p EXCEPT !.phone = "fresh", !.flagged = FALSE]
    OBVIOUS
  <2>2. x \in Proctorings /\ x.lost = p.lost /\ x.phone = "fresh"
    BY <2>1 DEF Proctorings
  <2>3. Filing!SaveProctoring(r, x)
    BY <1>1, <1>5, <2>1 DEF Filing!SaveBeat, Filing!Copy
  <2> QED
    BY <1>2, <1>3, <2>2, <2>3 DEF SilenceKept
<1>6. CASE Filing!IngestEvents(r)
  <2>1. Filing!SaveProctoring(r, IF p.phone = "silent" /\ ~p.flagged THEN Filing!Flagged(p) ELSE p)
    BY <1>1, <1>6 DEF Filing!IngestEvents, Filing!Copy
  <2>2. CASE p.phone = "silent" /\ ~p.flagged
    <3>1. PICK n \in Nat : n = p.lost + 1
      BY <1>2
    <3>2. PICK x : x = [p EXCEPT !.lost = n, !.flagged = TRUE]
      OBVIOUS
    <3>3. x \in Proctorings /\ x.lost = n /\ x.flagged = TRUE
      BY <3>2 DEF Proctorings
    <3>4. Filing!Flagged(p) = x
      BY <3>1, <3>2 DEF Filing!Flagged
    <3>5. n <= silences
      BY <1>2, <2>2, <3>1 DEF SilenceKept
    <3>6. SilenceKept(x)
      BY <3>3, <3>5 DEF SilenceKept
    <3> QED
      BY <1>3, <2>1, <2>2, <3>3, <3>4, <3>6
  <2>3. CASE ~(p.phone = "silent" /\ ~p.flagged)
    BY <1>2, <1>3, <2>1, <2>3
  <2> QED
    BY <2>2, <2>3
<1> QED
  BY <1>4, <1>5, <1>6

LEMMA PhoneFellSilent == ASSUME EvidenceInv, Filing!FallSilent PROVE EvidenceInv'
<1>1. PICK copy \in Copies : copy = session
  BY DEF EvidenceInv, EvidenceTypes
<1>2. PICK p \in Proctorings : p = copy.proctoring
  BY DEF Copies
<1>3. /\ [copy EXCEPT !.proctoring.phone = "silent"] \in Copies
      /\ [copy EXCEPT !.proctoring.phone = "silent"].ai = copy.ai
      /\ [copy EXCEPT !.proctoring.phone = "silent"].proctoring.lost = copy.proctoring.lost
  BY DEF Copies, Proctorings
<1>4. session' = [copy EXCEPT !.proctoring.phone = "silent"]
      /\ silences' = silences + 1 /\ UNCHANGED <<stored, req, uploaded, made>>
  BY <1>1 DEF Filing!FallSilent
<1>5. silences \in Nat /\ silences' \in Nat /\ SilenceKept(session.proctoring)
  BY <1>4 DEF EvidenceInv, EvidenceTypes, SilencesKept
<1>6. p.lost \in Nat /\ p.lost <= silences /\ session'.proctoring.lost = p.lost
  BY <1>1, <1>2, <1>3, <1>4, <1>5 DEF SilenceKept, Proctorings
<1>7. SilenceKept(session.proctoring)'
  BY <1>4, <1>5, <1>6 DEF SilenceKept
<1>8. ASSUME NEW r \in Requests PROVE SilenceKept(req[r].copy.proctoring)'
  <2>1. req[r].copy.proctoring.lost \in Nat /\ SilenceKept(req[r].copy.proctoring)
    BY CopyIsTyped DEF Proctorings
  <2> QED
    BY <1>4, <1>5, <2>1 DEF SilenceKept
<1>9. SilencesKept'
  BY <1>7, <1>8 DEF SilencesKept
<1>10. EvidenceTypes' /\ session'.ai = session.ai
  BY <1>1, <1>3, <1>4, <1>5 DEF EvidenceInv, EvidenceTypes
<1>11. ChunksPlaced' /\ ObjectsWait' /\ Filing!FootageSurvives'
  BY <1>4, <1>10 DEF EvidenceInv, ChunksPlaced, Placed, ObjectsWait, ChunkWaits, PartsJoined, Busy, Filing!FootageSurvives
<1> QED
  BY <1>9, <1>10, <1>11 DEF EvidenceInv

-----------------------------------------------------------------------------
LEMMA EvidenceStep ==
    ASSUME EvidenceBounds, EvidenceInv, AnswersInTurn, [Filing!Next]_(Filing!vars)
    PROVE  EvidenceInv'
<1>1. ASSUME NEW r \in Requests,
             \/ Filing!SubmitAnswer(r) \/ Filing!VoiceIntent(r) \/ Filing!UploadAnswerAudio(r) \/ Filing!Finalize(r) \/ Filing!StoreClip(r)
             \/ Filing!ProctoringConsent(r) \/ Filing!PhoneLogin(r) \/ Filing!PhoneHeartbeat(r) \/ Filing!ProctoringEvents(r)
      PROVE  EvidenceInv'
  <2>1. PICK lane \in {"answer", "recording", "intent", "audio", "clip", "consent", "phone"}, step \in EvidenceSteps \ (Busy \cup {"put"}) :
            Filing!Begin(r, lane, step)
    <3>1. CASE Filing!SubmitAnswer(r) \/ Filing!VoiceIntent(r) \/ Filing!UploadAnswerAudio(r) \/ Filing!StoreClip(r)
      BY <3>1 DEF Filing!SubmitAnswer, Filing!VoiceIntent, Filing!UploadAnswerAudio, Filing!StoreClip, EvidenceSteps, Busy
    <3>2. CASE Filing!Finalize(r)
      BY <3>2 DEF Filing!Finalize, EvidenceSteps, Busy
    <3>3. CASE Filing!ProctoringConsent(r) \/ Filing!PhoneLogin(r) \/ Filing!PhoneHeartbeat(r) \/ Filing!ProctoringEvents(r)
      BY <3>3 DEF Filing!ProctoringConsent, Filing!PhoneLogin, Filing!PhoneHeartbeat, Filing!ProctoringEvents, Filing!Proctor, EvidenceSteps, Busy
    <3> QED
      BY <1>1, <3>1, <3>2, <3>3
  <2>2. UNCHANGED <<session, stored, uploaded, silences, made>>
    BY <1>1 DEF Filing!SubmitAnswer, Filing!VoiceIntent, Filing!UploadAnswerAudio, Filing!Finalize, Filing!StoreClip,
                Filing!ProctoringConsent, Filing!PhoneLogin, Filing!PhoneHeartbeat, Filing!ProctoringEvents, Filing!Proctor
  <2> QED
    BY <2>1, <2>2, HandlerBegins
<1>2. ASSUME NEW r \in Requests, Filing!SaveAnswer(r) \/ Filing!SaveIntent(r) \/ Filing!SaveAnswerAudio(r) PROVE EvidenceInv'
  BY <1>2, AnswerSaved, IntentSaved, AudioSaved
<1>3. ASSUME NEW r \in Requests, NEW n \in Seqs, Filing!StoreChunk(r, n) PROVE EvidenceInv'
  BY <1>3, ChunkBegins
<1>4. ASSUME NEW r \in Requests, Filing!PutChunk(r) \/ Filing!SaveChunk(r) PROVE EvidenceInv'
  BY <1>4, ChunkPut, ChunkSaved
<1>5. ASSUME NEW r \in Requests, Filing!ReadChunks(r) \/ Filing!PutRecording(r) PROVE EvidenceInv'
  <2>1. CASE JoinedIsPut(r) /\ UNCHANGED <<session, uploaded, silences>>
    BY <2>1, RecordingPut
  <2>2. CASE \E step \in {"join", "partial"} : Filing!Goto(r, step) /\ UNCHANGED <<session, stored, uploaded, silences, made>>
    BY <2>2, HandlerGoesOn DEF EvidenceSteps, Busy
  <2>3. \/ JoinedIsPut(r) /\ UNCHANGED <<session, uploaded, silences>>
        \/ \E step \in {"join", "partial"} : Filing!Goto(r, step) /\ UNCHANGED <<session, stored, uploaded, silences, made>>
    <3>1. CASE Filing!ReadChunks(r)
      <4>1. Filing!Goto(r, "join") \/ Filing!Goto(r, "partial")
        BY <3>1, Zenon DEF Filing!ReadChunks
      <4>2. UNCHANGED <<session, stored, uploaded, silences, made>>
        BY <3>1 DEF Filing!ReadChunks
      <4> QED
        BY <4>1, <4>2
    <3>2. CASE Filing!PutRecording(r)
      <4>1. JoinedIsPut(r) \/ (Filing!Goto(r, "partial") /\ UNCHANGED <<stored, made>>)
        BY <3>2, Zenon DEF Filing!PutRecording, JoinedIsPut
      <4>2. UNCHANGED <<session, uploaded, silences>>
        BY <3>2, Zenon DEF Filing!PutRecording
      <4> QED
        BY <4>1, <4>2
    <3> QED
      BY <1>5, <3>1, <3>2
  <2> QED
    BY <2>1, <2>2, <2>3
<1>6. ASSUME NEW r \in Requests, Filing!DeleteChunk(r) PROVE EvidenceInv'
  <2>1. CASE req[r].left = {}
    <3>1. Filing!Goto(r, "completed") /\ UNCHANGED <<session, stored, uploaded, silences, made>>
      BY <1>6, <2>1 DEF Filing!DeleteChunk
    <3> QED
      BY <3>1, HandlerGoesOn DEF EvidenceSteps, Busy
  <2>2. CASE req[r].left # {}
    <3>1. PICK c \in req[r].left : stored' \in {stored, stored \ Filing!Object(c.key)} /\ req' = [req EXCEPT ![r].left = @ \ {c}]
      BY <1>6, <2>2 DEF Filing!DeleteChunk
    <3>2. Filing!At(r, "delete") /\ UNCHANGED <<session, uploaded, silences, made>>
      BY <1>6 DEF Filing!DeleteChunk
    <3> QED
      BY <3>1, <3>2, PartDeleted
  <2> QED
    BY <2>1, <2>2
<1>7. ASSUME NEW r \in Requests, Filing!SaveRecording(r) PROVE EvidenceInv'
  BY <1>7, RecordingSaved
<1>8. ASSUME NEW r \in Requests, Filing!CreateClip(r) \/ Filing!Crash(r) PROVE EvidenceInv'
  <2>1. Filing!End(r) /\ UNCHANGED <<session, stored, uploaded, silences, made>>
    BY <1>8 DEF Filing!CreateClip, Filing!Crash
  <2> QED
    BY <2>1, CopyIsTyped, HandlerEnds
<1>9. ASSUME NEW r \in Requests, Filing!SaveConsent(r) \/ Filing!SaveBeat(r) \/ Filing!IngestEvents(r) PROVE EvidenceInv'
  BY <1>9, ProctoringSaved
<1>10. CASE Filing!PurgeForCandidate \/ UNCHANGED Filing!vars
  <2>1. UNCHANGED <<session, stored, req, uploaded, silences, made>>
    BY <1>10 DEF Filing!PurgeForCandidate, Filing!vars
  <2> QED
    BY <2>1 DEF EvidenceInv, EvidenceTypes, ChunksPlaced, Placed, ObjectsWait, ChunkWaits, PartsJoined, SilencesKept, SilenceKept,
                Filing!FootageSurvives
<1>11. CASE Filing!FallSilent
  BY <1>11, PhoneFellSilent
<1> QED
  BY <1>1, <1>2, <1>3, <1>4, <1>5, <1>6, <1>7, <1>8, <1>9, <1>10, <1>11 DEF Filing!Next

(* One answer at a time is taken down.                                       *)
LEMMA AnswersStep ==
    ASSUME EvidenceBounds, EvidenceInv, AnswersInTurn, [Filing!Next]_(Filing!vars)
    PROVE  AnswersInTurn'
<1>1. ASSUME UNCHANGED answered, \A q \in Requests : req'[q].step = "answer" => req[q].step = "answer" PROVE AnswersInTurn'
  BY <1>1 DEF AnswersInTurn
<1>2. req \in [Requests -> Handlers] /\ Filing!Idle.step = "idle" /\ Filing!Idle \in Handlers
  BY IdleHandlers DEF EvidenceInv, EvidenceTypes
<1>3. ASSUME NEW r \in Requests, Filing!SubmitAnswer(r) PROVE AnswersInTurn'
  <2>1. answered # 1 .. MaxAnswers /\ \A q \in Requests : req[q].step # "answer"
    BY <1>3 DEF Filing!SubmitAnswer, Filing!At
  <2>2. UNCHANGED answered /\ \A q \in Requests : q # r => req'[q] = req[q]
    BY <1>2, <1>3 DEF Filing!SubmitAnswer, Filing!Begin
  <2> QED
    BY <2>1, <2>2 DEF AnswersInTurn
<1>4. ASSUME NEW r \in Requests, Filing!SaveAnswer(r) PROVE AnswersInTurn'
  <2>1. \E n \in 0 .. MaxAnswers : answered' = 1 .. n
    BY <1>4, AnswerSaved
  <2>2. \A q \in Requests : req'[q].step # "answer"
    <3>1. req[r].step = "answer" /\ req' = [req EXCEPT ![r] = Filing!Idle]
      BY <1>4 DEF Filing!SaveAnswer, Filing!At, Filing!End
    <3>2. \A q \in Requests : req[q].step = "answer" => q = r
      BY <3>1 DEF AnswersInTurn
    <3> QED
      BY <1>2, <3>1, <3>2
  <2> QED
    BY <2>1, <2>2 DEF AnswersInTurn
<1>5. ASSUME NEW r \in Requests, NEW step, step # "answer", Filing!Goto(r, step) \/ \E lane : Filing!Begin(r, lane, step), UNCHANGED answered
      PROVE  AnswersInTurn'
  <2>1. \A q \in Requests : q # r => req'[q] = req[q]
    BY <1>2, <1>5 DEF Filing!Goto, Filing!Begin
  <2>2. req'[r].step = step
    <3>1. CASE Filing!Goto(r, step)
      BY <1>2, <3>1 DEF Filing!Goto, Handlers
    <3>2. ASSUME NEW lane, Filing!Begin(r, lane, step) PROVE req'[r].step = step
      <4>1. PICK copy : copy = Filing!Read(lane)
        OBVIOUS
      <4>2. PICK base \in Handlers : base = Filing!Idle
        BY <1>2
      <4>3. req'[r] = [base EXCEPT !.step = step, !.copy = copy]
        BY <1>2, <3>2, <4>1, <4>2 DEF Filing!Begin
      <4> QED
        BY <4>3 DEF Handlers
    <3> QED
      BY <1>5, <3>1, <3>2
  <2> QED
    BY <1>1, <1>5, <2>1, <2>2
<1>6. ASSUME NEW r \in Requests, Filing!End(r), UNCHANGED answered PROVE AnswersInTurn'
  BY <1>1, <1>2, <1>6 DEF Filing!End
<1>7. CASE UNCHANGED <<req, answered>>
  BY <1>1, <1>7
<1>8. ASSUME NEW r \in Requests,
             \/ Filing!VoiceIntent(r) \/ Filing!UploadAnswerAudio(r) \/ Filing!Finalize(r) \/ Filing!StoreClip(r)
             \/ Filing!ProctoringConsent(r) \/ Filing!PhoneLogin(r) \/ Filing!PhoneHeartbeat(r) \/ Filing!ProctoringEvents(r)
      PROVE  AnswersInTurn'
  <2>1. PICK lane \in {"recording", "intent", "audio", "clip", "consent", "phone"},
             step \in {"intent", "audio", "failed", "read", "clip", "consent", "login", "beat", "events"} :
            Filing!Begin(r, lane, step)
    BY <1>8, Zenon DEF Filing!VoiceIntent, Filing!UploadAnswerAudio, Filing!Finalize, Filing!StoreClip,
                Filing!ProctoringConsent, Filing!PhoneLogin, Filing!PhoneHeartbeat, Filing!ProctoringEvents, Filing!Proctor
  <2>2. UNCHANGED answered
    BY <1>8 DEF Filing!VoiceIntent, Filing!UploadAnswerAudio, Filing!Finalize, Filing!StoreClip,
                Filing!ProctoringConsent, Filing!PhoneLogin, Filing!PhoneHeartbeat, Filing!ProctoringEvents, Filing!Proctor
  <2> QED
    BY <1>5, <2>1, <2>2
<1>9. ASSUME NEW r \in Requests,
             \/ Filing!SaveIntent(r) \/ Filing!SaveAnswerAudio(r) \/ Filing!SaveChunk(r) \/ Filing!SaveRecording(r) \/ Filing!CreateClip(r)
             \/ Filing!SaveConsent(r) \/ Filing!SaveBeat(r) \/ Filing!IngestEvents(r) \/ Filing!Crash(r)
      PROVE  AnswersInTurn'
  <2>1. Filing!End(r) /\ UNCHANGED answered
    BY <1>9, Zenon DEF Filing!SaveIntent, Filing!SaveAnswerAudio, Filing!SaveChunk, Filing!SaveRecording, Filing!CreateClip,
                Filing!SaveConsent, Filing!SaveBeat, Filing!IngestEvents, Filing!Crash, Filing!SaveProctoring
  <2> QED
    BY <1>6, <2>1
<1>10. ASSUME NEW r \in Requests, Filing!ReadChunks(r) \/ Filing!PutRecording(r) \/ Filing!DeleteChunk(r) \/ Filing!PutChunk(r)
                                  \/ \E n \in Seqs : Filing!StoreChunk(r, n)
       PROVE  AnswersInTurn'
  <2>1. CASE \E step \in {"join", "partial", "completed"} : Filing!Goto(r, step) /\ UNCHANGED answered
    BY <1>5, <2>1
  <2>2. CASE JoinedIsPut(r) /\ UNCHANGED answered
    <3>1. PICK h, id, parts : h = req[r] /\ h \in Handlers /\ id = made + 1 /\ parts = Filing!ChunksOf(r)
      BY <1>2
    <3>2. req' = [req EXCEPT ![r] = [h EXCEPT !.step = "delete", !.key = id, !.left = parts]]
      BY <2>2, <3>1 DEF JoinedIsPut
    <3>3. [h EXCEPT !.step = "delete", !.key = id, !.left = parts].step = "delete"
      BY DEF Handlers
    <3>4. \A q \in Requests : q # r => req'[q] = req[q]
      BY <1>2, <3>2
    <3>5. req'[r].step = "delete"
      BY <1>2, <3>2, <3>3
    <3> QED
      BY <1>1, <2>2, <3>4, <3>5
  <2>3. ASSUME NEW c, req' = [req EXCEPT ![r].left = @ \ {c}], UNCHANGED answered PROVE AnswersInTurn'
    <3>1. \A q \in Requests : req'[q].step = req[q].step
      BY <1>2, <2>3 DEF Handlers
    <3> QED
      BY <1>1, <2>3, <3>1
  <2>4. CASE Filing!PutChunk(r)
    <3>1. PICK h, id : h = req[r] /\ h \in Handlers /\ id = made + 1
      BY <1>2
    <3>2. req' = [req EXCEPT ![r] = [h EXCEPT !.step = "chunk", !.key = id]] /\ UNCHANGED answered
      BY <2>4, <3>1 DEF Filing!PutChunk
    <3>3. [h EXCEPT !.step = "chunk", !.key = id].step = "chunk"
      BY DEF Handlers
    <3>4. \A q \in Requests : q # r => req'[q] = req[q]
      BY <1>2, <3>2
    <3>5. req'[r].step = "chunk"
      BY <1>2, <3>2, <3>3
    <3> QED
      BY <1>1, <3>2, <3>4, <3>5
  <2>5. ASSUME NEW n \in Seqs, Filing!StoreChunk(r, n) PROVE AnswersInTurn'
    <3>1. PICK base, copy : base \in Handlers /\ base = Filing!Idle /\ copy = Filing!Read("recording")
      BY <1>2
    <3>2. req' = [req EXCEPT ![r] = [base EXCEPT !.step = "put", !.copy = copy, !.seq = n]] /\ UNCHANGED answered
      BY <2>5, <3>1 DEF Filing!StoreChunk
    <3>3. [base EXCEPT !.step = "put", !.copy = copy, !.seq = n].step = "put"
      BY DEF Handlers
    <3>4. \A q \in Requests : q # r => req'[q] = req[q]
      BY <1>2, <3>2
    <3>5. req'[r].step = "put"
      BY <1>2, <3>2, <3>3
    <3> QED
      BY <1>1, <3>2, <3>4, <3>5
  <2>6. CASE Filing!ReadChunks(r) \/ Filing!PutRecording(r)
    <3>1. CASE Filing!ReadChunks(r)
      <4>1. Filing!Goto(r, "join") \/ Filing!Goto(r, "partial")
        BY <3>1, Zenon DEF Filing!ReadChunks
      <4>2. UNCHANGED answered
        BY <3>1 DEF Filing!ReadChunks
      <4> QED
        BY <2>1, <4>1, <4>2
    <3>2. CASE Filing!PutRecording(r)
      <4>1. JoinedIsPut(r) \/ Filing!Goto(r, "partial")
        BY <3>2, Zenon DEF Filing!PutRecording, JoinedIsPut
      <4>2. UNCHANGED answered
        BY <3>2, Zenon DEF Filing!PutRecording
      <4> QED
        BY <2>1, <2>2, <4>1, <4>2
    <3> QED
      BY <2>6, <3>1, <3>2
  <2>7. CASE Filing!DeleteChunk(r)
    <3>1. CASE req[r].left = {}
      BY <2>1, <2>7, <3>1 DEF Filing!DeleteChunk
    <3>2. CASE req[r].left # {}
      BY <2>3, <2>7, <3>2 DEF Filing!DeleteChunk
    <3> QED
      BY <3>1, <3>2
  <2> QED
    BY <1>10, <2>4, <2>5, <2>6, <2>7
<1>11. CASE Filing!PurgeForCandidate \/ Filing!FallSilent \/ UNCHANGED Filing!vars
  BY <1>7, <1>11 DEF Filing!PurgeForCandidate, Filing!FallSilent, Filing!vars
<1> QED
  BY <1>3, <1>4, <1>8, <1>9, <1>10, <1>11 DEF Filing!Next

LEMMA AnswersInit == ASSUME EvidenceBounds, Filing!Init PROVE AnswersInTurn
<1>1. answered = 1 .. 0 /\ 0 \in 0 .. MaxAnswers
  BY DEF Filing!Init, EvidenceBounds
<1>2. \A r \in Requests : req[r].step # "answer"
  BY IdleHandlers DEF Filing!Init
<1> QED
  BY <1>1, <1>2 DEF AnswersInTurn

(* The copies of the session, the objects of the storage and the requests
   keep their types, whatever overlaps.                                      *)
THEOREM EvidenceIsTyped == ASSUME EvidenceBounds PROVE Filing!Spec => []Filing!TypeOK
<1>1. Filing!Init => EvidenceInv /\ AnswersInTurn
  BY EvidenceInit, AnswersInit
<1>2. EvidenceInv /\ AnswersInTurn /\ [Filing!Next]_(Filing!vars) => EvidenceInv' /\ AnswersInTurn'
  BY EvidenceStep, AnswersStep
<1>3. EvidenceInv /\ AnswersInTurn => Filing!TypeOK
  <2> SUFFICES ASSUME EvidenceInv, AnswersInTurn PROVE Filing!TypeOK
    OBVIOUS
  <2>1. session.ai.status \in {"none", "recording", "partial", "failed", "completed"} /\ session.ai.turns \subseteq 1 .. MaxAnswers
        /\ session.proctoring.phone \in {"none", "fresh", "silent"}
    BY DEF EvidenceInv, EvidenceTypes, Copies, Files, Proctorings
  <2>2. \A o \in stored : o.id \in 1 .. MaxObjects /\ o.seqs \subseteq Seqs
    BY DEF EvidenceInv, EvidenceTypes, EvidenceBounds
  <2>3. uploaded \subseteq Seqs
    BY DEF EvidenceInv, EvidenceTypes
  <2>4. answered \subseteq 1 .. MaxAnswers
    <3>1. PICK n \in 0 .. MaxAnswers : answered = 1 .. n
      BY DEF AnswersInTurn
    <3> QED
      BY <3>1 DEF EvidenceBounds
  <2> QED
    BY <2>1, <2>2, <2>3, <2>4 DEF Filing!TypeOK
<1> QED
  BY <1>1, <1>2, <1>3, PTL DEF Filing!Spec

(* Whatever requests overlap and wherever the server stops, the footage of
   every chunk that was acknowledged is in the storage, alone or joined,
   and a silence of the phone is counted once (storeChunk, finalize,
   ingestProctoringEvents).                                                  *)
THEOREM EvidenceIsKept == ASSUME EvidenceBounds PROVE Filing!Spec => []Filing!EvidenceHolds
<1>1. Filing!Init => EvidenceInv /\ AnswersInTurn
  BY EvidenceInit, AnswersInit
<1>2. EvidenceInv /\ AnswersInTurn /\ [Filing!Next]_(Filing!vars) => EvidenceInv' /\ AnswersInTurn'
  BY EvidenceStep, AnswersStep
<1>3. EvidenceInv => Filing!EvidenceHolds
  BY DEF EvidenceInv, SilencesKept, SilenceKept, Filing!EvidenceHolds, Filing!SilenceCountedOnce
<1> QED
  BY <1>1, <1>2, <1>3, PTL DEF Filing!Spec

-----------------------------------------------------------------------------
(* The billing windows of the realtime interviews.                           *)

CONSTANTS Sessions, Nobody, Cap, MaxWindows, Now
VARIABLES doc, room, finished, bills, clock

Windows == INSTANCE RealtimeWindows

WindowBounds == MaxWindows \in Nat /\ Now \in Nat

Window == [window : Nat, opening : Nat, startedAt : 0 .. Now, metered : BOOLEAN]
WindowSlot ==
    [step : {"idle", "mint", "dispatch", "stamp", "save", "meter"}, of : Sessions \cup {Nobody}, copy : Window, reconnecting : BOOLEAN]
Bills == [session : Sessions, window : Nat, opening : Nat, length : Int]

\* A request at work is about a session.
WindowTypes ==
    /\ doc \in [Sessions -> Window]
    /\ room \in [Sessions -> [open : BOOLEAN, agents : 0 .. 2]]
    /\ finished \in [Sessions -> 0 .. MaxWindows]
    /\ req \in [Requests -> WindowSlot]
    /\ \A r \in Requests : req[r].step # "idle" => req[r].of \in Sessions
    /\ bills \in Seq(Bills)
    /\ clock \in 0 .. Now

\* What was billed is an earlier opening, or the present one and then it is closed.
BilledInv ==
    /\ Windows!BilledOnce
    /\ \A i \in DOMAIN bills :
        \/ bills[i].opening < doc[bills[i].session].opening
        \/ bills[i].opening = doc[bills[i].session].opening /\ doc[bills[i].session].metered

LEMMA WindowsInit == ASSUME WindowBounds, Windows!Init PROVE WindowTypes /\ BilledInv
<1>1. Windows!NoWindow \in Window
  BY DEF WindowBounds, Windows!NoWindow, Window
<1>2. Windows!Idle \in WindowSlot /\ Windows!Idle.step = "idle"
  BY <1>1 DEF Windows!Idle, WindowSlot
<1>3. bills = <<>> /\ DOMAIN bills = {}
  BY DEF Windows!Init
<1>4. WindowTypes
  BY <1>1, <1>2, <1>3 DEF WindowBounds, Windows!Init, WindowTypes
<1>5. BilledInv
  BY <1>3 DEF BilledInv, Windows!BilledOnce
<1> QED
  BY <1>4, <1>5

(* A request ends, or moves on.                                              *)
LEMMA WindowsDone ==
    ASSUME WindowBounds, WindowTypes, NEW r \in Requests, Windows!Done(r)
    PROVE  /\ req' \in [Requests -> WindowSlot]
           /\ \A q \in Requests : req'[q].step # "idle" => req'[q].of \in Sessions
<1>1. Windows!Idle \in WindowSlot /\ Windows!Idle.step = "idle"
  BY DEF Windows!Idle, Windows!NoWindow, WindowSlot, Window, WindowBounds
<1> QED
  BY <1>1 DEF Windows!Done, WindowTypes

LEMMA WindowsBill ==
    ASSUME WindowBounds, WindowTypes, BilledInv, NEW s \in Sessions, NEW at \in Int, Windows!TestAndSet(s),
           doc' = [doc EXCEPT ![s].metered = TRUE], bills' = Append(bills, Windows!Bill(s, at))
    PROVE  doc' \in [Sessions -> Window] /\ bills' \in Seq(Bills) /\ BilledInv'
<1> DEFINE b == [session |-> s, window |-> doc[s].window, opening |-> doc[s].opening, length |-> clock - at]
<1>1. b = Windows!Bill(s, at) /\ b \in Bills
  BY DEF Windows!Bill, Windows!TestAndSet, Windows!Running, WindowTypes, Window, Bills
<1>2. b.session = s /\ b.opening = doc[s].opening
  OBVIOUS
<1> HIDE DEF b
<1>3. bills' \in Seq(Bills) /\ Len(bills') = Len(bills) + 1 /\ bills'[Len(bills) + 1] = b
      /\ \A i \in 1 .. Len(bills) : bills'[i] = bills[i] /\ bills[i] \in Bills
  BY <1>1 DEF WindowTypes
<1>4. DOMAIN bills = 1 .. Len(bills) /\ DOMAIN bills' = 1 .. Len(bills) + 1 /\ Len(bills) \in Nat
  BY <1>3 DEF WindowTypes
<1>5. /\ doc' \in [Sessions -> Window]
      /\ \A t \in Sessions : doc'[t].opening = doc[t].opening /\ (doc[t].metered => doc'[t].metered)
      /\ doc'[s].metered
  BY DEF WindowTypes, Window
<1>6. ~doc[s].metered
  BY DEF Windows!TestAndSet, Windows!Running
<1>7. \A i \in 1 .. Len(bills) :
         /\ bills[i].session \in Sessions /\ bills[i].opening \in Int
         /\ bills[i].session = s => bills[i].opening < doc[s].opening
         /\ bills[i].opening <= doc[bills[i].session].opening
         /\ bills[i].opening = doc[bills[i].session].opening => doc[bills[i].session].metered
  <2> SUFFICES ASSUME NEW i \in 1 .. Len(bills)
               PROVE  /\ bills[i].session \in Sessions /\ bills[i].opening \in Int
                      /\ bills[i].session = s => bills[i].opening < doc[s].opening
                      /\ bills[i].opening <= doc[bills[i].session].opening
                      /\ bills[i].opening = doc[bills[i].session].opening => doc[bills[i].session].metered
    OBVIOUS
  <2>a. bills[i].session \in Sessions /\ bills[i].opening \in Nat
    BY <1>3 DEF Bills
  <2>1. bills[i].session \in Sessions /\ bills[i].opening \in Int
    BY <2>a
  <2>2. doc[bills[i].session].opening \in Int
    BY <2>1 DEF WindowTypes, Window
  <2> QED
    BY <1>4, <1>6, <2>1, <2>2 DEF BilledInv
<1>8. ASSUME NEW i \in DOMAIN bills'
      PROVE  (bills'[i] = bills[i] /\ i \in 1 .. Len(bills)) \/ (i = Len(bills) + 1 /\ bills'[i] = b)
  BY <1>3, <1>4
<1>9. ASSUME NEW i \in DOMAIN bills', NEW j \in DOMAIN bills',
             bills'[i].session = bills'[j].session, bills'[i].opening = bills'[j].opening
      PROVE  i = j
  <2>1. CASE i \in 1 .. Len(bills) /\ j \in 1 .. Len(bills)
    <3>1. bills[i].session = bills[j].session /\ bills[i].opening = bills[j].opening /\ i \in DOMAIN bills /\ j \in DOMAIN bills
      BY <1>3, <1>4, <1>9, <2>1
    <3>2. Windows!BilledOnce
      BY DEF BilledInv
    <3> QED
      BY <3>1, <3>2 DEF Windows!BilledOnce
  <2>2. CASE i = Len(bills) + 1 \/ j = Len(bills) + 1
    BY <1>2, <1>3, <1>7, <1>8, <1>9, <2>2
  <2> QED
    BY <1>8, <2>1, <2>2
<1>10. ASSUME NEW i \in DOMAIN bills'
       PROVE  \/ bills'[i].opening < doc'[bills'[i].session].opening
              \/ bills'[i].opening = doc'[bills'[i].session].opening /\ doc'[bills'[i].session].metered
  <2>1. CASE i = Len(bills) + 1
    BY <1>2, <1>3, <1>5, <2>1
  <2>2. CASE i \in 1 .. Len(bills) /\ bills'[i] = bills[i]
    <3>1. doc[bills[i].session].opening \in Int
      BY <1>7, <2>2 DEF WindowTypes, Window
    <3> QED
      BY <1>5, <1>7, <2>2, <3>1
  <2> QED
    BY <1>8, <2>1, <2>2
<1>11. Windows!BilledOnce'
  BY <1>9 DEF Windows!BilledOnce
<1> QED
  BY <1>3, <1>5, <1>10, <1>11 DEF BilledInv

(* A window is stored under a new opening, so that what was billed is earlier. *)
LEMMA WindowsStore ==
    ASSUME WindowBounds, WindowTypes, BilledInv, NEW s \in Sessions, NEW window \in Window, Windows!Store(s, window),
           UNCHANGED bills
    PROVE  doc' \in [Sessions -> Window] /\ BilledInv'
<1> DEFINE storedWindow == [window EXCEPT !.opening = doc[s].opening + 1]
<1>0. doc[s].opening \in Nat /\ doc[s].opening + 1 \in Nat
  <2>1. doc[s] \in Window
    BY DEF WindowTypes
  <2>2. doc[s].opening \in Nat
    BY <2>1 DEF Window
  <2> QED
    BY <2>2
<1>1. storedWindow \in Window /\ storedWindow.opening = doc[s].opening + 1
  BY <1>0 DEF Window
<1>2. doc' = [doc EXCEPT ![s] = storedWindow]
  BY DEF Windows!Store
<1> HIDE DEF storedWindow
<1>3. doc' \in [Sessions -> Window] /\ \A t \in Sessions : doc'[t] = doc[t] \/ doc'[t].opening = doc[t].opening + 1
  BY <1>1, <1>2 DEF WindowTypes
<1>4. ASSUME NEW t \in Sessions PROVE doc[t].opening \in Int /\ doc'[t].opening \in Int
  <2>1. doc[t] \in Window /\ doc'[t] \in Window
    BY <1>3 DEF WindowTypes
  <2>2. doc[t].opening \in Nat /\ doc'[t].opening \in Nat
    BY <2>1 DEF Window
  <2> QED
    BY <2>2
<1>5. \A i \in DOMAIN bills : bills[i].session \in Sessions /\ bills[i].opening \in Int
  <2>1. \A i \in DOMAIN bills : bills[i] \in Bills
    BY DEF WindowTypes
  <2> QED
    BY <2>1 DEF Bills
<1>6. ASSUME NEW i \in DOMAIN bills
      PROVE  \/ bills[i].opening < doc'[bills[i].session].opening
             \/ bills[i].opening = doc'[bills[i].session].opening /\ doc'[bills[i].session].metered
  <2> DEFINE t == bills[i].session
  <2>1. t \in Sessions /\ bills[i].opening \in Int /\ doc[t].opening \in Int /\ doc'[t].opening \in Int
    BY <1>4, <1>5
  <2>2. doc'[t] = doc[t] \/ doc'[t].opening = doc[t].opening + 1
    BY <1>3, <2>1
  <2>3. bills[i].opening < doc[t].opening \/ (bills[i].opening = doc[t].opening /\ doc[t].metered)
    BY DEF BilledInv
  <2> QED
    BY <2>1, <2>2, <2>3
<1> QED
  BY <1>3, <1>6 DEF BilledInv, Windows!BilledOnce

LEMMA WindowsStep ==
    ASSUME WindowBounds, WindowTypes, BilledInv, [Windows!Next]_Windows!vars
    PROVE  WindowTypes' /\ BilledInv'
<1>1. CASE UNCHANGED Windows!vars
  BY <1>1 DEF Windows!vars, WindowTypes, BilledInv, Windows!BilledOnce
<1>2. ASSUME UNCHANGED <<doc, bills>> PROVE BilledInv'
  BY <1>2 DEF BilledInv, Windows!BilledOnce
<1>3. ASSUME NEW r \in Requests, NEW s \in Sessions, Windows!Mint(r, s) \/ Windows!Meter(r, s) \/ Windows!LoadChunk(r, s)
      PROVE  WindowTypes' /\ BilledInv'
  <2>1. \A step \in {"mint", "save", "meter"}, b \in BOOLEAN :
           [step |-> step, of |-> s, copy |-> doc[s], reconnecting |-> b] \in WindowSlot
    BY DEF WindowSlot, WindowTypes
  <2>2. UNCHANGED <<doc, room, finished, bills, clock>>
    BY <1>3 DEF Windows!Mint, Windows!Meter, Windows!LoadChunk
  <2>3. Windows!Running(doc[s]) \in BOOLEAN
    BY DEF Windows!Running
  <2>4. PICK slot \in WindowSlot : req' = [req EXCEPT ![r] = slot] /\ slot.of = s
    BY <1>3, <2>1, <2>3 DEF Windows!Mint, Windows!Meter, Windows!LoadChunk
  <2> QED
    BY <1>2, <2>2, <2>4 DEF WindowTypes
<1>4. ASSUME NEW r \in Requests, Windows!CheckCap(r) PROVE WindowTypes' /\ BilledInv'
  <2>1. UNCHANGED <<doc, room, finished, bills, clock>>
    BY <1>4 DEF Windows!CheckCap
  <2>2. CASE Windows!Done(r)
    BY <1>2, <2>1, <2>2, WindowsDone DEF WindowTypes
  <2>3. CASE req' = [req EXCEPT ![r].step = "dispatch"]
    <3>1. req' \in [Requests -> WindowSlot] /\ \A q \in Requests : req'[q].of = req[q].of /\ (q # r => req'[q] = req[q])
      BY <2>3 DEF WindowTypes, WindowSlot
    <3>2. req[r].step # "idle"
      BY <1>4 DEF Windows!CheckCap
    <3> QED
      BY <1>2, <2>1, <3>1, <3>2 DEF WindowTypes
  <2> QED
    BY <1>4, <2>2, <2>3 DEF Windows!CheckCap
<1>5. ASSUME NEW r \in Requests, Windows!DispatchAgent(r) PROVE WindowTypes' /\ BilledInv'
  <2>1. UNCHANGED <<doc, finished, bills, clock>> /\ req[r].step # "idle" /\ req' = [req EXCEPT ![r].step = "stamp"]
    BY <1>5 DEF Windows!DispatchAgent
  <2>2. req' \in [Requests -> WindowSlot] /\ \A q \in Requests : req'[q].of = req[q].of /\ (q # r => req'[q] = req[q])
    BY <2>1 DEF WindowTypes, WindowSlot
  <2>3. room' \in [Sessions -> [open : BOOLEAN, agents : 0 .. 2]]
    <3>1. CASE UNCHANGED room
      BY <3>1 DEF WindowTypes
    <3>2. ASSUME NEW n \in {1, 2}, room' = [room EXCEPT ![req[r].of] = [open |-> TRUE, agents |-> n]]
          PROVE  room' \in [Sessions -> [open : BOOLEAN, agents : 0 .. 2]]
      <4>1. [open |-> TRUE, agents |-> n] \in [open : BOOLEAN, agents : 0 .. 2]
        OBVIOUS
      <4> QED
        BY <3>2, <4>1 DEF WindowTypes
    <3> QED
      BY <1>5, <3>1, <3>2 DEF Windows!DispatchAgent
  <2> QED
    BY <1>2, <2>1, <2>2, <2>3 DEF WindowTypes
<1>6. ASSUME NEW r \in Requests, Windows!DispatchFails(r) PROVE WindowTypes' /\ BilledInv'
  BY <1>2, <1>6, WindowsDone DEF Windows!DispatchFails, WindowTypes
<1>7. ASSUME NEW r \in Requests, Windows!Stamp(r) \/ Windows!SaveChunk(r) PROVE WindowTypes' /\ BilledInv'
  <2>1. req[r].of \in Sessions /\ req[r].copy \in Window /\ UNCHANGED <<room, finished, bills, clock>> /\ Windows!Done(r)
    BY <1>7 DEF Windows!Stamp, Windows!SaveChunk, WindowTypes, WindowSlot
  <2> DEFINE fresh == [window |-> doc[req[r].of].opening + 1, opening |-> 0, startedAt |-> clock, metered |-> FALSE]
  <2>2. fresh \in Window
    BY <2>1 DEF WindowTypes, Window
  <2>3. \/ UNCHANGED doc
        \/ Windows!Store(req[r].of, req[r].copy)
        \/ Windows!Store(req[r].of, fresh)
    BY <1>7 DEF Windows!Stamp, Windows!SaveChunk, Windows!StoreCopy
  <2> HIDE DEF fresh
  <2>4. CASE UNCHANGED doc
    BY <1>2, <2>1, <2>4, WindowsDone DEF WindowTypes
  <2>5. CASE Windows!Store(req[r].of, req[r].copy) \/ Windows!Store(req[r].of, fresh)
    <3>1. doc' \in [Sessions -> Window] /\ BilledInv'
      BY <2>1, <2>2, <2>5, WindowsStore
    <3> QED
      BY <2>1, <3>1, WindowsDone DEF WindowTypes
  <2> QED
    BY <2>3, <2>4, <2>5
<1>8. ASSUME NEW r \in Requests, Windows!MeterUpdate(r) PROVE WindowTypes' /\ BilledInv'
  <2>1. req[r].of \in Sessions /\ req[r].copy.startedAt \in Int /\ UNCHANGED <<room, finished, clock>> /\ Windows!Done(r)
    BY <1>8 DEF Windows!MeterUpdate, WindowTypes, WindowSlot, Window
  <2>2. CASE UNCHANGED <<doc, bills>>
    BY <1>2, <2>1, <2>2, WindowsDone DEF WindowTypes
  <2>3. CASE /\ Windows!TestAndSet(req[r].of) /\ doc' = [doc EXCEPT ![req[r].of].metered = TRUE]
             /\ bills' = Append(bills, Windows!Bill(req[r].of, req[r].copy.startedAt))
    BY <2>1, <2>3, WindowsDone, WindowsBill DEF WindowTypes
  <2> QED
    BY <1>8, <2>2, <2>3 DEF Windows!MeterUpdate
<1>9. ASSUME NEW s \in Sessions, Windows!Webhook(s) PROVE WindowTypes' /\ BilledInv'
  <2>1. finished' \in [Sessions -> 0 .. MaxWindows] /\ UNCHANGED <<room, req, clock>>
    BY <1>9 DEF Windows!Webhook, WindowTypes, WindowBounds
  <2>2. CASE UNCHANGED <<doc, bills>>
    BY <1>2, <2>1, <2>2 DEF WindowTypes
  <2>3. CASE /\ Windows!TestAndSet(s) /\ doc' = [doc EXCEPT ![s].metered = TRUE]
             /\ bills' = Append(bills, Windows!Bill(s, doc[s].startedAt))
    <3>1. doc[s].startedAt \in Int
      BY DEF WindowTypes, Window
    <3> QED
      BY <2>1, <2>3, <3>1, WindowsBill DEF WindowTypes
  <2> QED
    BY <1>9, <2>2, <2>3 DEF Windows!Webhook
<1>10. ASSUME NEW s \in Sessions, Windows!RoomFinishes(s) PROVE WindowTypes' /\ BilledInv'
  BY <1>2, <1>10 DEF Windows!RoomFinishes, WindowTypes, WindowBounds
<1>11. CASE Windows!Tick
  BY <1>2, <1>11 DEF Windows!Tick, WindowTypes, WindowBounds
<1> QED
  BY <1>1, <1>3, <1>4, <1>5, <1>6, <1>7, <1>8, <1>9, <1>10, <1>11 DEF Windows!Next

(* The windows of the interviews, their rooms, the requests about them and
   the bills keep their types, however mints, joins and webhooks overlap.    *)
THEOREM WindowsAreTyped == ASSUME WindowBounds PROVE Windows!Spec => []Windows!TypeOK
<1>1. Windows!Init => WindowTypes /\ BilledInv
  BY WindowsInit
<1>2. WindowTypes /\ BilledInv /\ [Windows!Next]_Windows!vars => WindowTypes' /\ BilledInv'
  BY WindowsStep
<1>3. WindowTypes => Windows!TypeOK
  BY DEF WindowTypes, Window, WindowSlot, Windows!TypeOK
<1> QED
  BY <1>1, <1>2, <1>3, PTL DEF Windows!Spec

(* A window of an interview is billed once each time it is opened, however the
   mint of the next, the room's webhook, the portal and a reconnection race to
   meter it (meterSession, the test-and-set of realtimeMeteredAt); a request
   that saves the whole interview as it read it is what opens one again.     *)
THEOREM WindowsAreBilledOnce == ASSUME WindowBounds PROVE Windows!Spec => []Windows!BilledOnce
<1>1. Windows!Init => WindowTypes /\ BilledInv
  BY WindowsInit
<1>2. WindowTypes /\ BilledInv /\ [Windows!Next]_Windows!vars => WindowTypes' /\ BilledInv'
  BY WindowsStep
<1>3. BilledInv => Windows!BilledOnce
  BY DEF BilledInv
<1> QED
  BY <1>1, <1>2, <1>3, PTL DEF Windows!Spec

-----------------------------------------------------------------------------
(* The calls of the voice worker.                                            *)

CONSTANTS MaxQuestions, MaxRepeats, MaxCalls
VARIABLE worker

Voice == INSTANCE VoiceLoop

\* What the bounds are.
VoiceBounds ==
    /\ MaxQuestions \in Nat /\ MaxRepeats \in Nat /\ MaxCalls \in Nat
    /\ Kinds \subseteq Voice!Words

SaidTurns ==
    [role : {"ai"}, kind : {"intro", "warmup", "question", "own", "nudge", "side_reply", "closing"}, to : {0}, saw : {0}]
HeardTurns == [role : {"candidate"}, kind : {"answer", "declined", "no_response", "side_claim"}, to : Nat, saw : Nat]
VoiceTurns == SaidTurns \cup HeardTurns
IsAsked(t) == t.kind \in {"warmup", "question", "own"}
IsFree(t) == t.kind \in {"own", "warmup"}
IsOpen(t) == t.role = "ai" /\ t.kind # "side_reply"

VoiceDocs ==
    [status : {"not_started", "in_progress", "completed", "ended_early"}, turns : Seq(VoiceTurns),
     hold : Nat, v : Nat, asked : Nat, repeat : BOOLEAN]
VoiceCalls ==
    [step : {"idle", "sent", "read"}, fn : {"none", "get_next_question", "submit_answer", "end_interview"}, qid : Nat,
     words : Voice!Words \cup {"none"}, declined : BOOLEAN, tries : Nat, copy : VoiceDocs \cup {<<>>}]

(* An interview that began has asked something; one that did not is empty.   *)
Sane(d) ==
    /\ d \in VoiceDocs /\ d.hold <= Len(d.turns)
    /\ d.status = "not_started" => d.turns = <<>>
    /\ d.status = "in_progress" => \E i \in 1 .. Len(d.turns) : IsOpen(d.turns[i])

(* A copy is a beginning of what is stored: the whole of it under its version,
   and all its approved questions once it has as many as may be asked.       *)
IsBehind(d) ==
    /\ Sane(d) /\ d.v <= doc.v
    /\ Len(d.turns) <= Len(doc.turns) /\ \A i \in 1 .. Len(d.turns) : doc.turns[i] = d.turns[i]
    /\ d.v = doc.v => Len(d.turns) = Len(doc.turns) /\ d.status = doc.status
    /\ d.status = "in_progress" /\ ~(Voice!Asked(d.turns) < MaxQuestions)
           => \A i \in Len(d.turns) + 1 .. Len(doc.turns) : doc.turns[i].kind # "question"

(* No question stands between an answer and the turn it was given to, or the
   answer was saved over turns its call had not read and there is a question
   that needs no version among them or next.                                 *)
Close(t, o, i) == \A j \in o + 1 .. i : ~IsAsked(t[j])
Strayed(t, o, i) == t[i].saw < i - 1 /\ \E j \in o + 1 .. i + 1 : j \in 1 .. Len(t) /\ IsFree(t[j])
StaysWith(t, i) ==
    t[i].kind \in Voice!Replies /\ t[i].to # 0 =>
        t[i].to \in 1 .. i /\ (Close(t, t[i].to, i) \/ Strayed(t, t[i].to, i))

VoiceInv ==
    /\ Sane(doc)
    /\ calls \in [Calls -> VoiceCalls]
    /\ worker \in [qid : Nat, made : Nat] /\ worker.qid <= Len(doc.turns)
    /\ \A c \in Calls : calls[c].step # "idle" => calls[c].fn # "none"
    /\ \A c \in Calls : calls[c].step = "read" => IsBehind(calls[c].copy)
    /\ \A i \in 1 .. Len(doc.turns) : StaysWith(doc.turns, i)

(* What a handler may leave of the copy e: an approved question goes with the
   version that was read, a reply under the turn that was open, and where a
   reply needs no version no approved question goes with it.                 *)
Fair(e, r) ==
    /\ r.status \in {"same", "in_progress", "completed", "ended_early"}
    /\ r.hold \in Nat /\ r.hold <= Len(e.turns)
    /\ r.save \in {"set", "push", "where"} /\ r.pushed \in Seq(VoiceTurns)
    /\ r.save = "set" => r.pushed = <<>> /\ r.status = "same"
    /\ r.status = "in_progress" => r.save # "set" /\ e.status = "not_started" /\ r.pushed # <<>> /\ IsOpen(r.pushed[1])
    /\ r.status # "in_progress" => e.status = "in_progress"
    /\ \A k \in 1 .. Len(r.pushed) :
        r.pushed[k].kind = "question" => r.save = "where" /\ Voice!Asked(e.turns) < MaxQuestions
    /\ \A k \in 1 .. Len(r.pushed) :
        r.pushed[k].kind \in Voice!Replies =>
            /\ k = 1 /\ e.status = "in_progress" /\ r.pushed[k].saw = Len(e.turns)
            /\ r.pushed[k].to # 0 => /\ r.pushed[k].to = Voice!OpenTurn(e.turns)
                                     /\ \/ r.save = "where" \/ ~(Voice!Asked(e.turns) < MaxQuestions)
                                        \/ Len(r.pushed) = 2 /\ r.pushed[2].kind = "own"

-----------------------------------------------------------------------------
LEMMA LargestHeard ==
    ASSUME NEW n \in Nat, NEW T, T \subseteq 1 .. n, T # {}
    PROVE  /\ Voice!Max(T) \in T
           /\ \A y \in T : y <= Voice!Max(T)
<1> DEFINE R == OpToRel(<, Nat)
           U == {n - x : x \in T}
<1>0. T \subseteq Int /\ U \subseteq Nat /\ U # {}
  <2>1. \A x \in T : x \in Int /\ n - x \in Nat
    OBVIOUS
  <2> QED
    BY <2>1
<1>1. PICK x \in U : \A y \in U : ~(<<y, x>> \in R)
  <2>1. IsWellFoundedOn(R, Nat)
    BY NatLessThanWellFounded
  <2> HIDE DEF R, U
  <2> QED
    BY <1>0, <2>1, WFMin
<1>2. PICK z \in T : x = n - z
  OBVIOUS
<1>3. ASSUME NEW y \in T PROVE z >= y
  <2>1. n - y \in U /\ n - y \in Nat /\ x \in Nat /\ y \in Int /\ z \in Int
    BY <1>0
  <2> HIDE DEF U
  <2>2. <<n - y, x>> \in Nat \X Nat /\ <<n - y, x>>[1] = n - y /\ <<n - y, x>>[2] = x
    BY <2>1
  <2>3. ~(n - y < x)
    BY <1>1, <2>1, <2>2 DEF OpToRel
  <2> QED
    BY <2>1, <2>3, <1>2
<1> HIDE DEF R, U
<1>4. Voice!Max(T) \in T /\ \A y \in T : Voice!Max(T) >= y
  BY <1>3 DEF Voice!Max
<1> QED
  BY <1>4, <1>0

(* The open turn is the last thing the interviewer said, asides excepted.    *)
LEMMA OpenTurnFound ==
    ASSUME NEW t \in Seq(VoiceTurns)
    PROVE  LET o == Voice!OpenTurn(t)
           IN  /\ o \in 0 .. Len(t)
               /\ \A i \in 1 .. Len(t) : IsOpen(t[i]) => o # 0 /\ i <= o
<1> DEFINE Hits == {i \in 1 .. Len(t) : t[i].role = "ai" /\ t[i].kind # "side_reply"}
<1>1. Len(t) \in Nat /\ Hits \subseteq 1 .. Len(t)
  OBVIOUS
<1>2. Hits # {} => Voice!Max(Hits) \in Hits /\ \A y \in Hits : y <= Voice!Max(Hits)
  <2> HIDE DEF Hits
  <2> QED
    BY <1>1, LargestHeard
<1>3. Voice!OpenTurn(t) = IF Hits # {} THEN Voice!Max(Hits) ELSE 0
  BY DEF Voice!OpenTurn, Voice!SelectLastInSeq
<1> QED
  BY <1>1, <1>2, <1>3 DEF IsOpen

LEMMA TurnsOfCalls ==
    \A k \in {"intro", "warmup", "question", "own", "nudge", "side_reply", "closing"} :
        /\ Voice!Said(k) \in VoiceTurns /\ Voice!Said(k).kind = k /\ Voice!Said(k).role = "ai" /\ Voice!Said(k).to = 0
BY DEF Voice!Said, VoiceTurns, SaidTurns, HeardTurns

LEMMA TurnHeard ==
    ASSUME NEW d, NEW n \in Nat, Len(d.turns) = n, NEW q \in Nat,
           NEW k \in {"answer", "declined", "no_response", "side_claim"}
    PROVE  /\ Voice!Heard(d, k, q) \in VoiceTurns /\ Voice!Heard(d, k, q).kind = k /\ Voice!Heard(d, k, q).to = q
           /\ Voice!Heard(d, k, q).saw = n
<1>1. Voice!Heard(d, k, q) = [role |-> "candidate", kind |-> k, to |-> q, saw |-> n]
  BY DEF Voice!Heard
<1> QED
  BY <1>1 DEF VoiceTurns, HeardTurns

LEMMA Joined ==
    ASSUME NEW S, NEW a \in Seq(S), NEW b \in Seq(S)
    PROVE  /\ a \o b \in Seq(S) /\ Len(a \o b) = Len(a) + Len(b)
           /\ \A i \in 1 .. Len(a) : (a \o b)[i] = a[i]
           /\ \A i \in 1 .. Len(b) : (a \o b)[Len(a) + i] = b[i]
OBVIOUS

LEMMA PairPushed ==
    ASSUME NEW x \in VoiceTurns, NEW y \in VoiceTurns
    PROVE  /\ <<x, y>> \in Seq(VoiceTurns) /\ Len(<<x, y>>) = 2 /\ <<x, y>>[1] = x /\ <<x, y>>[2] = y
           /\ <<x>> \o <<y>> \in Seq(VoiceTurns) /\ Len(<<x>> \o <<y>>) = 2 /\ (<<x>> \o <<y>>)[1] = x /\ (<<x>> \o <<y>>)[2] = y
           /\ <<>> \o <<x>> \in Seq(VoiceTurns) /\ Len(<<>> \o <<x>>) = 1 /\ (<<>> \o <<x>>)[1] = x
<1>1. \A z \in VoiceTurns : <<z>> \in Seq(VoiceTurns) /\ Len(<<z>>) = 1 /\ <<z>>[1] = z
  OBVIOUS
<1>3. <<x>> \o <<y>> \in Seq(VoiceTurns) /\ Len(<<x>> \o <<y>>) = 2 /\ (<<x>> \o <<y>>)[1] = x /\ (<<x>> \o <<y>>)[2] = y
  <2> DEFINE a == <<x>>
             b == <<y>>
  <2>1. a \in Seq(VoiceTurns) /\ b \in Seq(VoiceTurns) /\ Len(a) = 1 /\ Len(b) = 1 /\ a[1] = x /\ b[1] = y
    BY <1>1
  <2> HIDE DEF a, b
  <2>2. a \o b \in Seq(VoiceTurns) /\ Len(a \o b) = 2 /\ (a \o b)[1] = x /\ (a \o b)[2] = y
    BY <2>1, Joined, SMTT(30)
  <2> QED
    BY <2>2 DEF a, b
<1>4. <<x, y>> \in Seq(VoiceTurns) /\ Len(<<x, y>>) = 2 /\ <<x, y>>[1] = x /\ <<x, y>>[2] = y
  OBVIOUS
<1>5. <<>> \o <<x>> \in Seq(VoiceTurns) /\ Len(<<>> \o <<x>>) = 1 /\ (<<>> \o <<x>>)[1] = x
  OBVIOUS
<1> QED
  BY <1>3, <1>4, <1>5

(* advance                                                                   *)
LEMMA AdvanceIsFair ==
    ASSUME VoiceBounds, NEW e, Sane(e), e.status = "in_progress", NEW d, d.turns = e.turns, d.hold \in Nat, d.hold <= Len(e.turns),
           NEW reply, NEW r \in Voice!Advance(d, reply),
           \/ reply = <<>>
           \/ \E k \in Voice!Replies, q \in Nat : reply = <<Voice!Heard(d, k, q)>> /\ (q # 0 => q = Voice!OpenTurn(e.turns))
    PROVE  Fair(e, r) /\ Fair(e, [r EXCEPT !.save = "where"])
<1>1. PICK s \in {"question", "own", "closing"} :
          /\ r.pushed = reply \o <<Voice!Said(s)>> /\ r.hold = d.hold
          /\ s = "question" => r.status = "same" /\ r.save = "where" /\ Voice!Asked(e.turns) < MaxQuestions
          /\ s = "own" => r.status = "same" /\ r.save = "push"
          /\ s = "closing" => r.status = "completed" /\ r.save = "push" /\ ~(Voice!Asked(e.turns) < MaxQuestions)
  <2> DEFINE few == Voice!Asked(d.turns) < MaxQuestions
  <2>1. Voice!Asked(d.turns) = Voice!Asked(e.turns)
    OBVIOUS
  <2>2. CASE few /\ r = Voice!Result(d, "where", reply \o <<Voice!Said("question")>>)
    <3>1. r.pushed = reply \o <<Voice!Said("question")>> /\ r.hold = d.hold /\ r.status = "same" /\ r.save = "where"
      BY <2>2 DEF Voice!Result
    <3> QED
      BY <2>1, <2>2, <3>1
  <2>3. CASE few /\ r = Voice!Result(d, "push", reply \o <<Voice!Said("own")>>)
    <3>1. r.pushed = reply \o <<Voice!Said("own")>> /\ r.hold = d.hold /\ r.status = "same" /\ r.save = "push"
      BY <2>3 DEF Voice!Result
    <3> QED
      BY <3>1
  <2>4. CASE ~few /\ r = Voice!Turned(Voice!Result(d, "push", reply \o <<Voice!Said("closing")>>), "completed")
    <3>1. r.pushed = reply \o <<Voice!Said("closing")>> /\ r.hold = d.hold /\ r.status = "completed" /\ r.save = "push"
      BY <2>4 DEF Voice!Result, Voice!Turned
    <3> QED
      BY <2>1, <2>4, <3>1
  <2> QED
    BY <2>1, <2>2, <2>3, <2>4 DEF Voice!Advance
<1>2. /\ [r EXCEPT !.save = "where"].pushed = r.pushed /\ [r EXCEPT !.save = "where"].hold = r.hold
      /\ [r EXCEPT !.save = "where"].status = r.status /\ [r EXCEPT !.save = "where"].save = "where"
  BY DEF Voice!Advance, Voice!Result, Voice!Turned
<1>3. PICK x \in VoiceTurns : x = Voice!Said(s) /\ x.kind = s /\ x.to = 0
  BY TurnsOfCalls
<1> DEFINE Reply(h) ==
               h.kind \in Voice!Replies /\ h.saw = Len(e.turns) /\ (h.to # 0 => h.to = Voice!OpenTurn(e.turns))
<1>4. /\ Len(r.pushed) \in {1, 2} /\ r.pushed \in Seq(VoiceTurns)
      /\ \A k \in 1 .. Len(r.pushed) : r.pushed[k] = x \/ (k = 1 /\ Reply(r.pushed[k]) /\ Len(r.pushed) = 2 /\ r.pushed[2] = x)
  <2>1. CASE reply = <<>>
    <3>1. r.pushed = <<>> \o <<x>>
      BY <1>1, <1>3, <2>1
    <3> QED
      BY <3>1, PairPushed
  <2>2. ASSUME NEW k \in Voice!Replies, NEW q \in Nat, reply = <<Voice!Heard(d, k, q)>>, q # 0 => q = Voice!OpenTurn(e.turns)
        PROVE  /\ Len(r.pushed) \in {1, 2} /\ r.pushed \in Seq(VoiceTurns)
               /\ \A n \in 1 .. Len(r.pushed) :
                      r.pushed[n] = x \/ (n = 1 /\ Reply(r.pushed[n]) /\ Len(r.pushed) = 2 /\ r.pushed[2] = x)
    <3>0. PICK len \in Nat : Len(d.turns) = len /\ Len(e.turns) = len
      BY DEF Sane, VoiceDocs
    <3>a. k \in {"answer", "declined", "no_response", "side_claim"}
      BY DEF Voice!Replies
    <3> DEFINE heard == Voice!Heard(d, k, q)
    <3>b. heard \in VoiceTurns /\ heard.kind = k /\ heard.to = q /\ heard.saw = Len(e.turns)
      BY <3>0, <3>a, TurnHeard
    <3>1. PICK h \in VoiceTurns : h = Voice!Heard(d, k, q) /\ h.kind = k /\ h.to = q /\ h.saw = Len(e.turns)
      BY <3>b
    <3>2. r.pushed = <<h>> \o <<x>>
      BY <1>1, <1>3, <2>2, <3>1
    <3> QED
      BY <2>2, <3>1, <3>2, PairPushed
  <2> QED
    BY <2>1, <2>2
<1>5. x.kind \notin Voice!Replies /\ x.kind = s
  BY <1>3 DEF Voice!Replies
<1>6. \A k \in Voice!Replies : k # "question"
  BY DEF Voice!Replies
<1>7. \A k \in 1 .. Len(r.pushed) : r.pushed[k].kind = "question" => s = "question"
  BY <1>4, <1>5, <1>6
<1>8. \A k \in 1 .. Len(r.pushed) : r.pushed[k].kind \in Voice!Replies =>
          k = 1 /\ Reply(r.pushed[k]) /\ Len(r.pushed) = 2 /\ r.pushed[2].kind = s
  BY <1>4, <1>5
<1> HIDE DEF Reply
<1>9. Fair(e, r)
  BY <1>1, <1>4, <1>7, <1>8 DEF Fair, Reply
<1>10. Fair(e, [r EXCEPT !.save = "where"])
  BY <1>1, <1>2, <1>4, <1>7, <1>8 DEF Fair, Reply
<1> QED
  BY <1>9, <1>10

LEMMA ReleasedKeeps ==
    ASSUME NEW e, Sane(e)
    PROVE  /\ Voice!Released(e).turns = e.turns /\ Voice!Released(e).hold = 0
           /\ Len(e.turns) \in Nat /\ e.turns \in Seq(VoiceTurns) /\ e.hold \in Nat /\ e.hold <= Len(e.turns)
BY DEF Voice!Released, Sane, VoiceDocs

LEMMA SubmittedIs ==
    ASSUME NEW e, NEW call, NEW rest, rest = Voice!Released(e)
    PROVE  Voice!Submitted(e, call) =
              IF call.words = "nothing" /\ ~call.declined THEN {Voice!Refused}
              ELSE IF call.words \in {"nothing", "done"} THEN Voice!Advance(rest, <<Voice!Heard(e, "no_response", call.qid)>>)
              ELSE IF Voice!Unfinished(call) /\ ~Voice!ExpectsShortReply(e) /\ e.hold # Len(e.turns) THEN {Voice!Hold(e)}
              ELSE IF call.words = "repeat" THEN {Voice!Refused}
              ELSE IF call.words = "already"
                   THEN {Voice!Result(rest, "push", <<Voice!Heard(e, "side_claim", call.qid), Voice!Said("side_reply")>>)}
              ELSE IF call.words = "decline" THEN Voice!Advance(rest, <<Voice!Heard(e, "declined", call.qid)>>)
              ELSE Voice!Record(rest, call)
BY DEF Voice!Submitted

(* submitAnswer, past the handshake                                          *)
LEMMA AnswerIsFair ==
    ASSUME VoiceBounds, NEW e, Sane(e), e.status = "in_progress", NEW call \in VoiceCalls,
           call.qid # 0 => call.qid = Voice!OpenTurn(e.turns),
           NEW r \in Voice!Submitted(e, call), r.save # "none"
    PROVE  Fair(e, r)
<1> DEFINE d == Voice!Released(e)
<1>1. d.turns = e.turns /\ d.hold \in Nat /\ d.hold <= Len(e.turns) /\ Len(e.turns) \in Nat
  BY ReleasedKeeps
<1>2. call.qid \in Nat
  BY DEF VoiceCalls
<1> HIDE DEF d
<1>h. /\ Voice!Heard(d, "answer", call.qid) \in VoiceTurns /\ Voice!Heard(d, "answer", call.qid).kind = "answer"
      /\ Voice!Heard(d, "answer", call.qid).to = call.qid /\ Voice!Heard(d, "answer", call.qid).saw = Len(e.turns)
      /\ Voice!Heard(d, "side_claim", call.qid) \in VoiceTurns /\ Voice!Heard(d, "side_claim", call.qid).kind = "side_claim"
  <2>1. PICK len \in Nat : Len(d.turns) = len /\ Len(e.turns) = len
    BY <1>1
  <2>2. PICK q \in Nat : q = call.qid
    BY <1>2
  <2>3. ASSUME NEW k \in {"answer", "declined", "no_response", "side_claim"}
        PROVE  /\ Voice!Heard(d, k, q) \in VoiceTurns /\ Voice!Heard(d, k, q).kind = k
               /\ Voice!Heard(d, k, q).to = q /\ Voice!Heard(d, k, q).saw = len
    BY <2>1, TurnHeard
  <2>4. ASSUME NEW k, k = "answer" \/ k = "side_claim" PROVE k \in {"answer", "declined", "no_response", "side_claim"}
    BY <2>4
  <2> QED
    BY <2>1, <2>2, <2>3
<1>3. ASSUME NEW k \in Voice!Replies, r \in Voice!Advance(d, <<Voice!Heard(d, k, call.qid)>>) PROVE Fair(e, r)
  BY <1>1, <1>2, <1>3, AdvanceIsFair
<1>4. ASSUME NEW x \in VoiceTurns, NEW y \in VoiceTurns, NEW p \in Seq(VoiceTurns), Len(p) = 2, p[1] = x, p[2] = y,
             NEW save \in {"push", "where"}, r = Voice!Result(d, save, p),
             ~IsAsked(x), ~IsAsked(y), y.kind \notin Voice!Replies,
             x.kind \in Voice!Replies => save = "where" /\ x.saw = Len(e.turns) /\ (x.to # 0 => x.to = Voice!OpenTurn(e.turns))
      PROVE  Fair(e, r)
  <2>1. /\ r.status = "same" /\ r.hold = d.hold /\ r.save = save /\ r.pushed = p
    BY <1>4 DEF Voice!Result
  <2>2. \A k \in 1 .. Len(r.pushed) : (k = 1 /\ r.pushed[k] = x) \/ (k = 2 /\ r.pushed[k] = y)
    <3>1. Len(r.pushed) = 2 /\ r.pushed[1] = x /\ r.pushed[2] = y
      BY <1>4, <2>1
    <3>2. \A k \in 1 .. 2 : k = 1 \/ k = 2
      OBVIOUS
    <3> QED
      BY <3>1, <3>2
  <2>3. /\ \A k \in 1 .. Len(r.pushed) : r.pushed[k].kind # "question"
        /\ \A k \in 1 .. Len(r.pushed) : r.pushed[k].kind \in Voice!Replies => k = 1 /\ r.pushed[k] = x
    BY <1>4, <2>2 DEF IsAsked
  <2>4. /\ r.pushed \in Seq(VoiceTurns) /\ r.save \in {"push", "where"} /\ r.hold \in Nat /\ r.hold <= Len(e.turns)
        /\ x.kind \in Voice!Replies => r.save = "where" /\ x.saw = Len(e.turns) /\ (x.to # 0 => x.to = Voice!OpenTurn(e.turns))
    BY <1>1, <1>4, <2>1
  <2> QED
    BY <2>1, <2>3, <2>4 DEF Fair
<1>5. CASE r = Voice!Hold(e)
  <2>1. r.status = "same" /\ r.hold = Len(e.turns) /\ r.save = "set" /\ r.pushed = <<>>
    BY <1>5 DEF Voice!Hold, Voice!Result
  <2> QED
    BY <1>1, <2>1 DEF Fair
<1>6. CASE r = Voice!Result(d, "push", <<Voice!Heard(d, "side_claim", call.qid), Voice!Said("side_reply")>>)
  <2> DEFINE h == Voice!Heard(d, "side_claim", call.qid)
             y == Voice!Said("side_reply")
             p == <<h, y>>
  <2>1. h \in VoiceTurns /\ y \in VoiceTurns /\ h.kind = "side_claim" /\ y.kind = "side_reply"
    BY <1>h, TurnsOfCalls
  <2> HIDE DEF h, y
  <2>2. p \in Seq(VoiceTurns) /\ Len(p) = 2 /\ p[1] = h /\ p[2] = y
    BY <2>1, PairPushed
  <2>3. r = Voice!Result(d, "push", p)
    BY <1>6 DEF h, y
  <2> HIDE DEF p
  <2> QED
    BY <1>4, <2>1, <2>2, <2>3 DEF Voice!Replies, IsAsked
<1>7. CASE r \in Voice!Record(d, call)
  <2>1. CASE r \in Voice!Advance(d, <<Voice!Heard(d, "answer", call.qid)>>)
    BY <1>3, <2>1 DEF Voice!Replies
  <2>2. CASE r = Voice!Result(d, "where", <<Voice!Heard(d, "answer", call.qid)>> \o <<Voice!Said("nudge")>>)
    <3> DEFINE h == Voice!Heard(d, "answer", call.qid)
               y == Voice!Said("nudge")
               p == <<h>> \o <<y>>
    <3>1. /\ h \in VoiceTurns /\ y \in VoiceTurns /\ h.kind = "answer" /\ h.to = call.qid /\ y.kind = "nudge"
          /\ h.saw = Len(e.turns)
      BY <1>h, TurnsOfCalls
    <3> HIDE DEF h, y
    <3>2. p \in Seq(VoiceTurns) /\ Len(p) = 2 /\ p[1] = h /\ p[2] = y
      BY <3>1, PairPushed
    <3>3. r = Voice!Result(d, "where", p)
      BY <2>2 DEF h, y
    <3> HIDE DEF p
    <3> QED
      BY <1>4, <3>1, <3>2, <3>3 DEF Voice!Replies, IsAsked
  <2>3. ASSUME NEW q \in Voice!Advance(d, <<>>), r = [q EXCEPT !.save = "where"] PROVE Fair(e, r)
    BY <1>1, <2>3, AdvanceIsFair
  <2> QED
    BY <1>7, <2>1, <2>2, <2>3 DEF Voice!Record
<1>8. \/ r \in Voice!Advance(d, <<Voice!Heard(d, "no_response", call.qid)>>) \/ r = Voice!Hold(e)
      \/ r = Voice!Result(d, "push", <<Voice!Heard(d, "side_claim", call.qid), Voice!Said("side_reply")>>)
      \/ r \in Voice!Advance(d, <<Voice!Heard(d, "declined", call.qid)>>) \/ r \in Voice!Record(d, call)
  <2>1. r # Voice!Refused
    BY DEF Voice!Refused
  <2>2. d = Voice!Released(e)
    BY DEF d
  <2> QED
    <3>1. \A k : Voice!Heard(e, k, call.qid) = Voice!Heard(d, k, call.qid)
      BY <1>1 DEF Voice!Heard
    <3> DEFINE none == Voice!Heard(e, "no_response", call.qid)
               claim == Voice!Heard(e, "side_claim", call.qid)
               no == Voice!Heard(e, "declined", call.qid)
               goes == Voice!Said("side_reply")
    <3>2. Voice!Submitted(e, call) =
              IF call.words = "nothing" /\ ~call.declined THEN {Voice!Refused}
              ELSE IF call.words \in {"nothing", "done"} THEN Voice!Advance(d, <<none>>)
              ELSE IF Voice!Unfinished(call) /\ ~Voice!ExpectsShortReply(e) /\ e.hold # Len(e.turns) THEN {Voice!Hold(e)}
              ELSE IF call.words = "repeat" THEN {Voice!Refused}
              ELSE IF call.words = "already" THEN {Voice!Result(d, "push", <<claim, goes>>)}
              ELSE IF call.words = "decline" THEN Voice!Advance(d, <<no>>)
              ELSE Voice!Record(d, call)
      BY <2>2, SubmittedIs, Zenon
    <3>3. none = Voice!Heard(d, "no_response", call.qid) /\ claim = Voice!Heard(d, "side_claim", call.qid) /\ no = Voice!Heard(d, "declined", call.qid)
      BY <3>1
    <3> HIDE DEF none, claim, no
    <3>4. \/ r \in Voice!Advance(d, <<none>>) \/ r = Voice!Hold(e) \/ r = Voice!Result(d, "push", <<claim, goes>>)
          \/ r \in Voice!Advance(d, <<no>>) \/ r \in Voice!Record(d, call)
      <4> HIDE DEF goes
      <4> QED
        BY <2>1, <3>2, ZenonT(40)
    <3> QED
      BY <3>3, <3>4
<1>9. "no_response" \in Voice!Replies /\ "declined" \in Voice!Replies
  BY DEF Voice!Replies
<1> QED
  BY <1>3, <1>5, <1>6, <1>7, <1>8, <1>9

(* Whatever a call saves is fair to the copy it was worked out on.           *)
LEMMA DispatchIsFair ==
    ASSUME VoiceBounds, NEW e, Sane(e), NEW call \in VoiceCalls, call.fn # "none",
           NEW r \in Voice!Dispatch(e, call), r.save # "none"
    PROVE  Fair(e, r)
<1>1. CASE call.fn = "get_next_question"
  <2>1. PICK save \in {"where", "push"} :
            /\ e.status = "not_started"
            /\ r = Voice!Turned(Voice!Result(e, save, <<Voice!Said("intro"), Voice!Said("warmup")>>), "in_progress")
    BY <1>1 DEF Voice!Dispatch, Voice!GetNextQuestion, Voice!Payload, Voice!Refused
  <2>2. /\ r.status = "in_progress" /\ r.hold = e.hold /\ r.save = save
        /\ r.pushed = <<Voice!Said("intro"), Voice!Said("warmup")>>
    BY <2>1 DEF Voice!Turned, Voice!Result
  <2> DEFINE x == Voice!Said("intro")
             y == Voice!Said("warmup")
  <2>3. x \in VoiceTurns /\ y \in VoiceTurns /\ x.kind = "intro" /\ x.role = "ai" /\ y.kind = "warmup"
    BY TurnsOfCalls
  <2>4. r.pushed = <<x, y>>
    BY <2>2
  <2> HIDE DEF x, y
  <2>5. r.pushed \in Seq(VoiceTurns) /\ Len(r.pushed) = 2 /\ r.pushed[1] = x /\ r.pushed[2] = y
    BY <2>3, <2>4, PairPushed
  <2>6. \A k \in 1 .. Len(r.pushed) : r.pushed[k].kind \notin Voice!Replies /\ r.pushed[k].kind # "question"
    <3>1. \A k \in 1 .. 2 : k = 1 \/ k = 2
      OBVIOUS
    <3> QED
      BY <2>3, <2>5, <3>1 DEF Voice!Replies
  <2>7. r.pushed # <<>> /\ IsOpen(r.pushed[1])
    BY <2>3, <2>5 DEF IsOpen
  <2> QED
    BY <2>1, <2>2, <2>5, <2>6, <2>7, ReleasedKeeps DEF Fair
<1>2. CASE call.fn = "submit_answer"
  <2>1. ~Voice!OutOfDate(e, call) /\ e.status = "in_progress" /\ r \in Voice!Submitted(e, call)
    BY <1>2 DEF Voice!Dispatch, Voice!SubmitAnswer, Voice!Payload, Voice!Refused
  <2>2. call.qid # 0 => call.qid = Voice!OpenTurn(e.turns)
    <3>1. Voice!OpenTurn(e.turns) # 0
      BY <2>1, OpenTurnFound, ReleasedKeeps DEF Sane
    <3> QED
      BY <2>1, <3>1 DEF Voice!OutOfDate, Voice!QuestionId
  <2> QED
    BY <2>1, <2>2, AnswerIsFair
<1>3. CASE call.fn = "end_interview"
  <2>1. /\ e.status = "in_progress"
        /\ r = Voice!Turned(Voice!Result(e, "push", <<Voice!Said("closing")>>), "ended_early")
    BY <1>3 DEF Voice!Dispatch, Voice!EndInterview, Voice!Refused
  <2>2. r.status = "ended_early" /\ r.hold = e.hold /\ r.save = "push" /\ r.pushed = <<Voice!Said("closing")>>
    BY <2>1 DEF Voice!Turned, Voice!Result
  <2> DEFINE x == Voice!Said("closing")
  <2>3. x \in VoiceTurns /\ x.kind = "closing"
    BY TurnsOfCalls
  <2>4. r.pushed = <<x>>
    BY <2>2
  <2> HIDE DEF x
  <2>5. r.pushed \in Seq(VoiceTurns) /\ \A k \in 1 .. Len(r.pushed) : r.pushed[k] = x
    BY <2>3, <2>4
  <2> QED
    BY <2>1, <2>2, <2>3, <2>5, ReleasedKeeps DEF Fair, Voice!Replies, IsAsked
<1> QED
  BY <1>1, <1>2, <1>3 DEF VoiceCalls

LEMMA AskedGrows ==
    ASSUME NEW t \in Seq(VoiceTurns), NEW u \in Seq(VoiceTurns), Len(t) <= Len(u), \A i \in 1 .. Len(t) : u[i] = t[i]
    PROVE  Voice!Asked(t) \in Nat /\ Voice!Asked(u) \in Nat /\ Voice!Asked(t) <= Voice!Asked(u)
<1> DEFINE A == {i \in DOMAIN t : t[i].kind \in Voice!Questions}
           B == {i \in DOMAIN u : u[i].kind \in Voice!Questions}
<1>1. A \subseteq B /\ B \subseteq 1 .. Len(u) /\ Len(u) \in Nat
  OBVIOUS
<1>2. Voice!Asked(t) = Cardinality(A) /\ Voice!Asked(u) = Cardinality(B)
  BY DEF Voice!Asked, Voice!Cardinality, Cardinality
<1> HIDE DEF A, B
<1>3. IsFiniteSet(B)
  <2>1. IsFiniteSet(1 .. Len(u))
    BY <1>1, FS_Interval
  <2> QED
    BY <1>1, <2>1, FS_Subset
<1> QED
  BY <1>1, <1>2, <1>3, FS_Subset, FS_CardinalityType

(* A save keeps the session in order, every copy behind it, and every answer
   with its question.                                                        *)
LEMMA SaveKeeps ==
    ASSUME VoiceBounds, VoiceInv, NEW c \in Calls, calls[c].step = "read",
           NEW r, Fair(calls[c].copy, r), r.save = "where" => doc.v = calls[c].copy.v, doc' = Voice!Saved(doc, r)
    PROVE  /\ Sane(doc)' /\ Len(doc.turns) \in Nat /\ Len(doc'.turns) \in Nat /\ Len(doc.turns) <= Len(doc'.turns)
           /\ \A d : IsBehind(d) => IsBehind(d)'
           /\ \A i \in 1 .. Len(doc'.turns) : StaysWith(doc'.turns, i)
<1> DEFINE e == calls[c].copy
           n == Len(doc.turns)
           m == Len(r.pushed)
           u == doc'.turns
<1>1. Sane(doc) /\ doc.turns \in Seq(VoiceTurns) /\ n \in Nat /\ IsBehind(e)
  BY DEF VoiceInv, Sane, VoiceDocs
<1>2. Sane(e) /\ e.turns \in Seq(VoiceTurns) /\ Len(e.turns) \in Nat /\ Len(e.turns) <= n /\ e.v \in Nat /\ doc.v \in Nat
  BY <1>1 DEF IsBehind, Sane, VoiceDocs
<1>3. r.pushed \in Seq(VoiceTurns) /\ m \in Nat /\ r.hold \in Nat /\ r.hold <= Len(e.turns)
  BY DEF Fair
<1>4. /\ u = doc.turns \o r.pushed /\ doc'.hold = r.hold
      /\ doc'.status = IF r.status = "same" THEN doc.status ELSE r.status
      /\ doc'.v = IF r.save = "set" THEN doc.v ELSE doc.v + 1
  BY <1>1 DEF Sane, VoiceDocs, Voice!Saved
<1>5. /\ u \in Seq(VoiceTurns) /\ Len(u) = n + m
      /\ \A i \in 1 .. n : u[i] = doc.turns[i]
      /\ \A i \in 1 .. m : u[n + i] = r.pushed[i]
  <2> DEFINE t == doc.turns
             p == r.pushed
  <2>1. t \in Seq(VoiceTurns) /\ p \in Seq(VoiceTurns)
    BY <1>1, <1>3
  <2> HIDE DEF t, p
  <2>2. /\ t \o p \in Seq(VoiceTurns) /\ Len(t \o p) = Len(t) + Len(p)
        /\ \A i \in 1 .. Len(t) : (t \o p)[i] = t[i]
        /\ \A i \in 1 .. Len(p) : (t \o p)[Len(t) + i] = p[i]
    BY <2>1, Joined
  <2> QED
    BY <1>4, <2>2 DEF t, p
<1>6. doc' \in VoiceDocs
  <2>1. r.status \in {"same", "in_progress", "completed", "ended_early"}
    BY DEF Fair
  <2> DEFINE st == IF r.status = "same" THEN doc.status ELSE r.status
             tu == doc.turns \o r.pushed
             ve == IF r.save = "set" THEN doc.v ELSE doc.v + 1
             as == IF \E i \in DOMAIN r.pushed : r.pushed[i].kind \in Voice!Questions \cup {"warmup", "nudge"} THEN 0 ELSE doc.asked
  <2>2. /\ st \in {"not_started", "in_progress", "completed", "ended_early"} /\ tu \in Seq(VoiceTurns)
        /\ ve \in Nat /\ as \in Nat
    BY <1>1, <1>4, <1>5, <2>1 DEF Sane, VoiceDocs
  <2>3. doc' = [doc EXCEPT !.status = st, !.turns = tu, !.hold = r.hold, !.v = ve, !.asked = as]
    BY DEF Voice!Saved
  <2> HIDE DEF st, tu, ve, as
  <2> QED
    BY <1>1, <1>3, <2>2, <2>3 DEF Sane, VoiceDocs
<1> HIDE DEF n, m, u
<1>7. ASSUME NEW i \in n + 1 .. n + m PROVE i - n \in 1 .. m /\ u[i] = r.pushed[i - n]
  <2>1. i - n \in 1 .. m /\ i = n + (i - n)
    BY <1>1, <1>3
  <2> QED
    BY <1>5, <2>1
<1>8. ASSUME NEW i \in 1 .. Len(e.turns) PROVE i \in 1 .. n /\ e.turns[i] = doc.turns[i] /\ u[i] = e.turns[i]
  <2>1. i \in 1 .. n /\ doc.turns[i] = e.turns[i]
    BY <1>1, <1>2 DEF IsBehind, n
  <2> QED
    BY <1>5, <2>1
<1>9. r.save = "where" => Len(e.turns) = n /\ e.status = doc.status
  BY <1>1 DEF IsBehind, n
<1>10. r.status # "in_progress" => e.status = "in_progress" /\ \E i \in 1 .. Len(e.turns) : IsOpen(e.turns[i])
  BY <1>2 DEF Fair, Sane
<1>11. Sane(doc)'
  <2>1. doc'.hold <= Len(u)
    BY <1>1, <1>2, <1>3, <1>4, <1>5
  <2>2. CASE r.status = "in_progress"
    <3>1. m # 0 /\ IsOpen(r.pushed[1])
      BY <1>3, <2>2 DEF Fair, m
    <3>2. n + 1 \in 1 .. Len(u) /\ IsOpen(u[n + 1])
      <4>1. n \in Nat /\ m \in Nat /\ Len(u) = n + m
        BY <1>1, <1>3, <1>5
      <4>2. n + 1 \in 1 .. Len(u) /\ n + 1 \in n + 1 .. n + m /\ (n + 1) - n = 1
        BY <3>1, <4>1
      <4>3. u[n + 1] = r.pushed[1]
        BY <1>7, <4>2
      <4> QED
        BY <3>1, <4>2, <4>3
    <3> QED
      BY <1>4, <1>6, <2>1, <2>2, <3>2 DEF Sane, u
  <2>3. CASE r.status # "in_progress"
    <3>1. PICK i \in 1 .. Len(e.turns) : IsOpen(e.turns[i])
      BY <1>10, <2>3
    <3>2. i \in 1 .. n /\ i \in 1 .. Len(u) /\ IsOpen(u[i])
      BY <1>1, <1>3, <1>5, <1>8, <3>1
    <3>3. doc.status # "not_started"
      BY <1>1, <3>2 DEF Sane, n
    <3>4. doc'.status # "not_started"
      BY <1>4, <3>3 DEF Fair
    <3> QED
      BY <1>6, <2>1, <3>2, <3>4 DEF Sane, u
  <2> QED
    BY <2>2, <2>3
<1>12. ASSUME NEW d, IsBehind(d) PROVE IsBehind(d)'
  <2>1. Sane(d) /\ d.v <= doc.v /\ d.v \in Nat /\ Len(d.turns) \in Nat /\ d.turns \in Seq(VoiceTurns) /\ Len(d.turns) <= n
    BY <1>12 DEF IsBehind, Sane, VoiceDocs, n
  <2>2. \A i \in 1 .. Len(d.turns) : i \in 1 .. n /\ doc.turns[i] = d.turns[i] /\ u[i] = d.turns[i]
    BY <1>1, <1>5, <1>12, <2>1 DEF IsBehind, n
  <2>3. d.v <= doc'.v /\ Len(d.turns) <= Len(u)
    BY <1>1, <1>2, <1>3, <1>4, <1>5, <2>1
  <2>4. d.v = doc'.v => Len(d.turns) = Len(u) /\ d.status = doc'.status
    <3> SUFFICES ASSUME d.v = doc'.v PROVE Len(d.turns) = Len(u) /\ d.status = doc'.status
      OBVIOUS
    <3>1. r.save = "set" /\ d.v = doc.v
      BY <1>2, <1>4, <2>1
    <3>2. m = 0 /\ r.status = "same"
      BY <3>1 DEF Fair, m
    <3> QED
      BY <1>1, <1>4, <1>5, <1>12, <3>1, <3>2 DEF IsBehind, n
  <2>5. ASSUME d.status = "in_progress", ~(Voice!Asked(d.turns) < MaxQuestions), NEW i \in Len(d.turns) + 1 .. Len(u)
        PROVE  u[i].kind # "question"
    <3>1. CASE i \in 1 .. n
      <4>1. i \in Len(d.turns) + 1 .. n /\ u[i] = doc.turns[i]
        BY <1>1, <1>5, <2>1, <2>5, <3>1
      <4> QED
        BY <1>12, <2>5, <4>1 DEF IsBehind, n
    <3>2. CASE i \in n + 1 .. n + m
      <4> SUFFICES ASSUME r.pushed[i - n].kind = "question" PROVE FALSE
        BY <1>7, <3>2
      <4>1. r.save = "where" /\ Voice!Asked(e.turns) < MaxQuestions
        BY <1>7, <3>2 DEF Fair, m
      <4>2. Len(e.turns) = n
        BY <1>9, <4>1
      <4>3. \A j \in 1 .. Len(d.turns) : e.turns[j] = d.turns[j]
        BY <1>8, <2>2, <4>2
      <4>4. Voice!Asked(d.turns) \in Nat /\ Voice!Asked(e.turns) \in Nat /\ Voice!Asked(d.turns) <= Voice!Asked(e.turns)
        BY <1>2, <2>1, <4>2, <4>3, AskedGrows
      <4> QED
        BY <2>5, <4>1, <4>4 DEF VoiceBounds
    <3> QED
      BY <1>1, <1>3, <1>5, <2>1, <3>1, <3>2
  <2> QED
    BY <2>1, <2>2, <2>3, <2>4, <2>5 DEF IsBehind, u
<1>13. ASSUME NEW i \in 1 .. Len(u) PROVE StaysWith(u, i)
  <2>0. Len(u) = n + m /\ n \in Nat /\ m \in Nat
    BY <1>1, <1>3, <1>5
  <2>1. CASE i \in 1 .. n
    <3>1. StaysWith(doc.turns, i) /\ \A j \in 1 .. n : u[j] = doc.turns[j]
      BY <1>5, <2>1 DEF VoiceInv, n
    <3> SUFFICES ASSUME u[i].kind \in Voice!Replies, u[i].to # 0, NEW o, o = u[i].to
                 PROVE  o \in 1 .. i /\ (Close(u, o, i) \/ Strayed(u, o, i))
      BY DEF StaysWith
    <3>2. u[i] = doc.turns[i] /\ o \in 1 .. i /\ (Close(doc.turns, o, i) \/ Strayed(doc.turns, o, i))
      BY <2>1, <3>1 DEF StaysWith
    <3>3. CASE Close(doc.turns, o, i)
      <4>1. \A j \in o + 1 .. i : u[j] = doc.turns[j]
        BY <2>0, <2>1, <3>1, <3>2
      <4> QED
        BY <3>2, <3>3, <4>1 DEF Close
    <3>4. CASE Strayed(doc.turns, o, i)
      <4>1. PICK j \in o + 1 .. i + 1 : j \in 1 .. n /\ IsFree(doc.turns[j])
        BY <3>4 DEF Strayed, n
      <4>2. j \in 1 .. Len(u) /\ IsFree(u[j])
        BY <2>0, <3>1, <4>1
      <4> QED
        BY <3>2, <3>4, <4>2 DEF Strayed
    <3> QED
      BY <3>2, <3>3, <3>4
  <2>2. CASE i \in n + 1 .. n + m
    <3> SUFFICES ASSUME u[i].kind \in Voice!Replies, u[i].to # 0
                 PROVE  u[i].to \in 1 .. i /\ (Close(u, u[i].to, i) \/ Strayed(u, u[i].to, i))
      BY DEF StaysWith
    <3> DEFINE o == Voice!OpenTurn(e.turns)
    <3>1. /\ i = n + 1 /\ e.status = "in_progress" /\ u[i].to = o /\ u[i].saw = Len(e.turns)
          /\ \/ r.save = "where" \/ ~(Voice!Asked(e.turns) < MaxQuestions)
             \/ m = 2 /\ r.pushed[2].kind = "own"
      <4>1. i - n \in 1 .. m /\ u[i] = r.pushed[i - n]
        BY <1>7, <2>2
      <4>2. /\ i - n = 1 /\ e.status = "in_progress" /\ u[i].to = o /\ u[i].saw = Len(e.turns)
            /\ \/ r.save = "where" \/ ~(Voice!Asked(e.turns) < MaxQuestions)
               \/ m = 2 /\ r.pushed[2].kind = "own"
        BY <4>1 DEF Fair, m
      <4> QED
        BY <1>1, <2>2, <4>2
    <3>2. o \in 0 .. Len(e.turns) /\ \A j \in 1 .. Len(e.turns) : IsOpen(e.turns[j]) => j <= o
      BY <1>2, OpenTurnFound
    <3> HIDE DEF o
    <3>3. u[i].to \in 1 .. i
      BY <1>1, <1>2, <3>1, <3>2 DEF n
    <3>4. ASSUME NEW j \in o + 1 .. i, IsAsked(u[j]) PROVE j \in Len(e.turns) + 1 .. n /\ u[j] = doc.turns[j]
      <4>1. j # i
        BY <3>4 DEF Voice!Replies, IsAsked
      <4>2. j \notin 1 .. Len(e.turns)
        <5> SUFFICES ASSUME j \in 1 .. Len(e.turns) PROVE FALSE
          OBVIOUS
        <5>1. ~IsOpen(e.turns[j]) /\ u[j] = e.turns[j] /\ e.turns[j] \in VoiceTurns
          BY <1>2, <1>8, <3>2, <3>4
        <5> QED
          BY <3>4, <5>1 DEF IsOpen, IsAsked, VoiceTurns, SaidTurns, HeardTurns
      <4>3. j \in Len(e.turns) + 1 .. n
        <5>1. i = n + 1 /\ o \in Nat
          BY <3>1, <3>2
        <5>2. j \in Nat /\ j >= 1 /\ j <= n
          BY <1>1, <2>0, <3>4, <4>1, <5>1
        <5>3. Len(e.turns) \in Nat
          BY <1>2
        <5> QED
          BY <2>0, <4>2, <5>2, <5>3
      <4>4. j \in 1 .. n
        BY <1>2, <2>0, <4>3
      <4> QED
        BY <1>5, <4>3, <4>4
    <3>5. CASE \A j \in o + 1 .. i : ~IsAsked(u[j])
      BY <3>1, <3>3, <3>5 DEF Close
    <3>6. CASE \E j \in o + 1 .. i : IsAsked(u[j])
      <4>1. PICK j \in o + 1 .. i : IsAsked(u[j])
        BY <3>6
      <4>2. j \in Len(e.turns) + 1 .. n /\ u[j] = doc.turns[j]
        BY <3>4, <4>1
      <4>a. PICK len \in Nat : len = Len(e.turns)
        BY <1>2
      <4>d. j \in len + 1 .. n
        BY <4>a, <4>2
      <4>b. j \in Nat /\ len + 1 <= j /\ j <= n /\ n \in Nat
        BY <1>1, <4>d
      <4>c. u[i].saw = len /\ i = n + 1
        BY <3>1, <4>a
      <4>3. u[i].saw < i - 1 /\ Len(e.turns) # n
        BY <4>a, <4>b, <4>c
      <4>4. r.save # "where"
        BY <1>9, <4>3
      <4>5. \E k \in o + 1 .. i + 1 : k \in 1 .. Len(u) /\ IsFree(u[k])
        <5>1. CASE ~(Voice!Asked(e.turns) < MaxQuestions)
          <6>1. doc.turns[j].kind # "question"
            BY <1>1, <3>1, <4>2, <5>1 DEF IsBehind, n
          <6>2. IsFree(u[j])
            BY <4>1, <4>2, <6>1 DEF IsAsked, IsFree
          <6>3. j \in o + 1 .. i + 1 /\ j \in 1 .. Len(u)
            BY <1>2, <2>0, <3>1, <3>2, <4>2
          <6> QED
            BY <6>2, <6>3
        <5>2. CASE m = 2 /\ r.pushed[2].kind = "own"
          <6>1. i + 1 \in n + 1 .. n + m /\ i + 1 \in 1 .. Len(u) /\ (i + 1) - n = 2 /\ i + 1 \in o + 1 .. i + 1
            BY <1>2, <2>0, <3>1, <3>2, <4>2, <5>2
          <6>2. u[i + 1] = r.pushed[2]
            BY <1>7, <6>1
          <6> QED
            BY <5>2, <6>1, <6>2 DEF IsFree
        <5> QED
          BY <3>1, <4>4, <5>1, <5>2
      <4> QED
        BY <3>1, <3>3, <4>3, <4>5 DEF Strayed
    <3> QED
      BY <3>5, <3>6
  <2> QED
    BY <2>0, <2>1, <2>2
<1>14. \A d : IsBehind(d) => IsBehind(d)'
  BY <1>12
<1>15. \A i \in 1 .. Len(u) : StaysWith(u, i)
  BY <1>13
<1>16. Len(u) \in Nat /\ n <= Len(u)
  BY <1>1, <1>3, <1>5
<1> QED
  BY <1>1, <1>11, <1>14, <1>15, <1>16 DEF n, u

(* What a step leaves when it changes one call.                              *)
LEMMA VoiceRest ==
    ASSUME VoiceInv, Sane(doc)', \A e : IsBehind(e) => IsBehind(e)', \A i \in 1 .. Len(doc'.turns) : StaysWith(doc'.turns, i),
           NEW c \in Calls, NEW x \in VoiceCalls, x.step # "idle" => x.fn # "none", calls' = [calls EXCEPT ![c] = x],
           x.step = "read" => IsBehind(calls[c].copy)',
           worker' \in [qid : Nat, made : Nat], worker'.qid <= Len(doc'.turns)
    PROVE  VoiceInv'
<1>1. calls \in [Calls -> VoiceCalls] /\ calls' \in [Calls -> VoiceCalls] /\ calls'[c] = x
  BY DEF VoiceInv
<1>2. \A o \in Calls \ {c} : calls'[o] = calls[o]
  BY DEF VoiceInv
<1>3. ASSUME NEW o \in Calls PROVE calls'[o].step # "idle" => calls'[o].fn # "none"
  BY <1>1, <1>2 DEF VoiceInv
<1>4. ASSUME NEW o \in Calls, calls'[o].step = "read" PROVE IsBehind(calls[o].copy)'
  <2>1. CASE o = c
    BY <1>1, <1>4, <2>1
  <2>2. ASSUME o # c, NEW e, e = calls[o].copy PROVE IsBehind(calls[o].copy)'
    <3>1. IsBehind(e)
      BY <1>2, <1>4, <2>2 DEF VoiceInv
    <3>2. IsBehind(e)' /\ calls'[o].copy = e
      BY <1>2, <2>2, <3>1
    <3> QED
      BY <3>2
  <2> QED
    BY <2>1, <2>2
<1> QED
  BY <1>1, <1>3, <1>4 DEF VoiceInv

LEMMA SameDoc ==
    ASSUME VoiceInv, doc' = doc
    PROVE  /\ Sane(doc)' /\ \A e : IsBehind(e) => IsBehind(e)'
           /\ \A i \in 1 .. Len(doc'.turns) : StaysWith(doc'.turns, i)
           /\ Len(doc.turns) \in Nat /\ Len(doc'.turns) = Len(doc.turns)
<1>1. ASSUME NEW e, IsBehind(e) PROVE IsBehind(e)'
  BY <1>1 DEF IsBehind
<1>2. Sane(doc)' /\ Len(doc.turns) \in Nat
  BY DEF VoiceInv, Sane, VoiceDocs
<1> QED
  BY <1>1, <1>2 DEF VoiceInv

LEMMA RestingCall == Voice!Idle \in VoiceCalls /\ Voice!Idle.step = "idle"
BY DEF Voice!Idle, VoiceCalls

LEMMA DocIsBehind == ASSUME Sane(doc) PROVE IsBehind(doc)
BY DEF IsBehind, Sane, VoiceDocs

(* What goes back to the worker is the id of a turn that is stored.          *)
LEMMA VoiceReturn ==
    ASSUME VoiceInv, NEW c \in Calls, NEW r, NEW d, Voice!Return(c, r, d),
           Sane(doc)', \A e : IsBehind(e) => IsBehind(e)', \A i \in 1 .. Len(doc'.turns) : StaysWith(doc'.turns, i),
           Len(doc.turns) \in Nat, Len(doc'.turns) \in Nat, Len(doc.turns) <= Len(doc'.turns),
           Voice!QuestionId(d) \in 0 .. Len(doc'.turns)
    PROVE  VoiceInv'
<1>1. calls' = [calls EXCEPT ![c] = Voice!Idle]
  BY DEF Voice!Return
<1>2. worker \in [qid : Nat, made : Nat] /\ worker.qid <= Len(doc.turns)
  BY DEF VoiceInv
<1>3. worker' \in [qid : Nat, made : Nat] /\ worker'.qid <= Len(doc'.turns)
  BY <1>2 DEF Voice!Return
<1> QED
  BY <1>1, <1>3, RestingCall, VoiceRest

LEMMA VoiceFinish == ASSUME VoiceBounds, VoiceInv, NEW c \in Calls, Voice!Finish(c) PROVE VoiceInv'
<1> DEFINE e == calls[c].copy
<1>1. calls[c].step = "read" /\ calls[c] \in VoiceCalls /\ calls[c].fn # "none" /\ IsBehind(e)
  BY DEF Voice!Finish, VoiceInv
<1>2. Sane(e) /\ Len(e.turns) \in Nat /\ Len(doc.turns) \in Nat /\ Len(e.turns) <= Len(doc.turns) /\ e.turns \in Seq(VoiceTurns)
  BY <1>1 DEF IsBehind, VoiceInv, Sane, VoiceDocs
<1>3. PICK r \in Voice!Dispatch(e, calls[c]) :
          IF r.save = "none" THEN Voice!Return(c, r, e) /\ UNCHANGED doc
          ELSE /\ r.save = "where" => doc.v = e.v
               /\ doc' = Voice!Saved(doc, r)
               /\ Voice!Return(c, r, Voice!Saved(e, r))
  BY DEF Voice!Finish
<1>4. CASE r.save = "none"
  <2>1. Voice!QuestionId(e) \in 0 .. Len(doc.turns)
    BY <1>2, OpenTurnFound DEF Voice!QuestionId
  <2> QED
    BY <1>2, <1>3, <1>4, <2>1, SameDoc, VoiceReturn
<1>5. CASE r.save # "none"
  <2>1. Fair(e, r)
    BY <1>1, <1>2, <1>3, <1>5, DispatchIsFair
  <2>2. (r.save = "where" => doc.v = e.v) /\ doc' = Voice!Saved(doc, r) /\ Voice!Return(c, r, Voice!Saved(e, r))
    BY <1>3, <1>5
  <2>3. /\ Sane(doc)' /\ Len(doc.turns) \in Nat /\ Len(doc'.turns) \in Nat /\ Len(doc.turns) <= Len(doc'.turns)
        /\ \A d : IsBehind(d) => IsBehind(d)'
        /\ \A i \in 1 .. Len(doc'.turns) : StaysWith(doc'.turns, i)
    BY <1>1, <2>1, <2>2, SaveKeeps
  <2>4. Voice!QuestionId(Voice!Saved(e, r)) \in 0 .. Len(doc'.turns)
    <3> DEFINE t == e.turns
               p == r.pushed
               u == doc.turns
    <3>1. Voice!Saved(e, r).turns = t \o p /\ doc'.turns = u \o p
      BY <1>2, <2>2 DEF Voice!Saved, Sane, VoiceDocs, VoiceInv
    <3>2. t \in Seq(VoiceTurns) /\ p \in Seq(VoiceTurns) /\ u \in Seq(VoiceTurns) /\ Len(t) <= Len(u)
      BY <1>2, <2>1 DEF Fair, VoiceInv, Sane, VoiceDocs
    <3> HIDE DEF t, p, u
    <3>3. /\ t \o p \in Seq(VoiceTurns) /\ Len(t \o p) = Len(t) + Len(p) /\ Len(u \o p) = Len(u) + Len(p)
          /\ Len(t) \in Nat /\ Len(p) \in Nat /\ Len(u) \in Nat
      BY <3>2, Joined
    <3>4. Voice!OpenTurn(t \o p) \in 0 .. Len(t \o p)
      BY <3>3, OpenTurnFound
    <3> QED
      BY <3>1, <3>2, <3>3, <3>4 DEF Voice!QuestionId
  <2> QED
    BY <2>2, <2>3, <2>4, VoiceReturn
<1> QED
  BY <1>4, <1>5

LEMMA VoiceStep == ASSUME VoiceBounds, VoiceInv, [Voice!Next]_(Voice!vars) PROVE VoiceInv'
<1>1. ASSUME NEW c \in Calls, NEW fn \in {"get_next_question", "submit_answer", "end_interview"},
             NEW words \in Voice!Words \cup {"none"}, NEW declined \in BOOLEAN, Voice!Send(c, fn, words, declined)
      PROVE  VoiceInv'
  <2> DEFINE x == [Voice!Idle EXCEPT !.step = "sent", !.fn = fn, !.qid = worker.qid, !.words = words, !.declined = declined]
  <2>1. worker \in [qid : Nat, made : Nat] /\ worker.qid <= Len(doc.turns)
    BY DEF VoiceInv
  <2>2. x \in VoiceCalls /\ x.step = "sent" /\ x.fn # "none"
    BY <2>1 DEF Voice!Idle, VoiceCalls
  <2>3. calls' = [calls EXCEPT ![c] = x] /\ doc' = doc /\ worker' = [worker EXCEPT !.made = @ + 1]
    BY <1>1 DEF Voice!Send
  <2> HIDE DEF x
  <2>4. worker' \in [qid : Nat, made : Nat] /\ worker'.qid = worker.qid
    BY <2>1, <2>3
  <2> QED
    BY <2>1, <2>2, <2>3, <2>4, SameDoc, VoiceRest
<1>2. ASSUME NEW c \in Calls, NEW tries \in Nat, calls[c].step \in {"sent", "read"}, UNCHANGED <<doc, worker>>,
             calls' = [calls EXCEPT ![c] = [calls[c] EXCEPT !.step = "read", !.tries = tries, !.copy = doc]]
      PROVE  VoiceInv'
  <2> DEFINE x == [calls[c] EXCEPT !.step = "read", !.tries = tries, !.copy = doc]
  <2>1. Sane(doc) /\ doc \in VoiceDocs /\ calls[c] \in VoiceCalls /\ calls[c].fn # "none" /\ calls \in [Calls -> VoiceCalls]
    BY <1>2 DEF VoiceInv, Sane
  <2>2. x \in VoiceCalls /\ x.fn # "none" /\ x.copy = doc
    BY <2>1 DEF VoiceCalls
  <2>3. calls' = [calls EXCEPT ![c] = x]
    BY <1>2
  <2> HIDE DEF x
  <2>4. calls'[c].copy = doc'
    BY <1>2, <2>1, <2>2, <2>3
  <2>5. IsBehind(doc)'
    BY <1>2, SameDoc, DocIsBehind
  <2>6. IsBehind(calls[c].copy)'
    BY <2>4, <2>5
  <2> QED
    BY <1>2, <2>2, <2>3, <2>6, SameDoc, VoiceRest DEF VoiceInv
<1>3. ASSUME NEW c \in Calls, Voice!Read(c) PROVE VoiceInv'
  <2>1. calls[c] \in VoiceCalls /\ calls[c].tries \in Nat /\ calls[c].step = "sent" /\ calls \in [Calls -> VoiceCalls]
    BY <1>3 DEF Voice!Read, VoiceInv, VoiceCalls
  <2>2. calls' = [calls EXCEPT ![c] = [calls[c] EXCEPT !.step = "read", !.tries = calls[c].tries, !.copy = doc]]
    BY <1>3, <2>1 DEF Voice!Read, VoiceCalls
  <2> QED
    BY <1>2, <1>3, <2>1, <2>2 DEF Voice!Read
<1>4. ASSUME NEW c \in Calls, Voice!Conflict(c) PROVE VoiceInv'
  <2>1. calls[c] \in VoiceCalls /\ calls[c].tries \in Nat /\ calls[c].step = "read" /\ UNCHANGED <<doc, worker>>
    BY <1>4 DEF Voice!Conflict, VoiceInv, VoiceCalls
  <2>2. CASE calls[c].tries < 2
    <3>1. calls' = [calls EXCEPT ![c] = [calls[c] EXCEPT !.tries = calls[c].tries + 1, !.copy = doc]]
      BY <1>4, <2>2 DEF Voice!Conflict
    <3>2. [calls[c] EXCEPT !.tries = calls[c].tries + 1, !.copy = doc]
              = [calls[c] EXCEPT !.step = "read", !.tries = calls[c].tries + 1, !.copy = doc]
      BY <2>1 DEF VoiceCalls
    <3>3. calls' = [calls EXCEPT ![c] = [calls[c] EXCEPT !.step = "read", !.tries = calls[c].tries + 1, !.copy = doc]]
      BY <3>1, <3>2
    <3>4. calls[c].tries + 1 \in Nat
      BY <2>1
    <3> QED
      BY <1>2, <2>1, <3>3, <3>4
  <2>3. CASE ~(calls[c].tries < 2)
    <3>1. calls' = [calls EXCEPT ![c] = Voice!Idle]
      BY <1>4, <2>3 DEF Voice!Conflict, VoiceInv
    <3> QED
      BY <2>1, <3>1, RestingCall, SameDoc, VoiceRest DEF VoiceInv
  <2> QED
    BY <2>2, <2>3
<1>5. ASSUME Voice!Transcript PROVE VoiceInv'
  <2>1. Sane(doc) /\ doc \in VoiceDocs /\ UNCHANGED <<calls, worker>>
    BY <1>5 DEF Voice!Transcript, VoiceInv, Sane
  <2>2. /\ doc' \in VoiceDocs /\ doc'.turns = doc.turns /\ doc'.status = doc.status
        /\ doc'.hold = doc.hold /\ doc'.v = doc.v
    <3>1. ASSUME NEW n \in Nat, NEW b \in BOOLEAN, doc' = [doc EXCEPT !.asked = n, !.repeat = b]
          PROVE  /\ doc' \in VoiceDocs /\ doc'.turns = doc.turns /\ doc'.status = doc.status
                 /\ doc'.hold = doc.hold /\ doc'.v = doc.v
      <4>1. doc'.turns = doc.turns /\ doc'.status = doc.status /\ doc'.hold = doc.hold /\ doc'.v = doc.v
        BY <2>1, <3>1 DEF VoiceDocs
      <4>2. doc' \in VoiceDocs
        BY <2>1, <3>1 DEF VoiceDocs
      <4> QED
        BY <4>1, <4>2
    <3>2. CASE doc' = [doc EXCEPT !.asked = doc.asked + 1, !.repeat = FALSE]
      <4>1. doc.asked + 1 \in Nat
        BY <2>1 DEF VoiceDocs
      <4> QED
        BY <3>1, <3>2, <4>1
    <3>3. CASE doc' = [doc EXCEPT !.repeat = TRUE]
      <4>1. doc.asked \in Nat /\ doc' = [doc EXCEPT !.asked = doc.asked, !.repeat = TRUE]
        BY <2>1, <3>3 DEF VoiceDocs
      <4> QED
        BY <3>1, <4>1
    <3> QED
      BY <1>5, <3>2, <3>3 DEF Voice!Transcript
  <2>3. Sane(doc)'
    BY <2>1, <2>2 DEF Sane
  <2>4. ASSUME NEW e, IsBehind(e) PROVE IsBehind(e)'
    BY <2>2, <2>4 DEF IsBehind
  <2>5. ASSUME NEW c \in Calls, calls'[c].step = "read" PROVE IsBehind(calls[c].copy)'
    <3>1. ASSUME NEW e, e = calls[c].copy PROVE IsBehind(calls[c].copy)'
      BY <2>1, <2>4, <2>5, <3>1 DEF VoiceInv
    <3> QED
      BY <3>1
  <2> QED
    BY <2>1, <2>2, <2>3, <2>5 DEF VoiceInv
<1>6. CASE UNCHANGED Voice!vars
  BY <1>6 DEF Voice!vars, VoiceInv, IsBehind, Sane
<1>7. ASSUME NEW c \in Calls,
             \/ Voice!Send(c, "get_next_question", "none", FALSE)
             \/ \E words \in Kinds, declined \in BOOLEAN : Voice!Send(c, "submit_answer", words, declined)
             \/ "end" \in Kinds /\ Voice!Send(c, "end_interview", "end", FALSE)
             \/ Voice!Read(c) \/ Voice!Finish(c) \/ Voice!Conflict(c)
      PROVE  VoiceInv'
  <2>1. CASE Voice!Send(c, "get_next_question", "none", FALSE)
    BY <1>1, <2>1
  <2>2. CASE \E words \in Kinds, declined \in BOOLEAN : Voice!Send(c, "submit_answer", words, declined)
    BY <1>1, <2>2 DEF VoiceBounds
  <2>3. CASE "end" \in Kinds /\ Voice!Send(c, "end_interview", "end", FALSE)
    BY <1>1, <2>3 DEF VoiceBounds
  <2> QED
    BY <1>3, <1>4, <1>7, <2>1, <2>2, <2>3, VoiceFinish
<1> QED
  BY <1>5, <1>6, <1>7 DEF Voice!Next

LEMMA VoiceStart == ASSUME VoiceBounds, Voice!Init PROVE VoiceInv
<1>1. doc = [status |-> "not_started", turns |-> <<>>, hold |-> 0, v |-> 0, asked |-> 0, repeat |-> FALSE]
  BY DEF Voice!Init
<1>2. Sane(doc) /\ Len(doc.turns) = 0
  BY <1>1 DEF Sane, VoiceDocs
<1> QED
  BY <1>2, RestingCall DEF Voice!Init, VoiceInv

LEMMA VoiceKept == ASSUME VoiceBounds PROVE Voice!Spec => []VoiceInv
<1>1. Voice!Init => VoiceInv
  BY VoiceStart
<1>2. VoiceInv /\ [Voice!Next]_(Voice!vars) => VoiceInv'
  BY VoiceStep
<1> QED
  BY <1>1, <1>2, PTL DEF Voice!Spec

(* The last question at a turn is the same when none stands in between.      *)
LEMMA SameQuestion ==
    ASSUME VoiceInv, NEW i \in 1 .. Len(doc.turns), NEW o \in 1 .. i, \A j \in o + 1 .. i : ~IsAsked(doc.turns[j])
    PROVE  Voice!QuestionAt(i) = Voice!QuestionAt(o)
<1> DEFINE t == doc.turns
           Hits(k) == {j \in 1 .. Len(SubSeq(t, 1, k)) : SubSeq(t, 1, k)[j].kind \in Voice!Opening}
<1>1. t \in Seq(VoiceTurns) /\ Len(t) \in Nat
  BY DEF VoiceInv, Sane, VoiceDocs
<1>2. ASSUME NEW k \in 1 .. Len(t) PROVE Hits(k) = {j \in 1 .. k : IsAsked(t[j])}
  <2> HIDE DEF t
  <2>1. Len(SubSeq(t, 1, k)) = k /\ \A j \in 1 .. k : SubSeq(t, 1, k)[j] = t[j]
    BY <1>1
  <2> QED
    BY <2>1 DEF IsAsked, Voice!Opening, Voice!Questions
<1>3. Hits(i) = Hits(o)
  <2>1. o \in 1 .. Len(t) /\ \A j \in 1 .. i : j \in 1 .. o \/ j \in o + 1 .. i
    BY <1>1
  <2>2. \A j \in 1 .. o : j \in 1 .. i
    BY <1>1
  <2> HIDE DEF Hits
  <2> QED
    BY <1>2, <2>1, <2>2
<1>4. \A k \in 1 .. Len(t) : Voice!QuestionAt(k) = IF Hits(k) # {} THEN Voice!Max(Hits(k)) ELSE 0
  BY DEF Voice!QuestionAt, Voice!SelectLastInSeq
<1>5. i \in 1 .. Len(t) /\ o \in 1 .. Len(t)
  BY <1>1
<1> HIDE DEF Hits
<1> QED
  BY <1>3, <1>4, <1>5

(* The voice session stays within its states: the document, what each request
   has read of it and the work kept for the realtime model (voiceAgentService.js). *)
THEOREM VoiceIsTyped == ASSUME VoiceBounds PROVE Voice!Spec => []Voice!TypeOK
<1>1. VoiceInv => Voice!TypeOK
  BY DEF VoiceInv, Voice!TypeOK, Sane, VoiceDocs, VoiceCalls
<1> QED
  BY <1>1, VoiceKept, PTL

(* An answer that came in by voice is stored under the question that was last
   asked when it was given, whichever calls of the realtime model are repeated,
   late or read the session before another was saved; save for a call that is
   saved over turns it had not read, with a question that needs no version (one
   of the interviewer's own or the warm-up) among them or next to it
   (voiceAgentService.js).                                                   *)
THEOREM AnswersKeepTheirQuestion == ASSUME VoiceBounds PROVE Voice!Spec => []Voice!AnswersStayWithTheirQuestion
<1>1. VoiceInv => Voice!AnswersStayWithTheirQuestion
  <2> SUFFICES ASSUME VoiceInv, NEW i \in 1 .. Len(doc.turns), doc.turns[i].kind \in Voice!Replies, doc.turns[i].to # 0
               PROVE  \/ Voice!QuestionAt(i) = Voice!QuestionAt(doc.turns[i].to)
                      \/ Voice!Unseen(i) /\ Voice!Unchecked(i, doc.turns[i].to)
    BY DEF Voice!AnswersStayWithTheirQuestion, Voice!Given, VoiceInv, Sane, VoiceDocs
  <2> DEFINE o == doc.turns[i].to
  <2>1. o \in 1 .. i /\ (Close(doc.turns, o, i) \/ Strayed(doc.turns, o, i))
    BY DEF VoiceInv, StaysWith
  <2>2. CASE Close(doc.turns, o, i)
    BY <2>1, <2>2, SameQuestion DEF Close
  <2>3. CASE Strayed(doc.turns, o, i)
    <3>1. DOMAIN doc.turns = 1 .. Len(doc.turns)
      BY DEF VoiceInv, Sane, VoiceDocs
    <3> QED
      BY <2>3, <3>1 DEF Strayed, IsFree, Voice!Unseen, Voice!Unchecked
  <2> QED
    BY <2>1, <2>2, <2>3
<1> QED
  BY <1>1, VoiceKept, PTL

=============================================================================
