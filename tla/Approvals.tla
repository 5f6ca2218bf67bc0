------------------------------- MODULE Approvals -------------------------------
(* The versioned documents a recruiter approves before an interview uses them:
   a job's rubric, question set and assessment paper, a company's persona
   (rubricService.js, questionSetService.js, personaService.js,
   assessmentPaperService.js).  A version is a draft, is approved - frozen - and
   is archived by its successor.  A paper's items are written by a run in the
   background (itemGenService.js).                                           *)
EXTENDS Integers, FiniteSets

CONSTANTS Kinds,        \* among "rubric", "questions", "persona" and "paper"
          Overlapping,  \* the kinds whose requests are not taken one at a time
          Requests, Sources,
          NoSource,     \* a draft typed in by hand has no source
          MaxDocs, MaxEdits, MaxItems,
          Served        \* the items a paper's section serves

VARIABLES kind,  \* the kind of document, the same all along
          job,   \* what the documents are compiled from: the job, its rubric
          docs,  \* the versions, in the order of their creation
          req    \* the requests on their way

vars == <<kind, job, docs, req>>

Ids == 1 .. MaxDocs
NoDoc == [status |-> "none", version |-> 0, source |-> NoSource, text |-> 0, active |-> 0, flagged |-> 0, run |-> "none", frozen |-> {}]
Idle == [step |-> "idle", doc |-> 0, source |-> NoSource, number |-> 0, text |-> 0, previous |-> {}]

(* A version: a paper's items are those that are active or flagged, and what an
   approval freezes is its text and its items.                               *)
Versioned ==
    [status : {"none", "draft", "approved", "archived", "deleted"}, version : 0 .. MaxDocs, source : Sources \cup {NoSource},
     text : Nat, active : 0 .. MaxItems, flagged : 0 .. MaxItems, run : {"none", "running", "stale", "done"},
     frozen : SUBSET (Nat \X (0 .. MaxItems) \X (0 .. MaxItems))]

TypeOK ==
    /\ kind \in Kinds /\ job \in Sources
    /\ docs \in [Ids -> Versioned] /\ \A d \in Ids : docs[d].active + docs[d].flagged <= MaxItems
    /\ \A r \in Requests : req[r].previous \subseteq Ids

Init == kind \in Kinds /\ job \in Sources /\ docs = [d \in Ids |-> NoDoc] /\ req = [r \in Requests |-> Idle]

There == {d \in Ids : docs[d].status \in {"draft", "approved", "archived"}}
Approved == {d \in There : docs[d].status = "approved"}

(* A request that only reads and writes the documents, not one that waits for
   the model or works in the background.                                     *)
Alone(r) == kind \in Overlapping \/ \A q \in Requests : req[q].step \in {"idle", "compile", "create", "generate"}
Begin(r, next) == req[r].step = "idle" /\ req' = [req EXCEPT ![r] = next] /\ UNCHANGED <<kind, job, docs>>
At(r, step) == req[r].step = step
End(r) == req' = [req EXCEPT ![r] = Idle]

-----------------------------------------------------------------------------
(* Drafts.                                                                   *)

EditJob == job' \in Sources /\ UNCHANGED <<kind, docs, req>>

DraftOf(source) == {d \in There : docs[d].status = "draft" /\ docs[d].source = source}

(* The draft of this very source serves again; otherwise the model is asked -
   without it the fallback serves, but for a paper, which is refused - and then
   the number is taken.                                                      *)
Ask(r) == DraftOf(job) = {} /\ Begin(r, [Idle EXCEPT !.step = "compile", !.source = job])
CompileRubric(r) == kind = "rubric" /\ Ask(r)
AutoDraft(r) == kind = "questions" /\ Ask(r)
CompileBlueprint(r) == kind = "paper" /\ Ask(r)
CreateQuestions(r) == kind = "questions" /\ Begin(r, [Idle EXCEPT !.step = "compile"])
CreatePersona(r) == kind = "persona" /\ Begin(r, [Idle EXCEPT !.step = "compile"])
NextVersion(r) ==
    /\ At(r, "compile")
    /\ \E latest \in There \cup {0} :
        /\ \A d \in There : latest # 0 /\ docs[d].version <= docs[latest].version
        /\ req' = [req EXCEPT ![r].step = "create", ![r].number = IF latest = 0 THEN 1 ELSE docs[latest].version + 1]
    /\ UNCHANGED <<kind, job, docs>>

(* The unique indexes: on the number, and for a rubric and a question set on the
   source of a draft.                                                        *)
OnlyNumbers(number, source) == \E d \in There : docs[d].version = number
Conflict(number, source) ==
    \/ \E d \in There : docs[d].version = number
    \/ kind \in {"rubric", "questions"} /\ source # NoSource /\ DraftOf(source) # {}

Create(r) ==
    /\ At(r, "create")
    /\ IF Conflict(req[r].number, req[r].source) THEN UNCHANGED docs
       ELSE \E d \in Ids : /\ docs[d].status = "none" /\ \A e \in 1 .. d - 1 : docs[e].status # "none"
                           /\ docs' = [docs EXCEPT ![d] = [NoDoc EXCEPT !.status = "draft", !.version = req[r].number, !.source = req[r].source]]
    /\ End(r) /\ UNCHANGED <<kind, job>>

(* updateDraft: every save but a persona's replaces an array, so it is refused
   when another such save came first - an approval is not one.               *)
UpdateDraft(r, d) ==
    /\ Alone(r) /\ docs[d].status = "draft" /\ docs[d].text < MaxEdits
    /\ Begin(r, [Idle EXCEPT !.step = "edit", !.doc = d, !.text = docs[d].text])
UpdateRubric(r, d) == kind = "rubric" /\ UpdateDraft(r, d)
UpdateQuestions(r, d) == kind = "questions" /\ UpdateDraft(r, d)
UpdatePersona(r, d) == kind = "persona" /\ UpdateDraft(r, d)
UpdatePaper(r, d) == kind = "paper" /\ UpdateDraft(r, d)

Unchanged(r) == kind = "persona" \/ docs[req[r].doc].text = req[r].text
SaveEdit(r) ==
    /\ At(r, "edit")
    /\ docs' = IF req[r].doc \in There /\ Unchanged(r) THEN [docs EXCEPT ![req[r].doc].text = req[r].text + 1] ELSE docs
    /\ End(r) /\ UNCHANGED <<kind, job>>

(* remove, of a rubric's draft.                                              *)
Remove(r, d) == kind = "rubric" /\ Alone(r) /\ docs[d].status = "draft" /\ Begin(r, [Idle EXCEPT !.step = "remove", !.doc = d])
Delete(r) ==
    /\ At(r, "remove") /\ docs' = [docs EXCEPT ![req[r].doc] = [NoDoc EXCEPT !.status = "deleted"]]
    /\ End(r) /\ UNCHANGED <<kind, job>>

-----------------------------------------------------------------------------
(* Approval.                                                                 *)

(* Question sets and personas look for the versions to retire before they save
   the new one, rubrics and papers after.  The screen sends one approval of a
   version at a time.                                                        *)
LooksNever(k) == FALSE
LooksFirst(k) == k \in {"questions", "persona"}

AnyRun(d) == TRUE
NoActiveRun(d) == docs[d].run # "running"

Approve(r, d) ==
    /\ Alone(r) /\ docs[d].status = "draft"
    /\ \A q \in Requests : req[q].step \in {"look", "approve"} => req[q].doc # d
    /\ Begin(r, [Idle EXCEPT !.step = IF LooksFirst(kind) THEN "look" ELSE "approve", !.doc = d])

ApproveRubric(r, d) == kind = "rubric" /\ Approve(r, d)
ApproveQuestions(r, d) == kind = "questions" /\ Approve(r, d)
ApprovePersona(r, d) == kind = "persona" /\ Approve(r, d)
ApprovePaper(r, d) == kind = "paper" /\ NoActiveRun(d) /\ docs[d].active >= Served /\ Approve(r, d)

Look(r) ==
    /\ At(r, "look")
    /\ req' = [req EXCEPT ![r].step = IF LooksFirst(kind) THEN "approve" ELSE "archive", ![r].previous = Approved \ {req[r].doc}]
    /\ UNCHANGED <<kind, job, docs>>

SaveApproved(r) ==
    /\ At(r, "approve")
    /\ LET d == req[r].doc
       IN  IF d \in There
           THEN /\ docs' = [docs EXCEPT ![d].status = "approved", ![d].frozen = {<<docs[d].text, docs[d].active, docs[d].flagged>>}]
                /\ req' = [req EXCEPT ![r].step = IF LooksFirst(kind) THEN "archive" ELSE "look"]
           ELSE UNCHANGED docs /\ End(r)
    /\ UNCHANGED <<kind, job>>

Archive(r) ==
    /\ At(r, "archive")
    /\ IF req[r].previous = {} THEN UNCHANGED docs /\ End(r)
       ELSE \E d \in req[r].previous :
                /\ docs' = [docs EXCEPT ![d].status = "archived"]
                /\ req' = [req EXCEPT ![r].previous = @ \ {d}]
    /\ UNCHANGED <<kind, job>>

(* The server restarts in the middle of a request.                           *)
Crash(r) == req[r].step # "idle" /\ End(r) /\ UNCHANGED <<kind, job, docs>>

(* getActiveRubric, resolveForJob, getActivePaper, resolveForSession.        *)
ActiveVersion == {d \in Approved : \A e \in Approved : docs[e].version <= docs[d].version}

-----------------------------------------------------------------------------
(* The items of a paper.                                                     *)

RunGeneration(r, d) ==
    /\ kind = "paper" /\ Alone(r)
    /\ docs[d].status = "draft" /\ docs[d].run # "running"
    /\ req[r].step = "idle"
    /\ docs' = [docs EXCEPT ![d].run = "running"]
    /\ req' = [req EXCEPT ![r] = [Idle EXCEPT !.step = "generate", !.doc = d]]
    /\ UNCHANGED <<kind, job>>

(* produceItem: three blind solvers must agree with the key, after one revision
   at most; an item that fails the gate is kept, flagged, one that fails to be
   written is counted.                                                       *)
ProduceItem(r) ==
    /\ At(r, "generate")
    /\ LET d == req[r].doc
       IN  /\ docs[d].active + docs[d].flagged < MaxItems
           /\ \E field \in {"active", "flagged"} : docs' = [docs EXCEPT ![d][field] = @ + 1]
    /\ UNCHANGED <<kind, job, req>>
FinishRun(r) ==
    /\ At(r, "generate") /\ docs' = [docs EXCEPT ![req[r].doc].run = "done"]
    /\ End(r) /\ UNCHANGED <<kind, job>>

(* isRunStale: no heartbeat for a quarter of an hour, as nobody is at it; the next
   start of the server closes the run.                                       *)
GoStale(d) ==
    /\ docs[d].run = "running" /\ \A r \in Requests : ~(At(r, "generate") /\ req[r].doc = d)
    /\ docs' = [docs EXCEPT ![d].run = "stale"]
    /\ UNCHANGED <<kind, job, req>>
ReconcileInterruptedRuns ==
    /\ \E d \in Ids : docs[d].run = "stale"
    /\ docs' = [d \in Ids |-> IF docs[d].run = "stale" THEN [docs[d] EXCEPT !.run = "done"] ELSE docs[d]]
    /\ UNCHANGED <<kind, job, req>>

RegenerateItem(r, d) ==
    /\ kind = "paper" /\ Alone(r) /\ docs[d].status = "draft"
    /\ docs[d].active + docs[d].flagged > 0
    /\ Begin(r, [Idle EXCEPT !.step = "regenerate", !.doc = d])
ReplaceItem(r) ==
    /\ At(r, "regenerate")
    /\ LET d == req[r].doc
           items == docs[d].active + docs[d].flagged
       IN  \E active \in {docs[d].active - 1, docs[d].active, docs[d].active + 1} \cap (0 .. items) :
             docs' = [docs EXCEPT ![d].active = active, ![d].flagged = items - active]
    /\ End(r) /\ UNCHANGED <<kind, job>>

-----------------------------------------------------------------------------
Step(r) ==
    \/ CompileRubric(r) \/ AutoDraft(r) \/ CompileBlueprint(r) \/ CreateQuestions(r) \/ CreatePersona(r)
    \/ NextVersion(r) \/ Create(r)
    \/ \E d \in Ids :
        \/ UpdateRubric(r, d) \/ UpdateQuestions(r, d) \/ UpdatePersona(r, d) \/ UpdatePaper(r, d) \/ Remove(r, d)
        \/ ApproveRubric(r, d) \/ ApproveQuestions(r, d) \/ ApprovePersona(r, d) \/ ApprovePaper(r, d)
        \/ RunGeneration(r, d) \/ RegenerateItem(r, d)
    \/ SaveEdit(r) \/ Delete(r) \/ Look(r) \/ SaveApproved(r) \/ Archive(r) \/ Crash(r)
    \/ ProduceItem(r) \/ FinishRun(r) \/ ReplaceItem(r)

Next == EditJob \/ ReconcileInterruptedRuns \/ (\E d \in Ids : GoStale(d)) \/ \E r \in Requests : Step(r)

Spec == Init /\ [][Next]_vars

-----------------------------------------------------------------------------
(* Whatever approvals overlap and wherever one is cut short, a version that was
   superseded left another approved: candidates are never again interviewed
   without the questions the company approved.                               *)
ApprovalIsNotLost == (\E d \in Ids : docs[d].status = "archived") => ActiveVersion # {}

(* Two compilations of the same job leave one draft.                         *)
OneDraftPerSource == kind \in {"rubric", "questions"} => \A s \in Sources : Cardinality(DraftOf(s)) <= 1

(* What was approved is what is used: no run in the background, no other request
   taken in turn, changes it afterwards.                                     *)
FrozenIsFinal ==
    \A d \in There : docs[d].status # "draft" /\ kind \notin Overlapping => docs[d].frozen = {<<docs[d].text, docs[d].active, docs[d].flagged>>}

ApprovalsHold == ApprovalIsNotLost /\ OneDraftPerSource /\ FrozenIsFinal
=============================================================================
