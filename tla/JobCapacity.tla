------------------------------ MODULE JobCapacity ------------------------------
(***************************************************************************)
(* The openings of one job and the candidates in its pipeline:             *)
(* src/services/jobCapacityService.js, with the stage move that reports to *)
(* it (pipelineService.applyTransition) and the recruiter's edit, publish  *)
(* and delete of the job (jobController).                                  *)
(*                                                                         *)
(* Each handler is a request that reads, awaits and writes; requests of    *)
(* all processes interleave.  A Candidate is saved path by path and never  *)
(* version-checked.  A Job is saved under optimistic concurrency (its      *)
(* version is checked and moved by save, and by nothing else: the          *)
(* conditional updates of reconcileJobCapacity leave it alone).            *)
(*                                                                         *)
(* The stages before an offer behave alike here and are one, "active".     *)
(***************************************************************************)
EXTENDS Integers, FiniteSets

CONSTANTS
    Requests,       \* slots for handlers in flight, over all processes
    Candidates,     \* applications for the job
    MaxOpenings,    \* bound: openings a recruiter may set
    MaxTerms,       \* bound: how often the job goes public
    Kinds,          \* the operations this instance exercises
    Failures,       \* whether a handler may die between two awaits
    None            \* an unset path

AllKinds == {"move", "edit", "publish", "delete"}

ASSUME BoundAssumption == MaxOpenings \in Nat \ {0} /\ MaxTerms \in Nat
ASSUME CandidateAssumption == IsFiniteSet(Candidates)
ASSUME KindAssumption == Kinds \subseteq AllKinds /\ Failures \in BOOLEAN
ASSUME NoneAssumption ==
    /\ None \notin Nat /\ None \notin Candidates
    /\ None \notin {"draft", "published", "closed"}
    /\ None \notin {"job_filled", "job_closed", "job_deleted", "openings_filled"}

VARIABLES
    job,        \* the stored Job, None once deleted
    cand,       \* the stored Candidates: stage and pipelineExit reason
    req,        \* what each request holds and where it is
    term,       \* history: how often the job went public
    announced   \* history: withdrawals and recruiter emails per term

vars == <<job, cand, req, term, announced>>

Pending == {"offer_sent"}
Filled == {"offer_accepted", "joined"}
Exempt == {"offer_sent", "offer_accepted", "joined", "rejected"}
Stages == {"active"} \cup Exempt
Exits == {"job_filled", "job_closed", "job_deleted"}
Statuses == {"draft", "published", "closed"}
Openings == 1..MaxOpenings

Jobs == [status : Statuses, openings : Openings, filled : Nat, pending : Nat,
         reason : {"openings_filled", None}]
People == [stage : Stages, exit : Exits \cup {None}]
Steps == {"idle", "move", "reconcile", "count", "counters", "filled", "announce",
          "edit", "closed", "tally"}

\* One request: its arguments, the copies it read, the counts it made.
Held == [step : Steps, who : Candidates \cup {None}, to : Stages \cup {None},
         openings : Openings \cup {None}, status : Statuses \cup {None},
         seen : People \cup {None}, copy : Jobs \cup {None},
         pending : Nat \cup {None}, filled : Nat \cup {None},
         stale : BOOLEAN, closing : Nat]

TypeOK ==
    /\ job \in Jobs \cup {None}
    /\ cand \in [Candidates -> People]
    /\ req \in [Requests -> Held]
    /\ term \in Nat
    /\ announced \in [1..MaxTerms -> Nat]

Idle == [step |-> "idle", who |-> None, to |-> None, openings |-> None, status |-> None,
         seen |-> None, copy |-> None, pending |-> None, filled |-> None,
         stale |-> FALSE, closing |-> 0]

Init ==
    /\ job = [status |-> "draft", openings |-> 1, filled |-> 0, pending |-> 0, reason |-> None]
    /\ cand = [c \in Candidates |-> [stage |-> "active", exit |-> None]]
    /\ req = [r \in Requests |-> Idle]
    /\ term = 0
    /\ announced = [t \in 1..MaxTerms |-> 0]

-----------------------------------------------------------------------------
(* Reading                                                                 *)

At(r, step) == req[r].step = step

\* Forward along the pipeline, or off it; nothing leaves a terminal stage.  Two
\* different stages before the offer are both "active".
CanMove(from, to) ==
    \/ from = "active"
    \/ from = "offer_sent" /\ to \in {"offer_accepted", "joined", "rejected"}
    \/ from = "offer_accepted" /\ to \in {"joined", "rejected"}

AffectsCapacity(from, to) == {from, to} \cap (Pending \cup Filled) # {}

CountIn(stages) == Cardinality({c \in Candidates : cand[c].stage \in stages})

Counted(r) == req[r].pending # None /\ req[r].filled # None

Full(r) == req[r].filled >= req[r].copy.openings

-----------------------------------------------------------------------------
(* Going on                                                                *)

\* Only r's own slot changes.
Go(r, held) == req' = [req EXCEPT ![r] = held]

GoTo(r, step) == Go(r, [req[r] EXCEPT !.step = step])

\* Mutant of SaveJob: the schema without optimisticConcurrency.
SaveJobUnchecked(r, modified, new, held) ==
    IF ~modified \/ job = None
    THEN Go(r, held) /\ UNCHANGED job
    ELSE job' = new /\ Go(r, held)

\* job.save() of a document nothing was set on writes nothing; else the version
\* is checked, and moves for every copy read before.
SaveJob(r, modified, new, held) ==
    IF ~modified
    THEN Go(r, held) /\ UNCHANGED job
    ELSE IF req[r].stale \/ job = None
    THEN Go(r, Idle) /\ UNCHANGED job
    ELSE /\ job' = new
         /\ req' = [q \in Requests |->
                        IF q = r THEN held
                        ELSE [req[q] EXCEPT !.stale = req[q].step # "idle"]]

-----------------------------------------------------------------------------
(* applyTransition, as far as capacity is concerned                        *)

LoadMove(r, c, to) ==
    /\ At(r, "idle") /\ "move" \in Kinds
    /\ CanMove(cand[c].stage, to)
    /\ Go(r, [Idle EXCEPT !.step = "move", !.who = c, !.to = to, !.seen = cand[c]])
    /\ UNCHANGED <<job, cand, term, announced>>

\* The move clears an exit its copy has, unless the role is deleted.
MoveSave(r) ==
    LET back == req[r].seen.exit \notin {None, "job_deleted"}
    IN  /\ At(r, "move")
        /\ cand' = [cand EXCEPT ![req[r].who].stage = req[r].to,
                                ![req[r].who].exit = IF back THEN None ELSE @]
        /\ Go(r, IF AffectsCapacity(req[r].seen.stage, req[r].to)
                 THEN [Idle EXCEPT !.step = "reconcile"] ELSE Idle)
        /\ UNCHANGED <<job, term, announced>>

-----------------------------------------------------------------------------
(* reconcileJobCapacity                                                    *)

LoadJob(r) ==
    /\ At(r, "reconcile")
    /\ Go(r, IF job = None THEN Idle ELSE [Idle EXCEPT !.step = "count", !.copy = job])
    /\ UNCHANGED <<job, cand, term, announced>>

\* The two counts of a snapshot are two queries.
CountPending(r) ==
    /\ At(r, "count") \/ At(r, "tally")
    /\ req[r].pending = None
    /\ Go(r, [req[r] EXCEPT !.pending = CountIn(Pending)])
    /\ UNCHANGED <<job, cand, term, announced>>

CountFilled(r) ==
    /\ At(r, "count") \/ At(r, "tally")
    /\ req[r].filled = None
    /\ Go(r, [req[r] EXCEPT !.filled = CountIn(Filled)])
    /\ UNCHANGED <<job, cand, term, announced>>

\* Mutant of Close: the update is not conditional on the job being published.
CloseAnyway(r) ==
    /\ At(r, "count") /\ Counted(r) /\ Full(r) /\ req[r].copy.status = "published"
    /\ job # None
    /\ job' = [job EXCEPT !.status = "closed", !.reason = "openings_filled",
                          !.filled = req[r].filled, !.pending = req[r].pending]
    /\ Go(r, [req[r] EXCEPT !.step = "filled", !.closing = term])
    /\ UNCHANGED <<cand, term, announced>>

\* Compare-and-close: only a job that is published right now is closed.
Close(r) ==
    /\ At(r, "count") /\ Counted(r) /\ Full(r) /\ req[r].copy.status = "published"
    /\ IF job # None /\ job.status = "published"
       THEN /\ job' = [job EXCEPT !.status = "closed", !.reason = "openings_filled",
                                  !.filled = req[r].filled, !.pending = req[r].pending]
            /\ Go(r, [req[r] EXCEPT !.step = "filled", !.closing = term])
       ELSE GoTo(r, "counters") /\ UNCHANGED job
    /\ UNCHANGED <<cand, term, announced>>

\* Mutant of WriteCounters: counters of a job that did not close are kept.
WriteCountersNever(r) ==
    /\ \/ At(r, "counters")
       \/ At(r, "count") /\ Counted(r) /\ ~(Full(r) /\ req[r].copy.status = "published")
    /\ Go(r, Idle)
    /\ UNCHANGED <<job, cand, term, announced>>

WriteCounters(r) ==
    /\ \/ At(r, "counters")
       \/ At(r, "count") /\ Counted(r) /\ ~(Full(r) /\ req[r].copy.status = "published")
    /\ job' = IF job = None THEN None
              ELSE [job EXCEPT !.filled = req[r].filled, !.pending = req[r].pending]
    /\ Go(r, Idle)
    /\ UNCHANGED <<cand, term, announced>>

-----------------------------------------------------------------------------
(* releaseJobCandidates, one atomic updateMany                             *)

Released(why) ==
    [c \in Candidates |->
        IF cand[c].stage \notin Exempt /\ cand[c].exit = None
        THEN [cand[c] EXCEPT !.exit = why] ELSE cand[c]]

\* A failed release is only logged.
Release(r, step, why, held) ==
    /\ At(r, step)
    /\ cand' = Released(why) \/ (Failures /\ UNCHANGED cand)
    /\ Go(r, held)
    /\ UNCHANGED <<job, term, announced>>

\* Mutant of ReleaseFilled: the withdrawal is forgotten.
ReleaseFilledQuietly(r) == Release(r, "filled", "job_filled", Idle)

ReleaseFilled(r) == Release(r, "filled", "job_filled", [req[r] EXCEPT !.step = "announce"])

\* An edit that also changed the openings reconciles next.
ReleaseClosed(r) ==
    Release(r, "closed", "job_closed",
            IF req[r].openings = None THEN Idle ELSE [Idle EXCEPT !.step = "reconcile"])

\* Boards are withdrawn and the recruiter is told.
Announce(r) ==
    /\ At(r, "announce")
    /\ announced' = [announced EXCEPT ![req[r].closing] = @ + 1]
    /\ Go(r, Idle)
    /\ UNCHANGED <<job, cand, term>>

-----------------------------------------------------------------------------
(* The recruiter's handlers over the job                                   *)

\* An edit never publishes: that is refused, and left to publishJob.
LoadEdit(r, n, s) ==
    /\ At(r, "idle") /\ "edit" \in Kinds
    /\ job # None
    /\ s = "published" => job.status = "published"
    /\ Go(r, [Idle EXCEPT !.step = "edit", !.openings = n, !.status = s, !.copy = job])
    /\ UNCHANGED <<job, cand, term, announced>>

\* Mutant of EditSave: a field the request left out is written all the same.
EditSaveBlank(r) ==
    LET h == req[r]
        opens == h.openings # h.copy.openings
        moves == h.status # None /\ h.status # h.copy.status
        next == IF h.copy.status = "published" /\ h.status = "closed" THEN "closed"
                ELSE IF h.openings # None \/ h.status = "published" THEN "reconcile" ELSE "idle"
        new == [job EXCEPT !.openings = IF opens THEN h.openings ELSE @,
                           !.status = IF moves THEN h.status ELSE @]
    IN  /\ At(r, "edit")
        /\ SaveJob(r, opens \/ moves, new,
                   IF next = "idle" THEN Idle ELSE [Idle EXCEPT !.step = next, !.openings = h.openings])
        /\ UNCHANGED <<cand, term, announced>>

\* Closing releases the pipeline; new openings are reconciled.  The code starts
\* the release and does not wait for it: here it comes first, as it writes exits,
\* which reconciling never reads.
EditSave(r) ==
    LET h == req[r]
        opens == h.openings # None /\ h.openings # h.copy.openings
        moves == h.status # None /\ h.status # h.copy.status
        next == IF h.copy.status = "published" /\ h.status = "closed" THEN "closed"
                ELSE IF h.openings # None \/ h.status = "published" THEN "reconcile" ELSE "idle"
        new == [job EXCEPT !.openings = IF opens THEN h.openings ELSE @,
                           !.status = IF moves THEN h.status ELSE @]
    IN  /\ At(r, "edit")
        /\ SaveJob(r, opens \/ moves, new,
                   IF next = "idle" THEN Idle ELSE [Idle EXCEPT !.step = next, !.openings = h.openings])
        /\ UNCHANGED <<cand, term, announced>>

LoadPublish(r) ==
    /\ At(r, "idle") /\ "publish" \in Kinds
    /\ job # None
    /\ Go(r, [Idle EXCEPT !.step = "tally", !.copy = job])
    /\ UNCHANGED <<job, cand, term, announced>>

\* A full job is not published.  Only paths that differ from the copy are
\* written.  The handler throws after the save: it calls invalidatePublicJobCache,
\* which jobController.js does not import, so the candidates a closing released
\* are not restored.  Bound: the job goes public at most MaxTerms times.
Publish(r) ==
    LET h == req[r]
        opens == h.copy.status # "published"
        unmarks == h.copy.reason # None
        recounts == h.filled # h.copy.filled \/ h.pending # h.copy.pending
        new == [job EXCEPT !.status = IF opens THEN "published" ELSE @,
                           !.reason = IF unmarks THEN None ELSE @,
                           !.filled = IF h.filled # h.copy.filled THEN h.filled ELSE @,
                           !.pending = IF h.pending # h.copy.pending THEN h.pending ELSE @]
        goesPublic == opens /\ ~h.stale /\ job # None
    IN  /\ At(r, "tally") /\ Counted(r)
        /\ IF Full(r)
           THEN Go(r, Idle) /\ UNCHANGED <<job, term>>
           ELSE /\ goesPublic => term < MaxTerms
                /\ SaveJob(r, opens \/ unmarks \/ recounts, new, Idle)
                /\ term' = IF goesPublic THEN term + 1 ELSE term
        /\ UNCHANGED <<cand, announced>>

\* deleteJob throws right after the deletion, on the name it does not import: the
\* release of the candidates and the boards' withdrawal below it never run.
Delete(r) ==
    /\ At(r, "idle") /\ "delete" \in Kinds
    /\ job # None
    /\ job' = None
    /\ Go(r, Idle)
    /\ UNCHANGED <<cand, term, announced>>

-----------------------------------------------------------------------------

\* The process dies between two awaits, or an await in between throws.
Fail(r) ==
    /\ Failures /\ ~At(r, "idle")
    /\ Go(r, Idle)
    /\ UNCHANGED <<job, cand, term, announced>>

Load(r) ==
    \/ \E c \in Candidates, to \in Stages : LoadMove(r, c, to)
    \/ \E n \in Openings \cup {None}, s \in Statuses \cup {None} : LoadEdit(r, n, s)
    \/ LoadPublish(r) \/ Delete(r)

Proceed(r) ==
    \/ MoveSave(r) \/ LoadJob(r) \/ CountPending(r) \/ CountFilled(r) \/ Close(r) \/ WriteCounters(r)
    \/ ReleaseFilled(r) \/ ReleaseClosed(r) \/ Announce(r)
    \/ EditSave(r) \/ Publish(r)

Next == \E r \in Requests : Load(r) \/ Proceed(r) \/ Fail(r)

Spec == Init /\ [][Next]_vars

FairSpec == Spec /\ \A r \in Requests : WF_vars(Proceed(r))

-----------------------------------------------------------------------------
(* What holds however requests interleave                                  *)

\* "Only one withdrawal and one recruiter email are emitted" each time the job
\* fills up, though several final acceptances may reconcile together.
AnnouncedOnce == \A t \in 1..MaxTerms : announced[t] <= 1

\* A published job is never marked as filled: publishJob clears the mark on its
\* copy only, and relies on the version check for the copy to be current.
PublishedIsUnmarked == job # None /\ job.status = "published" => job.reason = None

\* Each time the job fills up, boards are withdrawn and the recruiter is told.
FillingIsAnnounced ==
    \A t \in 1..MaxTerms : (\E r \in Requests : req[r].closing = t) ~> announced[t] = 1

-----------------------------------------------------------------------------
(* At rest, while requests do not overlap                                  *)

AtRest == \A r \in Requests : At(r, "idle")

\* The counters shown to recruiters are the counts of the pipeline.
CountersAreExact ==
    AtRest /\ job # None => job.filled = CountIn(Filled) /\ job.pending = CountIn(Pending)

\* "A published job closes when accepted offers fill every opening": whether
\* the last opening goes by a move, by an edit, or was gone before publishing.
FullJobIsClosed ==
    AtRest /\ job # None /\ job.status = "published" => CountIn(Filled) < job.openings

\* "Re-opening the role puts back the candidates that a previous close/fill
\* released from the board" (jobController.js:369).
ReleasedOnlyWhileClosed ==
    AtRest /\ job # None /\ job.status = "published" =>
        \A c \in Candidates : cand[c].exit \notin {"job_filled", "job_closed"}

\* Whoever holds an offer, or was decided on, keeps their place on the board.
OffersKeepTheirPlace ==
    \A c \in Candidates : cand[c].stage \in Exempt => cand[c].exit \notin {"job_filled", "job_closed"}

\* A role is consistent: what its counters say, whether it is public and who holds
\* a place on its board agree.
RoleIsConsistent == CountersAreExact /\ FullJobIsClosed /\ OffersKeepTheirPlace

\* "Candidates for a deleted role can never be actioned - take them off the
\* board": nobody in flight is left on it once the deletion is through.
DeletedRoleHasNobody ==
    AtRest /\ job = None => \A c \in Candidates : cand[c].stage \in Exempt \/ cand[c].exit # None

=============================================================================
