--------------------------- MODULE JobCapacityProofs ---------------------------
(***************************************************************************)
(* Type correctness of JobCapacity, that the filling of a job is announced *)
(* at most once per publication, and that a published job is never marked  *)
(* as filled: for any number of requests, candidates and openings, however *)
(* requests overlap and wherever they die.                                 *)
(* While handlers of one role do not overlap: an accepted offer keeps its  *)
(* place, and between handlers that ended normally the counters are exact  *)
(* and a role that is full is closed.                                      *)
(* Two parts follow on how a job is shown: Careers, the public pages and   *)
(* their caches, and Publishing, its listings on the boards.  They stand   *)
(* alone; a name declared above stands in them for their own.              *)
(***************************************************************************)
EXTENDS JobCapacity, FiniteSetTheorems, TLAPS

\* What a request holds where it is going to use it.
Sound(h) ==
    /\ h.step = "move" => h.who \in Candidates /\ h.to \in Stages /\ h.seen \in People
    /\ h.step \in {"count", "counters", "edit", "tally"} => h.copy \in Jobs
    /\ h.step = "counters" => h.filled \in Nat /\ h.pending \in Nat

TypeInv ==
    /\ TypeOK
    /\ \A r \in Requests : Sound(req[r])

\* A handler that closed the job and has not told anyone yet.
Closing(r) == req[r].step \in {"filled", "announce"}

\* An edit asks for a published job only of one that is published.
EditInv ==
    \A r \in Requests :
        req[r].step = "edit" /\ req[r].status = "published" => req[r].copy.status = "published"

\* A publication is closed by one handler, which announces it once.
OnceInv ==
    /\ \A r \in Requests : Closing(r) =>
           /\ req[r].closing <= term
           /\ req[r].closing \in 1..MaxTerms => announced[req[r].closing] = 0
           /\ job # None /\ job.status = "published" => req[r].closing # term
    /\ \A q, r \in Requests :
           Closing(q) /\ Closing(r) /\ q # r => req[q].closing # req[r].closing
    /\ \A t \in 1..MaxTerms : t > term => announced[t] = 0
    /\ \A t \in 1..MaxTerms :
           job # None /\ job.status = "published" /\ t = term => announced[t] = 0
    /\ \A t \in 1..MaxTerms : announced[t] <= 1

\* A copy to be saved that is not published, and is current, has the job's status
\* and mark: only a published job is closed behind its back.
CopyInv ==
    \A r \in Requests :
        req[r].step \in {"edit", "tally"} /\ ~req[r].stale /\ job # None
            /\ req[r].copy.status # "published"
        => job.status = req[r].copy.status /\ job.reason = req[r].copy.reason

USE BoundAssumption, KindAssumption, NoneAssumption

-----------------------------------------------------------------------------
(* Type correctness                                                        *)

LEMMA CountType == ASSUME NEW S PROVE CountIn(S) \in Nat
<1>1. {c \in Candidates : cand[c].stage \in S} \subseteq Candidates
  OBVIOUS
<1>2. IsFiniteSet({c \in Candidates : cand[c].stage \in S})
  BY <1>1, CandidateAssumption, FS_Subset
<1> QED
  BY <1>2, FS_CardinalityType DEF CountIn

LEMMA IdleType == Idle \in Held /\ Sound(Idle)
BY DEF Idle, Held, Sound, Steps

\* Going on with all that is held.
LEMMA StepType ==
    ASSUME NEW h \in Held, NEW s \in Steps
    PROVE  [h EXCEPT !.step = s] \in Held /\ [h EXCEPT !.step = s].step = s
BY DEF Held

\* Nothing is asked of a request at any other step.
LEMMA SoundType ==
    ASSUME NEW h, h.step \notin {"move", "count", "counters", "edit", "tally"}
    PROVE  Sound(h)
BY DEF Sound

\* A request that goes on alone.
LEMMA GoType ==
    ASSUME TypeInv, NEW r \in Requests, NEW h \in Held, Sound(h), Go(r, h),
           job' \in Jobs \cup {None}, cand' \in [Candidates -> People],
           term' \in Nat, announced' \in [1..MaxTerms -> Nat]
    PROVE  TypeInv'
<1>1. req' = [req EXCEPT ![r] = h] /\ req \in [Requests -> Held]
  BY DEF Go, TypeInv, TypeOK
<1>2. req' \in [Requests -> Held]
  BY <1>1
<1>3. ASSUME NEW q \in Requests PROVE Sound(req'[q])
  <2>1. CASE q = r
    BY <1>1, <2>1
  <2>2. CASE q # r
    <3>1. req'[q] = req[q]
      BY <1>1, <2>2
    <3> QED
      BY <3>1 DEF TypeInv
  <2> QED
    BY <2>1, <2>2
<1> QED
  BY <1>2, <1>3 DEF TypeInv, TypeOK

\* A version-checked save, which also tells the other requests.
LEMMA SaveJobType ==
    ASSUME TypeInv, NEW r \in Requests, NEW modified \in BOOLEAN, NEW new, NEW h \in Held,
           SaveJob(r, modified, new, h), Sound(h),
           job # None => new \in Jobs,
           cand' = cand, term' \in Nat, announced' = announced
    PROVE  TypeInv'
<1> USE DEF TypeInv, TypeOK
<1>1. CASE ~modified
  BY <1>1, GoType DEF SaveJob
<1>2. CASE modified /\ (req[r].stale \/ job = None)
  BY <1>2, GoType, IdleType DEF SaveJob
<1>3. CASE modified /\ ~req[r].stale /\ job # None
  <2>1. /\ job' = new /\ new \in Jobs
        /\ req' = [q \in Requests |->
                        IF q = r THEN h ELSE [req[q] EXCEPT !.stale = req[q].step # "idle"]]
    BY <1>3 DEF SaveJob
  <2>2. ASSUME NEW q \in Requests PROVE req'[q] \in Held /\ Sound(req'[q])
    <3>1. CASE q = r
      BY <2>1, <3>1
    <3>2. CASE q # r
      <4>1. req'[q] = [req[q] EXCEPT !.stale = req[q].step # "idle"]
        BY <2>1, <3>2
      <4>2. req[q] \in Held /\ Sound(req[q])
        OBVIOUS
      <4> QED
        BY <4>1, <4>2, ZenonT(60) DEF Held, Sound
    <3> QED
      BY <3>1, <3>2
  <2>3. req' \in [Requests -> Held]
    BY <2>1, <2>2
  <2> QED
    BY <2>1, <2>2, <2>3
<1> QED
  BY <1>1, <1>2, <1>3

LEMMA ReleaseType ==
    ASSUME TypeInv, NEW r \in Requests, NEW step, NEW why \in Exits, NEW h \in Held, Sound(h),
           Release(r, step, why, h)
    PROVE  TypeInv'
<1>1. Released(why) \in [Candidates -> People]
  BY DEF Released, TypeInv, TypeOK, People
<1>2. cand' \in [Candidates -> People]
  BY <1>1 DEF Release, TypeInv, TypeOK
<1> QED
  BY <1>2, GoType DEF Release, TypeInv, TypeOK

LEMMA TypeInvInit == Init => TypeInv
<1> SUFFICES ASSUME Init PROVE TypeInv
  OBVIOUS
<1>1. job \in Jobs
  BY DEF Init, Jobs, Statuses, Openings
<1>2. cand \in [Candidates -> People]
  BY DEF Init, People, Stages, Exits
<1> QED
  BY <1>1, <1>2, IdleType DEF Init, TypeInv, TypeOK

LEMMA MoveType ==
    ASSUME TypeInv, NEW r \in Requests, MoveSave(r)
    PROVE  TypeInv'
<1> USE DEF TypeInv, TypeOK
<1> DEFINE c == req[r].who
           to == req[r].to
           h == IF AffectsCapacity(req[r].seen.stage, to)
                THEN [Idle EXCEPT !.step = "reconcile"] ELSE Idle
<1>1. c \in Candidates /\ to \in Stages
  BY DEF MoveSave, At, Sound
<1>2. cand' \in [Candidates -> People]
  BY <1>1 DEF MoveSave, People
<1>3. h \in Held /\ Sound(h)
  BY IdleType DEF Idle, Held, Sound, Steps
<1>4. Go(r, h)
  BY DEF MoveSave
<1>5. UNCHANGED <<job, term, announced>>
  BY DEF MoveSave
<1> HIDE DEF c, to, h
<1> QED
  BY <1>2, <1>3, <1>4, <1>5, GoType

LEMMA CountingType ==
    ASSUME TypeInv, NEW r \in Requests, CountPending(r) \/ CountFilled(r)
    PROVE  TypeInv'
<1> USE DEF TypeInv, TypeOK
<1> DEFINE hp == [req[r] EXCEPT !.pending = CountIn(Pending)]
           hf == [req[r] EXCEPT !.filled = CountIn(Filled)]
<1>1. req[r] \in Held /\ Sound(req[r])
  OBVIOUS
<1>2. CountIn(Pending) \in Nat /\ CountIn(Filled) \in Nat
  BY CountType
<1>3. hp \in Held /\ Sound(hp) /\ hf \in Held /\ Sound(hf)
  BY <1>1, <1>2, ZenonT(60) DEF Held, Sound
<1> QED
  BY <1>3, GoType DEF CountPending, CountFilled

LEMMA CloseType ==
    ASSUME TypeInv, NEW r \in Requests, Close(r)
    PROVE  TypeInv'
<1> USE DEF TypeInv, TypeOK
<1> DEFINE hf == [req[r] EXCEPT !.step = "filled", !.closing = term]
           hc == [req[r] EXCEPT !.step = "counters"]
<1>1. req[r] \in Held /\ Sound(req[r])
  OBVIOUS
<1>2. req[r].filled \in Nat /\ req[r].pending \in Nat /\ req[r].copy \in Jobs
  BY <1>1 DEF Close, Counted, Held, At, Sound
<1>3. /\ hf \in Held /\ Sound(hf)
      /\ hc \in Held /\ Sound(hc)
  <2>1. "filled" \in Steps /\ "counters" \in Steps /\ term \in Nat
    BY DEF Steps
  <2> HIDE DEF TypeInv, TypeOK
  <2>2. hf \in Held /\ hf.step = "filled"
    BY <1>1, <2>1, ZenonT(60) DEF Held
  <2>3. hc \in Held /\ hc.step = "counters"
    BY <1>1, <2>1, StepType
  <2>4. hc.copy = req[r].copy /\ hc.filled = req[r].filled /\ hc.pending = req[r].pending
    BY <1>1 DEF Held
  <2>5. Sound(hf)
    BY <2>2, SoundType
  <2>6. Sound(hc)
    BY <1>2, <2>3, <2>4 DEF Sound
  <2> QED
    BY <2>2, <2>3, <2>5, <2>6
<1>4. job # None => [job EXCEPT !.status = "closed", !.reason = "openings_filled",
                         !.filled = req[r].filled, !.pending = req[r].pending] \in Jobs
  BY <1>2 DEF Jobs, Statuses
<1>5. job' \in Jobs \cup {None}
  BY <1>4 DEF Close
<1>6. Go(r, hf) \/ Go(r, hc)
  BY DEF Close, GoTo
<1> QED
  BY <1>3, <1>5, <1>6, GoType DEF Close

LEMMA ReconcileType ==
    ASSUME TypeInv, NEW r \in Requests, LoadJob(r) \/ WriteCounters(r) \/ Announce(r)
    PROVE  TypeInv'
<1> USE DEF TypeInv, TypeOK
<1>1. CASE LoadJob(r)
  <2> DEFINE h == [Idle EXCEPT !.step = "count", !.copy = job]
  <2>1. job # None => h \in Held /\ Sound(h)
    BY IdleType DEF Idle, Held, Sound, Steps
  <2> QED
    BY <1>1, <2>1, IdleType, GoType DEF LoadJob
<1>2. CASE WriteCounters(r)
  <2>1. req[r].filled \in Nat /\ req[r].pending \in Nat
    BY <1>2 DEF WriteCounters, Counted, Held, Sound, At
  <2>2. job' \in Jobs \cup {None}
    BY <1>2, <2>1 DEF WriteCounters, Jobs
  <2> QED
    BY <1>2, <2>2, IdleType, GoType DEF WriteCounters
<1>3. CASE Announce(r)
  <2>1. announced' = [announced EXCEPT ![req[r].closing] = announced[req[r].closing] + 1]
    BY <1>3 DEF Announce
  <2>2. announced' \in [1..MaxTerms -> Nat]
    <3>1. CASE req[r].closing \in 1..MaxTerms
      BY <2>1, <3>1
    <3>2. CASE req[r].closing \notin 1..MaxTerms
      BY <2>1, <3>2
    <3> QED
      BY <3>1, <3>2
  <2> QED
    BY <1>3, <2>2, IdleType, GoType DEF Announce
<1> QED
  BY <1>1, <1>2, <1>3

LEMMA ReleasesType ==
    ASSUME TypeInv, NEW r \in Requests,
           ReleaseFilled(r) \/ ReleaseClosed(r)
    PROVE  TypeInv'
<1> USE DEF TypeInv, TypeOK
<1> DEFINE ha == [req[r] EXCEPT !.step = "announce"]
           hr == [Idle EXCEPT !.step = "reconcile"]
<1>1. req[r] \in Held
  OBVIOUS
<1>2. ha \in Held /\ Sound(ha) /\ hr \in Held /\ Sound(hr)
  <2>1. "announce" \in Steps /\ "reconcile" \in Steps
    BY DEF Steps
  <2>2. ha \in Held /\ ha.step = "announce"
    BY <1>1, <2>1, StepType
  <2>3. hr \in Held /\ hr.step = "reconcile"
    BY <2>1, IdleType, StepType
  <2> QED
    BY <2>2, <2>3, SoundType
<1>3. {"job_filled", "job_closed", "job_deleted"} = Exits
  BY DEF Exits
<1>4. CASE ReleaseFilled(r)
  BY <1>2, <1>3, <1>4, ReleaseType DEF ReleaseFilled
<1>5. CASE ReleaseClosed(r)
  <2>1. CASE req[r].openings = None
    BY <1>3, <1>5, <2>1, IdleType, ReleaseType DEF ReleaseClosed
  <2>2. CASE req[r].openings # None
    BY <1>2, <1>3, <1>5, <2>2, ReleaseType DEF ReleaseClosed
  <2> QED
    BY <2>1, <2>2
<1> QED
  BY <1>4, <1>5

LEMMA EditType ==
    ASSUME TypeInv, NEW r \in Requests, EditSave(r)
    PROVE  TypeInv'
<1> USE DEF TypeInv, TypeOK
<1> DEFINE h == req[r]
           opens == h.openings # None /\ h.openings # h.copy.openings
           moves == h.status # None /\ h.status # h.copy.status
           next == IF h.copy.status = "published" /\ h.status = "closed" THEN "closed"
                   ELSE IF h.openings # None \/ h.status = "published" THEN "reconcile" ELSE "idle"
           new == [job EXCEPT !.openings = IF opens THEN h.openings ELSE @,
                              !.status = IF moves THEN h.status ELSE @]
           held == IF next = "idle" THEN Idle
                   ELSE [Idle EXCEPT !.step = next, !.openings = h.openings]
<1>1. h \in Held
  OBVIOUS
<1>2. job # None => new \in Jobs
  BY <1>1 DEF Held, Jobs
<1>3. held \in Held /\ Sound(held)
  <2>1. CASE next = "idle"
    BY <2>1, IdleType
  <2>2. CASE next # "idle"
    <3>1. next \in {"closed", "reconcile"} /\ next \in Steps
      BY <2>2 DEF Steps
    <3>2. held = [Idle EXCEPT !.step = next, !.openings = h.openings]
      BY <2>2
    <3>3. h.openings \in Openings \cup {None}
      BY <1>1 DEF Held
    <3> HIDE DEF next, held, TypeInv, TypeOK
    <3>4. held \in Held /\ held.step = next
      BY <3>1, <3>2, <3>3, IdleType DEF Idle, Held
    <3> QED
      BY <3>1, <3>4, SoundType
  <2> QED
    BY <2>1, <2>2
<1>4. SaveJob(r, opens \/ moves, new, held) /\ (opens \/ moves) \in BOOLEAN
  BY DEF EditSave
<1> HIDE DEF new, held, opens, moves
<1> QED
  BY <1>2, <1>3, <1>4, SaveJobType DEF EditSave

LEMMA PublishType ==
    ASSUME TypeInv, NEW r \in Requests, Publish(r)
    PROVE  TypeInv'
<1> USE DEF TypeInv, TypeOK
<1> DEFINE h == req[r]
           opens == h.copy.status # "published"
           unmarks == h.copy.reason # None
           recounts == h.filled # h.copy.filled \/ h.pending # h.copy.pending
           new == [job EXCEPT !.status = IF opens THEN "published" ELSE @,
                              !.reason = IF unmarks THEN None ELSE @,
                              !.filled = IF h.filled # h.copy.filled THEN h.filled ELSE @,
                              !.pending = IF h.pending # h.copy.pending THEN h.pending ELSE @]
           held == Idle
<1>1. h \in Held /\ h.filled \in Nat /\ h.pending \in Nat
  BY DEF Publish, Counted, Held
<1>2. job # None => new \in Jobs
  BY <1>1 DEF Jobs, Statuses
<1>3. held \in Held /\ Sound(held)
  BY DEF Idle, Held, Sound, Steps
<1>4. term' \in Nat
  BY DEF Publish
<1>5. CASE Full(r)
  BY <1>5, IdleType, GoType DEF Publish
<1>6. CASE ~Full(r)
  <2>1. SaveJob(r, opens \/ unmarks \/ recounts, new, held) /\ (opens \/ unmarks \/ recounts) \in BOOLEAN
    BY <1>6 DEF Publish
  <2> HIDE DEF new, held, opens, unmarks, recounts
  <2> QED
    BY <1>2, <1>3, <1>4, <2>1, SaveJobType DEF Publish
<1> QED
  BY <1>5, <1>6

LEMMA LoadType ==
    ASSUME TypeInv, NEW r \in Requests, Load(r)
    PROVE  TypeInv'
<1> USE DEF TypeInv, TypeOK
<1>1. ASSUME NEW c \in Candidates, NEW to \in Stages, LoadMove(r, c, to) PROVE TypeInv'
  <2> DEFINE h == [Idle EXCEPT !.step = "move", !.who = c, !.to = to, !.seen = cand[c]]
  <2>1. h \in Held /\ Sound(h)
    BY DEF Idle, Held, Sound, Steps
  <2> QED
    BY <1>1, <2>1, GoType DEF LoadMove
<1>2. ASSUME NEW n \in Openings \cup {None}, NEW s \in Statuses \cup {None}, LoadEdit(r, n, s)
      PROVE  TypeInv'
  <2> DEFINE h == [Idle EXCEPT !.step = "edit", !.openings = n, !.status = s, !.copy = job]
  <2>1. h \in Held /\ Sound(h)
    BY <1>2 DEF LoadEdit, Idle, Held, Sound, Steps
  <2> QED
    BY <1>2, <2>1, GoType DEF LoadEdit
<1>3. CASE LoadPublish(r)
  <2> DEFINE h == [Idle EXCEPT !.step = "tally", !.copy = job]
  <2>1. h \in Held /\ Sound(h)
    BY <1>3 DEF LoadPublish, Idle, Held, Sound, Steps
  <2> QED
    BY <1>3, <2>1, GoType DEF LoadPublish
<1>4. CASE Delete(r)
  BY <1>4, IdleType, GoType DEF Delete
<1> QED
  BY <1>1, <1>2, <1>3, <1>4 DEF Load

LEMMA TypeInvNext == TypeInv /\ [Next]_vars => TypeInv'
<1> SUFFICES ASSUME TypeInv, [Next]_vars PROVE TypeInv'
  OBVIOUS
<1>1. CASE UNCHANGED vars
  BY <1>1 DEF vars, TypeInv, TypeOK
<1>2. ASSUME NEW r \in Requests, Load(r) PROVE TypeInv'
  BY <1>2, LoadType
<1>3. ASSUME NEW r \in Requests, Proceed(r) PROVE TypeInv'
  BY <1>3, MoveType, CountingType, CloseType, ReconcileType, ReleasesType, EditType, PublishType
  DEF Proceed
<1>4. ASSUME NEW r \in Requests, Fail(r) PROVE TypeInv'
  BY <1>4, IdleType, GoType DEF Fail, TypeInv, TypeOK
<1> QED
  BY <1>1, <1>2, <1>3, <1>4 DEF Next

LEMMA TypeInvAlways == Spec => []TypeInv
BY TypeInvInit, TypeInvNext, PTL DEF Spec

\* Every reachable state has the types TypeOK declares: a request uses only what
\* it has read, and an edit or a publish never stores anything but a Job.
THEOREM TypeCorrect == Spec => []TypeOK
<1>1. TypeInv => TypeOK
  BY DEF TypeInv
<1> QED
  BY <1>1, TypeInvAlways, PTL

-----------------------------------------------------------------------------
(* Announcing once, and publishing unmarked                                *)

SafeInv == TypeInv /\ EditInv /\ OnceInv /\ CopyInv /\ PublishedIsUnmarked

Public == job # None /\ job.status = "published"

\* The steps at which EditInv, OnceInv and CopyInv ask something.
Watched == {"edit", "tally", "filled", "announce"}

LEMMA SafeInvInit == Init => SafeInv
<1> SUFFICES ASSUME Init PROVE SafeInv
  OBVIOUS
<1>1. \A r \in Requests : req[r].step = "idle"
  BY DEF Init, Idle
<1>2. EditInv /\ CopyInv
  BY <1>1 DEF EditInv, CopyInv
<1>3. OnceInv
  BY <1>1 DEF OnceInv, Closing, Init
<1>4. PublishedIsUnmarked
  BY DEF Init, PublishedIsUnmarked
<1> QED
  BY <1>2, <1>3, <1>4, TypeInvInit DEF SafeInv

\* Handlers stop closing, or go on closing the same publication.
LEMMA OnceKept ==
    ASSUME OnceInv, term' = term, announced' = announced, Public' => Public,
           \A q \in Requests :
               Closing(q)' => Closing(q) /\ req'[q].closing = req[q].closing
    PROVE  OnceInv'
BY DEF OnceInv, Public

\* The job goes public once more.
LEMMA OnceAdvanced ==
    ASSUME TypeInv, TypeInv', OnceInv, term' = term + 1, announced' = announced,
           \A q \in Requests :
               Closing(q)' => Closing(q) /\ req'[q].closing = req[q].closing
    PROVE  OnceInv'
<1>1. \A q \in Requests : req[q].closing \in Nat
  BY DEF TypeInv, TypeOK, Held
<1>2. term \in Nat
  BY DEF TypeInv, TypeOK
<1>3. ASSUME NEW q \in Requests, Closing(q)'
      PROVE  /\ req'[q].closing <= term'
             /\ req'[q].closing # term'
             /\ req'[q].closing \in 1..MaxTerms => announced'[req'[q].closing] = 0
  BY <1>1, <1>2, <1>3 DEF OnceInv
<1>4. \A q, r \in Requests :
          Closing(q)' /\ Closing(r)' /\ q # r => req'[q].closing # req'[r].closing
  BY DEF OnceInv
<1>5. ASSUME NEW t \in 1..MaxTerms, t >= term' PROVE announced'[t] = 0
  BY <1>2, <1>5 DEF OnceInv
<1>6. \A t \in 1..MaxTerms : announced'[t] <= 1
  BY DEF OnceInv
<1> QED
  BY <1>2, <1>3, <1>4, <1>5, <1>6 DEF OnceInv

\* A request that goes on alone, and leaves the job's status and mark as they are.
LEMMA GoSafe ==
    ASSUME SafeInv, NEW r \in Requests, NEW h, Go(r, h),
           job' # None => job # None /\ job'.status = job.status /\ job'.reason = job.reason,
           term' = term, announced' = announced,
           h.step \in {"filled", "announce"} => Closing(r) /\ h.closing = req[r].closing,
           h.step = "edit" /\ h.status = "published" => h.copy.status = "published",
           h.step \in {"edit", "tally"} /\ ~h.stale /\ job' # None
               /\ h.copy.status # "published"
           => job'.status = h.copy.status /\ job'.reason = h.copy.reason
    PROVE  EditInv' /\ OnceInv' /\ CopyInv' /\ PublishedIsUnmarked'
<1>1. req' = [req EXCEPT ![r] = h] /\ req \in [Requests -> Held]
  BY DEF Go, SafeInv, TypeInv, TypeOK
<1>2. req'[r] = h /\ \A q \in Requests : q # r => req'[q] = req[q]
  BY <1>1
<1>3. EditInv'
  BY <1>2 DEF SafeInv, EditInv
<1>4. \A q \in Requests : Closing(q)' => Closing(q) /\ req'[q].closing = req[q].closing
  BY <1>2 DEF Closing
<1>5. OnceInv'
  BY <1>4, OnceKept DEF SafeInv, Public
<1>6. CopyInv'
  BY <1>2 DEF SafeInv, CopyInv
<1>7. PublishedIsUnmarked'
  BY DEF SafeInv, PublishedIsUnmarked
<1> QED
  BY <1>3, <1>5, <1>6, <1>7

\* The same, to a step at which nothing is asked.
LEMMA GoUnwatched ==
    ASSUME SafeInv, NEW r \in Requests, NEW h, Go(r, h), h.step \notin Watched,
           job' # None => job # None /\ job'.status = job.status /\ job'.reason = job.reason,
           term' = term, announced' = announced
    PROVE  EditInv' /\ OnceInv' /\ CopyInv' /\ PublishedIsUnmarked'
BY GoSafe DEF Watched

\* A save that is written makes every copy read before it stale.
LEMMA SaveSafe ==
    ASSUME SafeInv, TypeInv', NEW r \in Requests, NEW new, NEW h, h.step \notin Watched,
           job' = new,
           req' = [q \in Requests |->
                       IF q = r THEN h ELSE [req[q] EXCEPT !.stale = req[q].step # "idle"]],
           announced' = announced,
           \/ term' = term /\ (Public' => Public)
           \/ term' = term + 1,
           job' # None /\ job'.status = "published" => job'.reason = None
    PROVE  EditInv' /\ OnceInv' /\ CopyInv' /\ PublishedIsUnmarked'
<1>1. req'[r] = h
  OBVIOUS
<1>2. ASSUME NEW q \in Requests, q # r
      PROVE  /\ req'[q].step = req[q].step /\ req'[q].status = req[q].status
             /\ req'[q].copy = req[q].copy /\ req'[q].closing = req[q].closing
             /\ req'[q].stale = (req[q].step # "idle")
  <2>1. req[q] \in Held
    BY DEF SafeInv, TypeInv, TypeOK
  <2> QED
    BY <1>2, <2>1 DEF Held
<1>3. EditInv'
  BY <1>1, <1>2 DEF SafeInv, EditInv, Watched
<1>4. \A q \in Requests : Closing(q)' => Closing(q) /\ req'[q].closing = req[q].closing
  BY <1>1, <1>2 DEF Closing, Watched
<1>5. OnceInv'
  BY <1>4, OnceKept, OnceAdvanced DEF SafeInv
<1>6. \A q \in Requests : req'[q].step \in {"edit", "tally"} => req'[q].stale
  BY <1>1, <1>2, ZenonT(60) DEF Watched
<1>7. CopyInv'
  BY <1>6 DEF CopyInv
<1> QED
  BY <1>3, <1>5, <1>7 DEF PublishedIsUnmarked

LEMMA LoadSafe ==
    ASSUME SafeInv, NEW r \in Requests, Load(r)
    PROVE  EditInv' /\ OnceInv' /\ CopyInv' /\ PublishedIsUnmarked'
<1> USE DEF Idle
<1>1. ASSUME NEW c \in Candidates, NEW to \in Stages, LoadMove(r, c, to)
      PROVE  EditInv' /\ OnceInv' /\ CopyInv' /\ PublishedIsUnmarked'
  BY <1>1, GoUnwatched DEF LoadMove, Watched
<1>2. ASSUME NEW n \in Openings \cup {None}, NEW s \in Statuses \cup {None}, LoadEdit(r, n, s)
      PROVE  EditInv' /\ OnceInv' /\ CopyInv' /\ PublishedIsUnmarked'
  <2> DEFINE h == [Idle EXCEPT !.step = "edit", !.openings = n, !.status = s, !.copy = job]
  <2>1. h.step = "edit" /\ h.status = s /\ h.copy = job
    OBVIOUS
  <2>2. Go(r, h) /\ (s = "published" => job.status = "published")
    BY <1>2 DEF LoadEdit
  <2>3. job' = job /\ term' = term /\ announced' = announced /\ job # None
    BY <1>2 DEF LoadEdit
  <2> HIDE DEF h
  <2> QED
    BY <2>1, <2>2, <2>3, GoSafe
<1>3. CASE LoadPublish(r)
  <2> DEFINE h == [Idle EXCEPT !.step = "tally", !.copy = job]
  <2>1. h.step = "tally" /\ h.copy = job
    OBVIOUS
  <2>2. Go(r, h) /\ job' = job /\ term' = term /\ announced' = announced /\ job # None
    BY <1>3 DEF LoadPublish
  <2> HIDE DEF h
  <2> QED
    BY <2>1, <2>2, GoSafe
<1>4. CASE Delete(r)
  BY <1>4, GoUnwatched DEF Delete, Watched
<1> QED
  BY <1>1, <1>2, <1>3, <1>4 DEF Load

LEMMA MoveSafe ==
    ASSUME SafeInv, NEW r \in Requests, MoveSave(r) \/ LoadJob(r) \/ Fail(r)
    PROVE  EditInv' /\ OnceInv' /\ CopyInv' /\ PublishedIsUnmarked'
<1> USE DEF Idle, Watched
<1>1. CASE MoveSave(r)
  <2>1. PICK h : Go(r, h) /\ h.step \in {"idle", "reconcile"}
    BY <1>1 DEF MoveSave
  <2> QED
    BY <1>1, <2>1, GoUnwatched DEF MoveSave
<1>2. CASE LoadJob(r)
  <2> DEFINE h == IF job = None THEN Idle ELSE [Idle EXCEPT !.step = "count", !.copy = job]
  <2>1. h.step \in {"idle", "count"}
    OBVIOUS
  <2>2. Go(r, h) /\ job' = job /\ term' = term /\ announced' = announced
    BY <1>2 DEF LoadJob
  <2> HIDE DEF h
  <2> QED
    BY <2>1, <2>2, GoUnwatched
<1>3. CASE Fail(r)
  BY <1>3, GoUnwatched DEF Fail
<1> QED
  BY <1>1, <1>2, <1>3

\* Counting keeps the copy.
LEMMA CountingSafe ==
    ASSUME SafeInv, NEW r \in Requests, CountPending(r) \/ CountFilled(r)
    PROVE  EditInv' /\ OnceInv' /\ CopyInv' /\ PublishedIsUnmarked'
<1>1. req[r] \in Held
  BY DEF SafeInv, TypeInv, TypeOK
<1>2. PICK h : /\ Go(r, h) /\ h.step = req[r].step /\ h.stale = req[r].stale
               /\ h.copy = req[r].copy /\ h.step \in {"count", "tally"}
  BY <1>1 DEF CountPending, CountFilled, At, Held
<1>3. job' = job /\ term' = term /\ announced' = announced
  BY DEF CountPending, CountFilled
<1>4. /\ h.step = "tally" /\ ~h.stale /\ job # None /\ h.copy.status # "published"
      => job.status = h.copy.status /\ job.reason = h.copy.reason
  BY <1>2 DEF SafeInv, CopyInv
<1> QED
  BY <1>2, <1>3, <1>4, GoSafe

\* Only a published job is closed, and so only once per publication.
LEMMA CloseSafe ==
    ASSUME SafeInv, TypeInv', NEW r \in Requests, Close(r)
    PROVE  EditInv' /\ OnceInv' /\ CopyInv' /\ PublishedIsUnmarked'
<1> DEFINE hf == [req[r] EXCEPT !.step = "filled", !.closing = term]
           hc == [req[r] EXCEPT !.step = "counters"]
<1>1. req \in [Requests -> Held] /\ req[r] \in Held /\ term \in Nat
  BY DEF SafeInv, TypeInv, TypeOK
<1>2. hf.step = "filled" /\ hf.closing = term /\ hc.step = "counters"
  BY <1>1 DEF Held
<1>3. term' = term /\ announced' = announced
  BY DEF Close
<1>4. CASE ~Public
  <2>1. Go(r, hc) /\ job' = job
    BY <1>4 DEF Close, Public, GoTo
  <2> HIDE DEF hf, hc
  <2> QED
    BY <1>2, <1>3, <2>1, GoUnwatched DEF Watched
<1>5. CASE Public
  <2>1. job \in Jobs
    BY <1>5 DEF SafeInv, TypeInv, TypeOK, Public
  <2>2. req' = [req EXCEPT ![r] = hf] /\ job'.status = "closed"
    BY <1>5, <2>1 DEF Close, Public, Go, Jobs
  <2> HIDE DEF hf, hc
  <2>3. req'[r] = hf /\ \A q \in Requests : q # r => req'[q] = req[q]
    BY <1>1, <2>2
  <2>4. EditInv'
    BY <1>2, <2>3 DEF SafeInv, EditInv
  <2>5. CopyInv'
    BY <1>2, <1>5, <2>3 DEF SafeInv, CopyInv, Public
  <2>6. ~Closing(r) /\ ~Public'
    BY <2>2 DEF Close, At, Closing, Public
  <2>7. /\ \A q \in Requests : Closing(q) => req[q].closing # term
        /\ \A t \in 1..MaxTerms : t = term => announced[t] = 0
    BY <1>5 DEF SafeInv, OnceInv, Public
  <2>8. OnceInv'
    <3>1. \A q \in Requests : Closing(q)' /\ q # r => Closing(q) /\ req'[q].closing = req[q].closing
      BY <2>3 DEF Closing
    <3>2. \A q \in Requests : Closing(q)' =>
              /\ req'[q].closing <= term'
              /\ req'[q].closing \in 1..MaxTerms => announced'[req'[q].closing] = 0
      BY <1>1, <1>2, <1>3, <2>3, <2>7, <3>1 DEF SafeInv, OnceInv
    <3>3. \A p, q \in Requests :
              Closing(p)' /\ Closing(q)' /\ p # q => req'[p].closing # req'[q].closing
      BY <1>2, <2>3, <2>7, <3>1 DEF SafeInv, OnceInv
    <3> QED
      BY <1>3, <2>6, <3>2, <3>3 DEF SafeInv, OnceInv, Public
  <2>9. PublishedIsUnmarked'
    BY <2>2 DEF PublishedIsUnmarked
  <2> QED
    BY <2>4, <2>5, <2>8, <2>9
<1> QED
  BY <1>4, <1>5

LEMMA WriteCountersSafe ==
    ASSUME SafeInv, NEW r \in Requests, WriteCounters(r)
    PROVE  EditInv' /\ OnceInv' /\ CopyInv' /\ PublishedIsUnmarked'
<1>1. job' # None => job # None /\ job'.status = job.status /\ job'.reason = job.reason
  BY DEF WriteCounters, SafeInv, TypeInv, TypeOK, Jobs
<1> QED
  BY <1>1, GoUnwatched DEF WriteCounters, Watched, Idle

LEMMA ReleasesSafe ==
    ASSUME SafeInv, NEW r \in Requests,
           ReleaseFilled(r) \/ ReleaseClosed(r)
    PROVE  EditInv' /\ OnceInv' /\ CopyInv' /\ PublishedIsUnmarked'
<1>1. CASE ReleaseFilled(r)
  <2> DEFINE h == [req[r] EXCEPT !.step = "announce"]
  <2>1. req[r] \in Held
    BY DEF SafeInv, TypeInv, TypeOK
  <2>2. h.step = "announce" /\ h.closing = req[r].closing
    BY <2>1 DEF Held
  <2>3. Go(r, h) /\ Closing(r) /\ job' = job /\ term' = term /\ announced' = announced
    BY <1>1 DEF ReleaseFilled, Release, At, Closing
  <2> HIDE DEF h
  <2> QED
    BY <2>2, <2>3, GoSafe
<1>2. CASE ReleaseClosed(r)
  <2>1. PICK h : Go(r, h) /\ h.step \in {"idle", "reconcile"}
    BY <1>2 DEF ReleaseClosed, Release, Idle
  <2> QED
    BY <1>2, <2>1, GoUnwatched DEF ReleaseClosed, Release, Watched
<1> QED
  BY <1>1, <1>2

\* What is announced had not been, and nobody else is about to announce it.
LEMMA AnnounceSafe ==
    ASSUME SafeInv, TypeInv', NEW r \in Requests, Announce(r)
    PROVE  EditInv' /\ OnceInv' /\ CopyInv' /\ PublishedIsUnmarked'
<1> DEFINE c == req[r].closing
<1>1. /\ req \in [Requests -> Held] /\ announced \in [1..MaxTerms -> Nat]
      /\ term \in Nat /\ c \in Nat
  BY DEF SafeInv, TypeInv, TypeOK, Held
<1>2. /\ job' = job /\ term' = term /\ req' = [req EXCEPT ![r] = Idle]
      /\ announced' = [announced EXCEPT ![c] = announced[c] + 1]
  BY DEF Announce, Go
<1>3. req'[r].step = "idle" /\ \A q \in Requests : q # r => req'[q] = req[q]
  BY <1>1, <1>2 DEF Idle
<1>4. EditInv' /\ CopyInv' /\ PublishedIsUnmarked'
  BY <1>2, <1>3 DEF SafeInv, EditInv, CopyInv, PublishedIsUnmarked
<1>5. /\ Closing(r) /\ c <= term
      /\ c \in 1..MaxTerms => announced[c] = 0
      /\ Public => c # term
      /\ \A q \in Requests : Closing(q) /\ q # r => req[q].closing # c
  BY DEF Announce, At, Closing, SafeInv, OnceInv, Public
<1>6. ASSUME NEW t \in 1..MaxTerms
      PROVE  announced'[t] = IF t = c THEN announced[c] + 1 ELSE announced[t]
  BY <1>1, <1>2
<1>7. \A q \in Requests :
          Closing(q)' => Closing(q) /\ q # r /\ req'[q] = req[q] /\ req[q].closing # c
  BY <1>3, <1>5 DEF Closing
<1> HIDE DEF c
<1>8. OnceInv'
  <2>1. \A q \in Requests : Closing(q)' =>
            /\ req'[q].closing <= term'
            /\ req'[q].closing \in 1..MaxTerms => announced'[req'[q].closing] = 0
            /\ job' # None /\ job'.status = "published" => req'[q].closing # term'
    BY <1>2, <1>6, <1>7 DEF SafeInv, OnceInv
  <2>2. \A p, q \in Requests :
            Closing(p)' /\ Closing(q)' /\ p # q => req'[p].closing # req'[q].closing
    BY <1>7 DEF SafeInv, OnceInv
  <2>3. \A t \in 1..MaxTerms : t > term' => announced'[t] = 0
    BY <1>1, <1>2, <1>5, <1>6 DEF SafeInv, OnceInv
  <2>4. \A t \in 1..MaxTerms : Public' /\ t = term' => announced'[t] = 0
    BY <1>2, <1>5, <1>6 DEF SafeInv, OnceInv, Public
  <2>5. \A t \in 1..MaxTerms : announced'[t] <= 1
    BY <1>5, <1>6 DEF SafeInv, OnceInv
  <2> QED
    BY <2>1, <2>2, <2>3, <2>4, <2>5 DEF OnceInv, Public
<1> QED
  BY <1>4, <1>8

\* An edit publishes nothing, and keeps the mark.
LEMMA EditSafe ==
    ASSUME SafeInv, TypeInv', NEW r \in Requests, EditSave(r)
    PROVE  EditInv' /\ OnceInv' /\ CopyInv' /\ PublishedIsUnmarked'
<1> DEFINE h == req[r]
           opens == h.openings # None /\ h.openings # h.copy.openings
           moves == h.status # None /\ h.status # h.copy.status
           next == IF h.copy.status = "published" /\ h.status = "closed" THEN "closed"
                   ELSE IF h.openings # None \/ h.status = "published" THEN "reconcile" ELSE "idle"
           new == [job EXCEPT !.openings = IF opens THEN h.openings ELSE @,
                              !.status = IF moves THEN h.status ELSE @]
           held == IF next = "idle" THEN Idle
                   ELSE [Idle EXCEPT !.step = next, !.openings = h.openings]
<1>1. SaveJob(r, opens \/ moves, new, held) /\ term' = term /\ announced' = announced
  BY DEF EditSave
<1>2. held.step \in {"idle", "closed", "reconcile"} /\ Idle.step = "idle"
  BY DEF Idle
<1>4. moves => h.status # "published"
  BY DEF EditSave, At, SafeInv, EditInv
<1>5. job # None => /\ new.status = IF moves THEN h.status ELSE job.status
                    /\ new.reason = job.reason
  BY DEF SafeInv, TypeInv, TypeOK, Jobs
<1>6. CASE job' = job /\ (Go(r, held) \/ Go(r, Idle))
  <2> HIDE DEF held, new
  <2> QED
    BY <1>1, <1>2, <1>6, GoUnwatched DEF Watched
<1>7. CASE /\ job # None /\ job' = new
           /\ req' = [q \in Requests |->
                          IF q = r THEN held ELSE [req[q] EXCEPT !.stale = req[q].step # "idle"]]
  <2>1. Public' => Public
    BY <1>4, <1>5, <1>7 DEF Public
  <2>2. job'.status = "published" => job'.reason = None
    BY <1>4, <1>5, <1>7 DEF SafeInv, PublishedIsUnmarked
  <2>3. held.step \notin Watched
    BY <1>2 DEF Watched
  <2> HIDE DEF held, new
  <2> QED
    BY <1>1, <1>7, <2>1, <2>2, <2>3, SaveSafe
<1> HIDE DEF held, new, opens, moves
<1> QED
  BY <1>1, <1>6, <1>7 DEF SaveJob

\* What goes public has no mark: the copy is current, and its mark is cleared.
LEMMA PublishSafe ==
    ASSUME SafeInv, TypeInv', NEW r \in Requests, Publish(r)
    PROVE  EditInv' /\ OnceInv' /\ CopyInv' /\ PublishedIsUnmarked'
<1> DEFINE h == req[r]
           opens == h.copy.status # "published"
           unmarks == h.copy.reason # None
           recounts == h.filled # h.copy.filled \/ h.pending # h.copy.pending
           new == [job EXCEPT !.status = IF opens THEN "published" ELSE @,
                              !.reason = IF unmarks THEN None ELSE @,
                              !.filled = IF h.filled # h.copy.filled THEN h.filled ELSE @,
                              !.pending = IF h.pending # h.copy.pending THEN h.pending ELSE @]
           goesPublic == opens /\ ~h.stale /\ job # None
           held == Idle
           modified == opens \/ unmarks \/ recounts
<1>1. announced' = announced /\ held.step = "idle" /\ Idle.step = "idle"
  BY DEF Publish, Idle
<1>2. job # None => /\ new.status = IF opens THEN "published" ELSE job.status
                    /\ new.reason = IF unmarks THEN None ELSE job.reason
  BY DEF SafeInv, TypeInv, TypeOK, Jobs
<1>3. CASE Full(r)
  BY <1>1, <1>3, GoUnwatched DEF Publish, Watched
<1>4. CASE ~Full(r)
  <2>1. /\ SaveJob(r, modified, new, held)
        /\ term' = IF goesPublic THEN term + 1 ELSE term
    BY <1>4 DEF Publish
  <2>2. CASE ~goesPublic /\ job' = job /\ (Go(r, held) \/ Go(r, Idle))
    <3> HIDE DEF held, new, goesPublic
    <3> QED
      BY <1>1, <2>1, <2>2, GoUnwatched DEF Watched
  <2>3. CASE /\ job # None /\ ~h.stale /\ job' = new
             /\ req' = [q \in Requests |->
                            IF q = r THEN held ELSE [req[q] EXCEPT !.stale = req[q].step # "idle"]]
    <3>1. \/ term' = term /\ (Public' => Public)
          \/ term' = term + 1
      BY <1>2, <2>1, <2>3 DEF Public
    <3>2. opens => job.reason = h.copy.reason
      BY <2>3 DEF Publish, At, SafeInv, CopyInv
    <3>3. job'.status = "published" => job'.reason = None
      BY <1>2, <2>3, <3>2 DEF SafeInv, PublishedIsUnmarked
    <3>4. held.step \notin Watched
      BY <1>1 DEF Watched
    <3> HIDE DEF held, new, goesPublic
    <3> QED
      BY <1>1, <2>3, <3>1, <3>3, <3>4, SaveSafe
  <2>4. opens => modified
    OBVIOUS
  <2> HIDE DEF held, new, opens, modified
  <2> QED
    BY <2>1, <2>2, <2>3, <2>4 DEF SaveJob
<1> QED
  BY <1>3, <1>4

LEMMA SafeInvNext == SafeInv /\ [Next]_vars => SafeInv'
<1> SUFFICES ASSUME SafeInv, [Next]_vars PROVE SafeInv'
  OBVIOUS
<1>1. TypeInv'
  BY TypeInvNext DEF SafeInv
<1>2. CASE UNCHANGED vars
  BY <1>1, <1>2 DEF vars, SafeInv, EditInv, OnceInv, CopyInv, Closing, PublishedIsUnmarked
<1>3. ASSUME NEW r \in Requests, Load(r) \/ Proceed(r) \/ Fail(r) PROVE SafeInv'
  BY <1>1, <1>3, LoadSafe, MoveSafe, CountingSafe, CloseSafe, WriteCountersSafe, ReleasesSafe,
     AnnounceSafe, EditSafe, PublishSafe DEF Proceed, SafeInv
<1> QED
  BY <1>2, <1>3 DEF Next

LEMMA SafeInvAlways == Spec => []SafeInv
BY SafeInvInit, SafeInvNext, PTL DEF Spec

\* However many final acceptances reconcile together, and wherever one dies, each
\* publication that fills up is withdrawn and announced at most once.
THEOREM AnnouncesOnce == Spec => []AnnouncedOnce
<1>1. SafeInv => AnnouncedOnce
  BY DEF SafeInv, OnceInv, AnnouncedOnce
<1> QED
  BY <1>1, SafeInvAlways, PTL

\* However publishing, editing and automatic closing overlap, no published job
\* carries the mark of a filled one.
THEOREM PublishesUnmarked == Spec => []PublishedIsUnmarked
<1>1. SafeInv => PublishedIsUnmarked
  BY DEF SafeInv
<1> QED
  BY <1>1, SafeInvAlways, PTL

-----------------------------------------------------------------------------
(* At rest, while requests do not overlap                                  *)

\* Requests do not overlap: there is one slot.  With two, the reconcile of the last
\* acceptance may run between another's counts and its save.
OneRequest == \A q, r \in Requests : q = r

\* What the stored job says of the board: its counters, and room while it is public.
Exact == job # None => job.filled = CountIn(Filled) /\ job.pending = CountIn(Pending)
Room == job # None /\ job.status = "published" => CountIn(Filled) < job.openings

\* What a request has read is still so.
HeldOK(r) ==
    /\ ~req[r].stale /\ req[r].step # "counters"
    /\ req[r].step = "move" => req[r].seen = cand[req[r].who]
    /\ req[r].step \in {"count", "tally", "edit"} => job # None /\ req[r].copy = job
    /\ req[r].step = "edit" /\ req[r].status = "published" => job.status = "published"
    /\ req[r].step \in {"count", "tally"} =>
        req[r].pending \in {None, CountIn(Pending)} /\ req[r].filled \in {None, CountIn(Filled)}

\* A request that has to reconcile first.
Counting(r) == req[r].step \in {"reconcile", "count"}

RoleInv ==
    /\ \A r \in Requests : HeldOK(r)
    /\ OffersKeepTheirPlace
    /\ ~Failures => \A r \in Requests : Counting(r) \/ (Exact /\ Room)

LEMMA CountStays ==
    ASSUME NEW S, \A c \in Candidates : cand'[c].stage \in S <=> cand[c].stage \in S
    PROVE  CountIn(S)' = CountIn(S)
<1>1. {c \in Candidates : cand'[c].stage \in S} = {c \in Candidates : cand[c].stage \in S}
  OBVIOUS
<1> QED
  BY <1>1 DEF CountIn

\* The one request that goes on.
LEMMA RoleGo ==
    ASSUME OneRequest, NEW r \in Requests, HeldOK(r)', OffersKeepTheirPlace',
           ~Failures => Counting(r)' \/ (Exact /\ Room)'
    PROVE  RoleInv'
BY DEF OneRequest, RoleInv

\* A request that holds nothing of the job or of a candidate.
LEMMA RoleHolds ==
    ASSUME NEW r \in Requests, req'[r].step \notin {"counters", "move", "count", "tally", "edit"}, ~req'[r].stale
    PROVE  HeldOK(r)'
BY DEF HeldOK

\* Neither the job nor the board moves.
LEMMA RoleKeeps ==
    ASSUME OneRequest, RoleInv, NEW r \in Requests, job' = job, cand' = cand, HeldOK(r)',
           Counting(r) => Counting(r)' \/ job = None \/ Failures
    PROVE  RoleInv'
<1>1. OffersKeepTheirPlace'
  BY DEF RoleInv, OffersKeepTheirPlace
<1>2. CountIn(Filled)' = CountIn(Filled) /\ CountIn(Pending)' = CountIn(Pending)
  BY DEF CountIn
<1>3. ~Failures => Counting(r)' \/ (Exact /\ Room)'
  BY <1>2 DEF RoleInv, Exact, Room
<1> QED
  BY <1>1, <1>3, RoleGo

LEMMA RoleLoads ==
    ASSUME TypeInv, OneRequest, RoleInv, NEW r \in Requests, Load(r)
    PROVE  RoleInv'
<1>1. req[r].step = "idle" /\ cand' = cand
  BY DEF Load, LoadMove, LoadEdit, LoadPublish, Delete, At
<1>2. ASSUME NEW c \in Candidates, NEW to \in Stages, LoadMove(r, c, to) PROVE RoleInv'
  <2> DEFINE h == [Idle EXCEPT !.step = "move", !.who = c, !.to = to, !.seen = cand[c]]
  <2>1. h.step = "move" /\ h.who = c /\ h.seen = cand[c] /\ ~h.stale
    BY DEF Idle
  <2>2. req'[r] = h /\ job' = job
    BY <1>2 DEF LoadMove, Go, TypeInv, TypeOK
  <2> HIDE DEF h
  <2> QED
    BY <1>1, <2>1, <2>2, RoleKeeps DEF HeldOK, Counting
<1>3. ASSUME NEW n, NEW s, LoadEdit(r, n, s) PROVE RoleInv'
  <2> DEFINE h == [Idle EXCEPT !.step = "edit", !.openings = n, !.status = s, !.copy = job]
  <2>1. h.step = "edit" /\ h.status = s /\ h.copy = job /\ ~h.stale
    BY DEF Idle
  <2>2. req'[r] = h /\ job' = job /\ job # None /\ (s = "published" => job.status = "published")
    BY <1>3 DEF LoadEdit, Go, TypeInv, TypeOK
  <2> HIDE DEF h
  <2> QED
    BY <1>1, <2>1, <2>2, RoleKeeps DEF HeldOK, Counting
<1>4. CASE LoadPublish(r)
  <2> DEFINE h == [Idle EXCEPT !.step = "tally", !.copy = job]
  <2>1. h.step = "tally" /\ h.copy = job /\ ~h.stale /\ h.pending = None /\ h.filled = None
    BY DEF Idle
  <2>2. req'[r] = h /\ job' = job /\ job # None
    BY <1>4 DEF LoadPublish, Go, TypeInv, TypeOK
  <2> HIDE DEF h
  <2> QED
    BY <1>1, <2>1, <2>2, RoleKeeps DEF HeldOK, Counting
<1>5. CASE Delete(r)
  <2>1. req'[r] = Idle /\ job' = None
    BY <1>5 DEF Delete, Go, TypeInv, TypeOK
  <2>2. HeldOK(r)'
    BY <2>1, RoleHolds DEF Idle
  <2>3. OffersKeepTheirPlace' /\ (Exact /\ Room)'
    BY <1>1, <2>1 DEF RoleInv, OffersKeepTheirPlace, Exact, Room
  <2> QED
    BY <2>2, <2>3, RoleGo
<1> QED
  BY <1>2, <1>3, <1>4, <1>5 DEF Load

\* A stage that moves without touching an offer changes no count.
LEMMA RoleMoves ==
    ASSUME TypeInv, OneRequest, RoleInv, NEW r \in Requests, MoveSave(r)
    PROVE  RoleInv'
<1> DEFINE c == req[r].who
           to == req[r].to
           back == req[r].seen.exit \notin {None, "job_deleted"}
           now == [cand[c] EXCEPT !.stage = to, !.exit = IF back THEN None ELSE @]
<1>1. /\ c \in Candidates /\ to \in Stages /\ req[r].seen = cand[c] /\ cand \in [Candidates -> People]
      /\ req[r].step = "move" /\ req \in [Requests -> Held]
  BY DEF MoveSave, At, TypeInv, TypeOK, Sound, RoleInv, HeldOK
<1>2. cand' = [cand EXCEPT ![c] = now] /\ job' = job
  BY <1>1 DEF MoveSave
<1>3. now.exit \in {None, "job_deleted"} /\ now.stage = to
  BY <1>1 DEF People
<1>4. req'[r] = IF AffectsCapacity(cand[c].stage, to) THEN [Idle EXCEPT !.step = "reconcile"] ELSE Idle
  BY <1>1 DEF MoveSave, Go
<1> HIDE DEF c, to, back, now
<1>5. HeldOK(r)'
  BY <1>4, RoleHolds DEF Idle
<1>6. OffersKeepTheirPlace'
  BY <1>1, <1>2, <1>3, NoneAssumption DEF RoleInv, OffersKeepTheirPlace
<1>7. CASE AffectsCapacity(cand[c].stage, to)
  BY <1>4, <1>5, <1>6, <1>7, RoleGo DEF Counting, Idle
<1>8. CASE ~AffectsCapacity(cand[c].stage, to)
  <2>1. \A S \in {Pending, Filled} : cand[c].stage \notin S /\ to \notin S
    BY <1>8 DEF AffectsCapacity
  <2>2. ASSUME NEW S \in {Pending, Filled}, NEW b \in Candidates
        PROVE  cand'[b].stage \in S <=> cand[b].stage \in S
    BY <1>1, <1>2, <1>3, <2>1
  <2>3. CountIn(Pending)' = CountIn(Pending) /\ CountIn(Filled)' = CountIn(Filled)
    BY <2>2, CountStays
  <2>4. ~Failures => (Exact /\ Room)'
    BY <1>1, <1>2, <2>3 DEF RoleInv, Counting, Exact, Room
  <2> QED
    BY <1>5, <1>6, <2>4, RoleGo
<1> QED
  BY <1>7, <1>8

LEMMA RoleCounts ==
    ASSUME TypeInv, OneRequest, RoleInv, NEW r \in Requests, LoadJob(r) \/ CountPending(r) \/ CountFilled(r)
    PROVE  RoleInv'
<1>1. /\ job' = job /\ cand' = cand /\ req[r] \in Held /\ HeldOK(r) /\ req \in [Requests -> Held]
      /\ CountIn(Filled)' = CountIn(Filled) /\ CountIn(Pending)' = CountIn(Pending)
  BY DEF LoadJob, CountPending, CountFilled, CountIn, TypeInv, TypeOK, RoleInv
<1>2. CASE LoadJob(r)
  <2> DEFINE h == [Idle EXCEPT !.step = "count", !.copy = job]
  <2>1. h.step = "count" /\ h.copy = job /\ ~h.stale /\ h.pending = None /\ h.filled = None
    BY DEF Idle
  <2>2. req'[r] = IF job = None THEN Idle ELSE h
    BY <1>1, <1>2 DEF LoadJob, Go
  <2> HIDE DEF h
  <2>3. HeldOK(r)'
    BY <1>1, <2>1, <2>2, RoleHolds DEF HeldOK, Idle
  <2>4. Counting(r)' \/ job = None
    BY <2>1, <2>2 DEF Counting
  <2> QED
    BY <1>1, <2>3, <2>4, RoleKeeps
<1>3. CASE CountPending(r) \/ CountFilled(r)
  <2>1. PICK p \in Nat, f \in Nat : p = CountIn(Pending) /\ f = CountIn(Filled)
    BY CountType
  <2> DEFINE hp == [req[r] EXCEPT !.pending = p]
             hf == [req[r] EXCEPT !.filled = f]
  <2>2. /\ hp.step = req[r].step /\ hp.copy = req[r].copy /\ hp.stale = req[r].stale
        /\ hp.pending = p /\ hp.filled = req[r].filled
        /\ hf.step = req[r].step /\ hf.copy = req[r].copy /\ hf.stale = req[r].stale
        /\ hf.pending = req[r].pending /\ hf.filled = f
    BY <1>1 DEF Held
  <2>3. req[r].step \in {"count", "tally"} /\ (req'[r] = hp \/ req'[r] = hf)
    BY <1>1, <1>3, <2>1 DEF CountPending, CountFilled, Go, At
  <2> HIDE DEF hp, hf
  <2>4. HeldOK(r)' /\ (Counting(r) => Counting(r)')
    BY <1>1, <2>1, <2>2, <2>3 DEF HeldOK, Counting
  <2> QED
    BY <1>1, <2>4, RoleKeeps
<1> QED
  BY <1>2, <1>3

\* Closing and counting write what is counted now, and leave room if the job stays
\* public.
LEMMA RoleWrites ==
    ASSUME TypeInv, OneRequest, RoleInv, NEW r \in Requests, Close(r) \/ WriteCounters(r)
    PROVE  RoleInv'
<1>1. /\ cand' = cand /\ job \in Jobs /\ job # None /\ req[r].copy = job /\ HeldOK(r) /\ req \in [Requests -> Held]
      /\ req[r].step = "count" /\ req[r].pending = CountIn(Pending) /\ req[r].filled = CountIn(Filled)
  BY DEF Close, WriteCounters, Counted, At, RoleInv, HeldOK, TypeInv, TypeOK
<1>2. CountIn(Filled)' = CountIn(Filled) /\ CountIn(Pending)' = CountIn(Pending)
  BY <1>1 DEF CountIn
<1>3. PICK p \in Nat, f \in Nat : p = req[r].pending /\ f = req[r].filled
  BY <1>1, CountType
<1>4. OffersKeepTheirPlace'
  BY <1>1 DEF RoleInv, OffersKeepTheirPlace
<1>5. CASE Close(r)
  <2> DEFINE h == [req[r] EXCEPT !.step = "filled", !.closing = term]
             new == [job EXCEPT !.status = "closed", !.reason = "openings_filled", !.filled = f, !.pending = p]
  <2>1. h.step = "filled" /\ h.stale = req[r].stale
    BY <1>1 DEF Held
  <2>2. new.status = "closed" /\ new.filled = f /\ new.pending = p
    BY <1>1 DEF Jobs
  <2>3. job' = new /\ req'[r] = h
    BY <1>1, <1>3, <1>5 DEF Close, Go
  <2> HIDE DEF h, new
  <2>4. HeldOK(r)'
    BY <1>1, <2>1, <2>3, RoleHolds DEF HeldOK
  <2>5. (Exact /\ Room)'
    BY <1>1, <1>2, <1>3, <2>2, <2>3 DEF Exact, Room
  <2> QED
    BY <1>4, <2>4, <2>5, RoleGo
<1>6. CASE WriteCounters(r)
  <2> DEFINE new == [job EXCEPT !.filled = f, !.pending = p]
  <2>1. new.status = job.status /\ new.openings = job.openings /\ new.filled = f /\ new.pending = p
    BY <1>1 DEF Jobs
  <2>2. job' = new /\ req'[r] = Idle
    BY <1>1, <1>3, <1>6 DEF WriteCounters, Go
  <2>3. job.status = "published" => f < job.openings
    <3>1. job.openings \in Nat
      BY <1>1, BoundAssumption DEF Jobs, Openings
    <3> QED
      BY <1>1, <1>3, <1>6, <3>1 DEF WriteCounters, Full, At
  <2> HIDE DEF new
  <2>4. HeldOK(r)'
    BY <2>2, RoleHolds DEF Idle
  <2>5. (Exact /\ Room)'
    BY <1>1, <1>2, <1>3, <2>1, <2>2, <2>3 DEF Exact, Room
  <2> QED
    BY <1>4, <2>4, <2>5, RoleGo
<1> QED
  BY <1>5, <1>6

\* A release is only of candidates without an offer, and of no job that is public.
LEMMA RoleReleases ==
    ASSUME TypeInv, OneRequest, RoleInv, NEW r \in Requests, ReleaseFilled(r) \/ ReleaseClosed(r) \/ Announce(r)
    PROVE  RoleInv'
<1>1. /\ job' = job /\ cand \in [Candidates -> People] /\ req[r] \in Held /\ HeldOK(r) /\ req \in [Requests -> Held]
      /\ ~Counting(r)
  BY DEF ReleaseFilled, ReleaseClosed, Announce, Release, TypeInv, TypeOK, RoleInv, At, Counting
<1>2. ASSUME NEW why \in Exits, cand' = Released(why) \/ cand' = cand
      PROVE  OffersKeepTheirPlace' /\ \A c \in Candidates : cand'[c].stage = cand[c].stage
  BY <1>1, <1>2 DEF Released, People, RoleInv, OffersKeepTheirPlace
<1>3. OffersKeepTheirPlace' /\ \A c \in Candidates : cand'[c].stage = cand[c].stage
  BY <1>2 DEF ReleaseFilled, ReleaseClosed, Announce, Release, Exits
<1>4. CountIn(Filled)' = CountIn(Filled) /\ CountIn(Pending)' = CountIn(Pending)
  BY <1>3, CountStays
<1>5. ~Failures => (Exact /\ Room)'
  BY <1>1, <1>4 DEF RoleInv, Exact, Room
<1>6. HeldOK(r)'
  <2> DEFINE ha == [req[r] EXCEPT !.step = "announce"]
             hr == [Idle EXCEPT !.step = "reconcile"]
  <2>1. ha.step = "announce" /\ ha.stale = req[r].stale /\ hr.step = "reconcile" /\ ~hr.stale
    BY <1>1 DEF Held, Idle
  <2>2. req'[r] \in {ha, hr, Idle}
    BY <1>1 DEF ReleaseFilled, ReleaseClosed, Announce, Release, Go
  <2> HIDE DEF ha, hr
  <2> QED
    BY <1>1, <2>1, <2>2, RoleHolds DEF HeldOK, Idle
<1> QED
  BY <1>3, <1>5, <1>6, RoleGo

\* With one request no copy is ever stale, so every save goes through.
LEMMA RoleSaves ==
    ASSUME TypeInv, OneRequest, RoleInv, NEW r \in Requests, NEW modified \in BOOLEAN, NEW new, NEW held,
           SaveJob(r, modified, new, held), job # None
    PROVE  /\ req'[r] = held
           /\ modified => job' = new
           /\ ~modified => job' = job
<1>1. ~req[r].stale /\ req \in [Requests -> Held]
  BY DEF RoleInv, HeldOK, TypeInv, TypeOK
<1> QED
  BY <1>1 DEF SaveJob, Go

\* An edit that takes room away goes on to reconcile.
LEMMA RoleEdits ==
    ASSUME TypeInv, OneRequest, RoleInv, NEW r \in Requests, EditSave(r)
    PROVE  RoleInv'
<1> DEFINE h == req[r]
           opens == h.openings # None /\ h.openings # h.copy.openings
           moves == h.status # None /\ h.status # h.copy.status
           next == IF h.copy.status = "published" /\ h.status = "closed" THEN "closed"
                   ELSE IF h.openings # None \/ h.status = "published" THEN "reconcile" ELSE "idle"
           new == [job EXCEPT !.openings = IF opens THEN h.openings ELSE @,
                              !.status = IF moves THEN h.status ELSE @]
           held == IF next = "idle" THEN Idle ELSE [Idle EXCEPT !.step = next, !.openings = h.openings]
<1>1. /\ h.step = "edit" /\ h.copy = job /\ job \in Jobs /\ job # None /\ cand' = cand
      /\ h.status = "published" => job.status = "published"
  BY DEF EditSave, At, RoleInv, HeldOK, TypeInv, TypeOK
<1>2. SaveJob(r, opens \/ moves, new, held)
  BY DEF EditSave
<1>3. /\ new.filled = job.filled /\ new.pending = job.pending
      /\ new.openings = IF opens THEN h.openings ELSE job.openings
      /\ new.status = IF moves THEN h.status ELSE job.status
  BY <1>1 DEF Jobs
<1>4. held.step = next /\ ~held.stale /\ next \in {"closed", "reconcile", "idle"}
  BY DEF Idle
<1>5. /\ next = "idle" => ~opens /\ (new.status = "published" => job.status = "published")
      /\ next = "closed" => new.status # "published" /\ moves
  BY <1>1, <1>3
<1> HIDE DEF new, held, next, opens, moves
<1>6. req'[r] = held /\ (job' = new \/ (job' = job /\ ~opens /\ ~moves))
  BY <1>1, <1>2, RoleSaves
<1>7. HeldOK(r)'
  BY <1>4, <1>6, RoleHolds
<1>8. OffersKeepTheirPlace'
  BY <1>1 DEF RoleInv, OffersKeepTheirPlace
<1>9. ~Failures => Exact /\ Room
  BY <1>1 DEF RoleInv, Counting
<1>10. CountIn(Filled)' = CountIn(Filled) /\ CountIn(Pending)' = CountIn(Pending)
  BY <1>1 DEF CountIn
<1>11. ~Failures => Counting(r)' \/ (Exact /\ Room)'
  <2>1. CASE next = "reconcile"
    BY <1>4, <1>6, <2>1 DEF Counting
  <2>2. CASE next = "idle"
    BY <1>1, <1>3, <1>5, <1>6, <1>9, <1>10, <2>2 DEF Exact, Room
  <2>3. CASE next = "closed"
    BY <1>1, <1>3, <1>5, <1>6, <1>9, <1>10, <2>3 DEF Exact, Room
  <2> QED
    BY <1>4, <2>1, <2>2, <2>3
<1> QED
  BY <1>7, <1>8, <1>11, RoleGo

LEMMA RolePublishes ==
    ASSUME TypeInv, OneRequest, RoleInv, NEW r \in Requests, Publish(r)
    PROVE  RoleInv'
<1> DEFINE h == req[r]
           opens == h.copy.status # "published"
           unmarks == h.copy.reason # None
           recounts == h.filled # h.copy.filled \/ h.pending # h.copy.pending
           new == [job EXCEPT !.status = IF opens THEN "published" ELSE @,
                              !.reason = IF unmarks THEN None ELSE @,
                              !.filled = IF h.filled # h.copy.filled THEN h.filled ELSE @,
                              !.pending = IF h.pending # h.copy.pending THEN h.pending ELSE @]
<1>1. /\ h.copy = job /\ job \in Jobs /\ job # None /\ cand' = cand /\ req \in [Requests -> Held]
      /\ h.pending = CountIn(Pending) /\ h.filled = CountIn(Filled) /\ ~Counting(r)
  BY DEF Publish, Counted, At, RoleInv, HeldOK, TypeInv, TypeOK, Counting
<1>2. OffersKeepTheirPlace'
  BY <1>1 DEF RoleInv, OffersKeepTheirPlace
<1>3. CountIn(Filled)' = CountIn(Filled) /\ CountIn(Pending)' = CountIn(Pending)
  BY <1>1 DEF CountIn
<1>4. CASE Full(r)
  <2>1. req'[r] = Idle /\ job' = job
    BY <1>1, <1>4 DEF Publish, Go
  <2>2. HeldOK(r)'
    BY <2>1, RoleHolds DEF Idle
  <2> QED
    BY <1>1, <2>1, <2>2, RoleKeeps
<1>5. CASE ~Full(r)
  <2>1. SaveJob(r, opens \/ unmarks \/ recounts, new, Idle)
    BY <1>5 DEF Publish
  <2>2. h.filled < job.openings
    <3>1. job.openings \in Nat /\ h.filled \in Nat
      BY <1>1, CountType, BoundAssumption DEF Jobs, Openings
    <3> QED
      BY <1>1, <1>5, <3>1 DEF Full
  <2>3. new.openings = job.openings /\ new.filled = h.filled /\ new.pending = h.pending
    BY <1>1 DEF Jobs
  <2>4. ~(opens \/ unmarks \/ recounts) => job.filled = h.filled /\ job.pending = h.pending
    BY <1>1
  <2> HIDE DEF new, opens, unmarks, recounts
  <2>5. req'[r] = Idle /\ (job' = new \/ (job' = job /\ job.filled = h.filled /\ job.pending = h.pending))
    BY <1>1, <2>1, <2>4, RoleSaves
  <2>6. HeldOK(r)'
    BY <2>5, RoleHolds DEF Idle
  <2>7. (Exact /\ Room)'
    BY <1>1, <1>3, <2>2, <2>3, <2>5 DEF Exact, Room
  <2> QED
    BY <1>2, <2>6, <2>7, RoleGo
<1> QED
  BY <1>4, <1>5

LEMMA RoleNext == ASSUME OneRequest PROVE TypeInv /\ RoleInv /\ [Next]_vars => RoleInv'
<1> SUFFICES ASSUME TypeInv, RoleInv, [Next]_vars PROVE RoleInv'
  OBVIOUS
<1>1. CASE UNCHANGED vars
  <2>1. CountIn(Filled)' = CountIn(Filled) /\ CountIn(Pending)' = CountIn(Pending)
    BY <1>1 DEF vars, CountIn
  <2> QED
    BY <1>1, <2>1 DEF vars, RoleInv, HeldOK, OffersKeepTheirPlace, Counting, Exact, Room
<1>2. ASSUME NEW r \in Requests, Load(r) PROVE RoleInv'
  BY <1>2, RoleLoads
<1>3. ASSUME NEW r \in Requests, Proceed(r) PROVE RoleInv'
  BY <1>3, RoleMoves, RoleCounts, RoleWrites, RoleReleases, RoleEdits, RolePublishes DEF Proceed
<1>4. ASSUME NEW r \in Requests, Fail(r) PROVE RoleInv'
  <2>1. Failures /\ req'[r] = Idle /\ job' = job /\ cand' = cand
    BY <1>4 DEF Fail, Go, TypeInv, TypeOK
  <2>2. HeldOK(r)'
    BY <2>1, RoleHolds DEF Idle
  <2> QED
    BY <2>1, <2>2, RoleKeeps
<1> QED
  BY <1>1, <1>2, <1>3, <1>4 DEF Next

LEMMA RoleInit == Init => RoleInv
<1> SUFFICES ASSUME Init PROVE RoleInv
  OBVIOUS
<1>1. \A S \in {Pending, Filled} : {c \in Candidates : cand[c].stage \in S} = {}
  BY DEF Init, Pending, Filled
<1>2. CountIn(Pending) = 0 /\ CountIn(Filled) = 0
  BY <1>1, FS_EmptySet DEF CountIn
<1>3. \A r \in Requests : HeldOK(r)
  BY DEF Init, HeldOK, Idle
<1>4. OffersKeepTheirPlace
  BY DEF Init, OffersKeepTheirPlace
<1> QED
  BY <1>2, <1>3, <1>4 DEF Init, RoleInv, Exact, Room

LEMMA RoleAlways == ASSUME OneRequest PROVE Spec => []RoleInv
BY RoleInit, RoleNext, TypeInvAlways, PTL DEF Spec

\* While requests do not overlap, a release never takes off the board whoever holds
\* an offer or was decided on, and whoever gets an offer is put back, wherever
\* handlers die.
THEOREM OffersAreKept == ASSUME OneRequest PROVE Spec => []OffersKeepTheirPlace
<1>1. RoleInv => OffersKeepTheirPlace
  BY DEF RoleInv
<1> QED
  BY <1>1, RoleAlways, PTL

\* While requests do not overlap and none dies, once all are done the counters of
\* the job are the counts of its board, and a job with every opening filled is not
\* public: whether the last opening went by a move, by an edit of the openings, or
\* was gone before it was published.
THEOREM RoleIsSettled ==
    ASSUME OneRequest, ~Failures, Requests # {}
    PROVE  Spec => []RoleIsConsistent
<1>1. RoleInv => RoleIsConsistent
  BY DEF RoleInv, Counting, Exact, Room, RoleIsConsistent, CountersAreExact, FullJobIsClosed, AtRest, At
<1> QED
  BY <1>1, RoleAlways, PTL

-----------------------------------------------------------------------------
(* What the public sees.                                                     *)

CONSTANTS Processes, NoPage, Ttl, MaxTime, MaxChanges, MaxReads
VARIABLES now, revision, published, applied, version, bumps, up, redis, local, pending, list, detail, shown, reads

Site == INSTANCE Careers

SiteBounds == Ttl \in Nat \ {0} /\ MaxTime \in Nat /\ MaxChanges \in Nat /\ MaxReads \in Nat /\ NoPage \notin Site!Page

Visits == [step : {"idle", "look", "render", "store", "share"}, version : Site!Versions, page : Site!Pages]

SiteTypes ==
    /\ now \in 0 .. MaxTime /\ revision \in 0 .. MaxChanges /\ published \in BOOLEAN /\ applied \in BOOLEAN
    /\ version \in Site!Versions /\ bumps \in [Site!Versions -> 0 .. MaxChanges] /\ up \in BOOLEAN
    /\ redis \in [Site!Versions -> Site!Pages] /\ local \in [Processes -> [Site!Versions -> Site!Pages]]
    /\ pending \in 0 .. MaxChanges /\ reads \in 0 .. MaxReads
    /\ req \in [Processes -> Visits]

SideTypes ==
    /\ list = NoPage \/ list \in [published : BOOLEAN, at : 0 .. MaxTime]
    /\ detail = NoPage \/ detail \in [mine : BOOLEAN, at : 0 .. MaxTime]
    /\ shown \in [viewer : {"nobody", "visitor", "candidate"}, applied : BOOLEAN, open : BOOLEAN]

(* An increment for each change at most, and a key for each increment.       *)
VersionsFollow == version + pending <= revision /\ \A v \in Site!Versions : bumps[v] <= revision

(* A page under a version that a clear made is as new as that clear; nothing
   is kept under a version no clear has made yet.                            *)
KeptUnder(v, page) == page = NoPage \/ (page.revision >= bumps[v] /\ v <= version)
PagesAreCleared ==
    \A v \in Site!Versions \ {0} : KeptUnder(v, redis[v]) /\ \A p \in Processes : KeptUnder(v, local[p][v])

(* Redis keeps a page from the moment it was read, a process from a term later
   at most.                                                                  *)
PagesAreDated ==
    /\ \A v \in Site!Versions : redis[v] # NoPage => redis[v].at = redis[v].read
    /\ \A p \in Processes : \A v \in Site!Versions : local[p][v] # NoPage => local[p][v].at - local[p][v].read < Ttl

(* What a request has rendered and not stored yet.                           *)
Rendered(x) ==
    /\ x.version <= version
    /\ x.step \in {"store", "share"} =>
          /\ x.page # NoPage /\ x.page.at = x.page.read
          /\ x.version # 0 => x.page.revision >= bumps[x.version]
PagesOnTheWay == \A p \in Processes : Rendered(req[p])

PagesInv == SiteTypes /\ VersionsFollow /\ PagesAreCleared /\ PagesAreDated /\ PagesOnTheWay

-----------------------------------------------------------------------------
LEMMA SiteIdle ==
    ASSUME SiteBounds
    PROVE  /\ Site!Idle \in Visits /\ Site!Idle.step = "idle" /\ Site!Idle.version = 0 /\ Site!Idle.page = NoPage
           /\ 0 \in Site!Versions /\ NoPage \in Site!Pages
<1>1. 0 \in Site!Versions /\ NoPage \in Site!Pages
  BY DEF SiteBounds, Site!Versions, Site!Pages
<1> QED
  BY <1>1 DEF Site!Idle, Visits

LEMMA SiteInit == ASSUME SiteBounds, Site!Init PROVE PagesInv
<1>1. req \in [Processes -> Visits] /\ \A p \in Processes : req[p].step = "idle" /\ req[p].version = 0
  BY SiteIdle DEF Site!Init
<1>2. redis \in [Site!Versions -> Site!Pages] /\ \A v \in Site!Versions : redis[v] = NoPage
  BY SiteIdle DEF Site!Init
<1>3. local \in [Processes -> [Site!Versions -> Site!Pages]] /\ \A p \in Processes : \A v \in Site!Versions : local[p][v] = NoPage
  BY SiteIdle DEF Site!Init
<1>4. 0 \in 0 .. MaxTime /\ 0 \in 0 .. MaxChanges /\ 0 \in 0 .. MaxReads
  BY DEF SiteBounds
<1>5. bumps \in [Site!Versions -> 0 .. MaxChanges] /\ \A v \in Site!Versions : bumps[v] = 0
  BY <1>4 DEF Site!Init
<1>6. now = 0 /\ revision = 0 /\ version = 0 /\ pending = 0 /\ reads = 0
  BY DEF Site!Init
<1>7. published \in BOOLEAN /\ applied \in BOOLEAN /\ up \in BOOLEAN
  BY DEF Site!Init
<1>8. SiteTypes
  BY <1>1, <1>2, <1>3, <1>4, <1>5, <1>6, <1>7, SiteIdle DEF SiteTypes
<1>9. VersionsFollow
  BY <1>5, <1>6 DEF VersionsFollow
<1>10. PagesAreCleared /\ PagesAreDated
  BY <1>2, <1>3 DEF PagesAreCleared, PagesAreDated, KeptUnder
<1>11. PagesOnTheWay
  BY <1>1, <1>6 DEF PagesOnTheWay, Rendered
<1> QED
  BY <1>8, <1>9, <1>10, <1>11 DEF PagesInv

(* One request moves on while the database and the version stand still.      *)
LEMMA VisitMoves ==
    ASSUME PagesInv, NEW p \in Processes, NEW x \in Visits, req' = [req EXCEPT ![p] = x], Rendered(x),
           UNCHANGED <<now, revision, published, applied, version, bumps, up, pending>>, reads' \in 0 .. MaxReads,
           redis' \in [Site!Versions -> Site!Pages], local' \in [Processes -> [Site!Versions -> Site!Pages]],
           PagesAreCleared', PagesAreDated'
    PROVE  PagesInv'
<1>1. req' \in [Processes -> Visits] /\ req'[p] = x /\ \A q \in Processes : q # p => req'[q] = req[q]
  BY DEF PagesInv, SiteTypes
<1>2. SiteTypes' /\ VersionsFollow'
  BY <1>1 DEF PagesInv, SiteTypes, VersionsFollow
<1>3. PagesOnTheWay'
  BY <1>1 DEF PagesInv, PagesOnTheWay, Rendered
<1> QED
  BY <1>2, <1>3 DEF PagesInv

LEMMA NumbersOfTheSite ==
    ASSUME SiteBounds, PagesInv
    PROVE  /\ now \in Nat /\ revision \in Nat /\ version \in Nat /\ pending \in Nat /\ Ttl \in Nat \ {0} /\ reads \in Nat
           /\ MaxChanges \in Nat /\ \A v \in Site!Versions : v \in Nat /\ bumps[v] \in Nat /\ bumps[v] <= revision
<1> QED
  BY DEF SiteBounds, PagesInv, SiteTypes, VersionsFollow, Site!Versions

LEMMA PageIsTyped ==
    ASSUME SiteBounds, NEW page \in Site!Pages, page # NoPage
    PROVE  /\ page \in Site!Page /\ page.revision \in Nat /\ page.read \in Nat /\ page.at \in Nat
<1>1. page \in Site!Page
  BY DEF Site!Pages
<1> QED
  BY <1>1 DEF Site!Page, SiteBounds

-----------------------------------------------------------------------------
LEMMA PageChanges == ASSUME SiteBounds, PagesInv, NEW p \in Processes, Site!Change(p) PROVE PagesInv'
<1>1. revision' = revision + 1 /\ revision < MaxChanges /\ pending' = pending + 1 /\ published' \in BOOLEAN
      /\ UNCHANGED <<now, applied, version, bumps, up, redis, req, reads>>
  BY DEF Site!Change
<1>2. PICK none \in [Site!Versions -> Site!Pages] : none = [v \in Site!Versions |-> NoPage]
  BY SiteIdle
<1>3. local' = [local EXCEPT ![p] = none] /\ \A v \in Site!Versions : none[v] = NoPage
  BY <1>2 DEF Site!Change
<1>4. local' \in [Processes -> [Site!Versions -> Site!Pages]]
      /\ \A q \in Processes : \A v \in Site!Versions : local'[q][v] = NoPage \/ local'[q][v] = local[q][v]
  BY <1>3 DEF PagesInv, SiteTypes
<1>5. revision' \in 0 .. MaxChanges /\ pending' \in 0 .. MaxChanges /\ version + pending' <= revision'
  BY <1>1, NumbersOfTheSite DEF PagesInv, VersionsFollow
<1>6. SiteTypes'
  BY <1>1, <1>4, <1>5 DEF PagesInv, SiteTypes
<1>7. VersionsFollow'
  BY <1>1, <1>5, NumbersOfTheSite DEF VersionsFollow
<1>8. PagesAreCleared' /\ PagesAreDated' /\ PagesOnTheWay'
  BY <1>1, <1>4 DEF PagesInv, PagesAreCleared, KeptUnder, PagesAreDated, PagesOnTheWay, Rendered
<1> QED
  BY <1>6, <1>7, <1>8 DEF PagesInv

LEMMA VersionIncremented == ASSUME SiteBounds, PagesInv, Site!IncrementVersion PROVE PagesInv'
<1>1. pending > 0 /\ pending' = pending - 1 /\ UNCHANGED <<now, revision, up, redis, local, req, reads, published, applied>>
  BY DEF Site!IncrementVersion, Site!KeepPublic
<1>2. CASE up
  <2>1. version' = version + 1 /\ bumps' = [bumps EXCEPT ![version + 1] = revision]
    BY <1>2 DEF Site!IncrementVersion
  <2>2. PICK next \in Nat : next = version + 1
    BY NumbersOfTheSite
  <2>3. version \in Nat /\ pending \in Nat /\ revision \in 0 .. MaxChanges /\ MaxChanges \in Nat /\ version + pending <= revision
    BY NumbersOfTheSite DEF PagesInv, SiteTypes, VersionsFollow
  <2>4. next \in Site!Versions /\ version' = next /\ pending' \in 0 .. MaxChanges /\ version' + pending' <= revision
    BY <1>1, <2>1, <2>2, <2>3 DEF Site!Versions
  <2>5. bumps' = [bumps EXCEPT ![next] = revision]
    BY <2>1, <2>2
  <2>6. bumps' \in [Site!Versions -> 0 .. MaxChanges] /\ bumps'[next] = revision /\ \A v \in Site!Versions : v # next => bumps'[v] = bumps[v]
    BY <2>3, <2>4, <2>5 DEF PagesInv, SiteTypes
  <2>7. SiteTypes'
    BY <1>1, <2>4, <2>6 DEF PagesInv, SiteTypes
  <2>8. VersionsFollow'
    BY <1>1, <2>3, <2>4, <2>6, NumbersOfTheSite DEF VersionsFollow
  <2>9. ASSUME NEW v \in Site!Versions, NEW page, KeptUnder(v, page) PROVE page = NoPage \/ (v # next /\ page.revision >= bumps[v] /\ v <= version)
    <3>1. v \in Nat
      BY NumbersOfTheSite
    <3> QED
      BY <2>2, <2>3, <2>9, <3>1 DEF KeptUnder
  <2>10. ASSUME NEW v \in Site!Versions, NEW page, KeptUnder(v, page) PROVE page = NoPage \/ (page.revision >= bumps'[v] /\ v <= version')
    <3>1. v \in Nat
      BY NumbersOfTheSite
    <3> QED
      BY <2>2, <2>3, <2>4, <2>6, <2>9, <2>10, <3>1
  <2>11. PagesAreCleared'
    BY <1>1, <2>10 DEF PagesInv, PagesAreCleared, KeptUnder
  <2>12. PagesAreDated'
    BY <1>1 DEF PagesInv, PagesAreDated
  <2>13. ASSUME NEW q \in Processes PROVE Rendered(req[q])'
    <3>1. req[q].version \in Site!Versions /\ Rendered(req[q])
      BY DEF PagesInv, SiteTypes, PagesOnTheWay, Visits
    <3>2. req[q].version \in Nat /\ req[q].version <= version
      BY <3>1, NumbersOfTheSite DEF Rendered
    <3>3. req[q].version # next /\ req[q].version <= version'
      BY <2>2, <2>3, <2>4, <3>2
    <3> QED
      BY <1>1, <2>6, <3>1, <3>3 DEF Rendered
  <2> QED
    BY <2>7, <2>8, <2>11, <2>12, <2>13 DEF PagesInv, PagesOnTheWay
<1>3. CASE ~up
  <2>1. UNCHANGED <<version, bumps>>
    BY <1>3 DEF Site!IncrementVersion
  <2>2. pending' \in 0 .. MaxChanges /\ version + pending' <= revision
    BY <1>1, NumbersOfTheSite DEF PagesInv, SiteTypes, VersionsFollow
  <2>3. SiteTypes' /\ VersionsFollow'
    BY <1>1, <2>1, <2>2 DEF PagesInv, SiteTypes, VersionsFollow
  <2>4. PagesAreCleared' /\ PagesAreDated' /\ PagesOnTheWay'
    BY <1>1, <2>1 DEF PagesInv, PagesAreCleared, KeptUnder, PagesAreDated, PagesOnTheWay, Rendered
  <2> QED
    BY <2>3, <2>4 DEF PagesInv
<1> QED
  BY <1>2, <1>3

LEMMA VisitBegins == ASSUME SiteBounds, PagesInv, NEW p \in Processes, Site!Begin(p) PROVE PagesInv'
<1>1. PICK h \in Visits : h = req[p]
  BY DEF PagesInv, SiteTypes
<1>2. PICK key \in Site!Versions : key = Site!GetVersion /\ key <= version
  BY SiteIdle, NumbersOfTheSite DEF Site!GetVersion, PagesInv, SiteTypes
<1>3. PICK x : x = [h EXCEPT !.step = "look", !.version = key]
  OBVIOUS
<1>4. x \in Visits /\ x.step = "look" /\ x.version = key
  BY <1>3 DEF Visits
<1>5. req' = [req EXCEPT ![p] = x]
  BY <1>1, <1>2, <1>3 DEF Site!Begin
<1>6. UNCHANGED <<now, revision, version, bumps, up, redis, local, pending, published, applied>> /\ reads < MaxReads /\ reads' = reads + 1
  BY DEF Site!Begin, Site!KeepPublic
<1>7. reads' \in 0 .. MaxReads
  BY <1>6, NumbersOfTheSite DEF SiteBounds
<1>8. Rendered(x)
  BY <1>2, <1>4 DEF Rendered
<1>9. PagesAreCleared' /\ PagesAreDated'
  BY <1>6 DEF PagesInv, PagesAreCleared, KeptUnder, PagesAreDated
<1>10. redis' \in [Site!Versions -> Site!Pages] /\ local' \in [Processes -> [Site!Versions -> Site!Pages]]
  BY <1>6 DEF PagesInv, SiteTypes
<1> QED
  BY <1>4, <1>5, <1>6, <1>7, <1>8, <1>9, <1>10, VisitMoves

(* A page goes into the map of one process.                                  *)
LEMMA PageIsKept ==
    ASSUME SiteBounds, PagesInv, NEW p \in Processes, NEW key \in Site!Versions, NEW page \in Site!Pages, page # NoPage,
           local' = [local EXCEPT ![p][key] = page], UNCHANGED <<redis, version, bumps>>,
           page.at - page.read < Ttl, key # 0 => page.revision >= bumps[key], key <= version
    PROVE  local' \in [Processes -> [Site!Versions -> Site!Pages]] /\ PagesAreCleared' /\ PagesAreDated'
<1>1. PICK mine \in [Site!Versions -> Site!Pages] : mine = local[p]
  BY DEF PagesInv, SiteTypes
<1>2. PICK f \in [Site!Versions -> Site!Pages] : f = [mine EXCEPT ![key] = page]
  OBVIOUS
<1>3. f[key] = page /\ \A v \in Site!Versions : v # key => f[v] = mine[v]
  BY <1>2
<1>4. local' = [local EXCEPT ![p] = f]
  BY <1>1, <1>2
<1>5. local' \in [Processes -> [Site!Versions -> Site!Pages]] /\ local'[p] = f /\ \A q \in Processes : q # p => local'[q] = local[q]
  BY <1>4 DEF PagesInv, SiteTypes
<1>6. PagesAreCleared'
  BY <1>1, <1>3, <1>5 DEF PagesInv, PagesAreCleared, KeptUnder
<1>7. PagesAreDated'
  BY <1>1, <1>3, <1>5 DEF PagesInv, PagesAreDated
<1> QED
  BY <1>5, <1>6, <1>7

LEMMA VisitLooks == ASSUME SiteBounds, PagesInv, NEW p \in Processes, Site!Look(p) PROVE PagesInv'
<1>1. PICK h \in Visits : h = req[p]
  BY DEF PagesInv, SiteTypes
<1>2. PICK key \in Site!Versions : key = h.version
  BY DEF Visits
<1>3. Rendered(h) /\ key <= version
  BY <1>1, <1>2 DEF PagesInv, PagesOnTheWay, Rendered
<1>4. PICK distributed : distributed = Site!Read(redis[key])
  OBVIOUS
<1>5. redis' = redis /\ UNCHANGED <<now, revision, version, bumps, up, pending, reads, published, applied>>
  BY DEF Site!Look, Site!KeepWorld, Site!KeepPublic
<1>6. \/ local' = local /\ req' = [req EXCEPT ![p] = Site!Idle]
      \/ distributed # NoPage /\ local' = [local EXCEPT ![p][key] = [distributed EXCEPT !.at = now]] /\ req' = [req EXCEPT ![p] = Site!Idle]
      \/ local' = local /\ req' = [req EXCEPT ![p].step = "render"]
  BY <1>1, <1>2, <1>4 DEF Site!Look
<1>7. reads' \in 0 .. MaxReads /\ redis' \in [Site!Versions -> Site!Pages]
  BY <1>5 DEF PagesInv, SiteTypes
<1>8. Rendered(Site!Idle)
  BY SiteIdle, NumbersOfTheSite DEF Rendered
<1>9. ASSUME local' = local PROVE local' \in [Processes -> [Site!Versions -> Site!Pages]] /\ PagesAreCleared' /\ PagesAreDated'
  BY <1>5, <1>9 DEF PagesInv, SiteTypes, PagesAreCleared, KeptUnder, PagesAreDated
<1>10. CASE local' = local /\ req' = [req EXCEPT ![p] = Site!Idle]
  BY <1>5, <1>7, <1>8, <1>9, <1>10, SiteIdle, VisitMoves
<1>11. CASE distributed # NoPage /\ local' = [local EXCEPT ![p][key] = [distributed EXCEPT !.at = now]] /\ req' = [req EXCEPT ![p] = Site!Idle]
  <2>1. distributed = redis[key] /\ now - distributed.at < Ttl /\ distributed \in Site!Pages
    BY <1>4, <1>11 DEF Site!Read, Site!Alive, PagesInv, SiteTypes
  <2>2. PICK old \in Site!Page : old = distributed
    BY <1>11, <2>1, PageIsTyped
  <2>3. old.at = old.read /\ (key # 0 => old.revision >= bumps[key]) /\ now - old.at < Ttl
    BY <1>11, <2>1, <2>2 DEF PagesInv, PagesAreDated, PagesAreCleared, KeptUnder
  <2>4. PICK page : page = [old EXCEPT !.at = now]
    OBVIOUS
  <2>5. now \in 0 .. MaxTime
    BY DEF PagesInv, SiteTypes
  <2>6. page \in Site!Page /\ page.at = now /\ page.read = old.read /\ page.revision = old.revision
    BY <2>4, <2>5 DEF Site!Page
  <2>7. page \in Site!Pages /\ page # NoPage
    BY <2>6 DEF Site!Pages, SiteBounds
  <2>8. local' = [local EXCEPT ![p][key] = page]
    BY <1>11, <2>2, <2>4
  <2>9. page.at - page.read < Ttl /\ (key # 0 => page.revision >= bumps[key])
    BY <2>3, <2>6
  <2>10. local' \in [Processes -> [Site!Versions -> Site!Pages]] /\ PagesAreCleared' /\ PagesAreDated'
    BY <1>3, <1>5, <2>7, <2>8, <2>9, PageIsKept
  <2> QED
    BY <1>5, <1>7, <1>8, <1>11, <2>10, SiteIdle, VisitMoves
<1>12. CASE local' = local /\ req' = [req EXCEPT ![p].step = "render"]
  <2>1. PICK x : x = [h EXCEPT !.step = "render"]
    OBVIOUS
  <2>2. x \in Visits /\ x.step = "render" /\ x.version = h.version
    BY <2>1 DEF Visits
  <2>3. req' = [req EXCEPT ![p] = x] /\ Rendered(x)
    BY <1>1, <1>3, <1>12, <2>1, <2>2 DEF Rendered
  <2> QED
    BY <1>5, <1>7, <1>9, <1>12, <2>2, <2>3, VisitMoves
<1> QED
  BY <1>6, <1>10, <1>11, <1>12

LEMMA VisitRenders == ASSUME SiteBounds, PagesInv, NEW p \in Processes, Site!Render(p) PROVE PagesInv'
<1>1. PICK h \in Visits : h = req[p]
  BY DEF PagesInv, SiteTypes
<1>2. PICK page \in Site!Page : page = [revision |-> revision, read |-> now, at |-> now]
  BY DEF Site!Page, PagesInv, SiteTypes
<1>3. page \in Site!Pages /\ page # NoPage /\ page.at = page.read /\ page.revision = revision
  BY <1>2 DEF Site!Pages, SiteBounds
<1>4. PICK x : x = [h EXCEPT !.step = "store", !.page = page]
  OBVIOUS
<1>5. x \in Visits /\ x.step = "store" /\ x.page = page /\ x.version = h.version
  BY <1>3, <1>4 DEF Visits
<1>6. req' = [req EXCEPT ![p] = x] /\ UNCHANGED <<redis, local, now, revision, version, bumps, up, pending, reads, published, applied>>
  BY <1>1, <1>2, <1>4 DEF Site!Render, Site!KeepWorld, Site!KeepPublic
<1>7. h.version \in Site!Versions /\ h.version <= version
  BY <1>1 DEF PagesInv, PagesOnTheWay, Rendered, Visits
<1>8. Rendered(x)
  BY <1>3, <1>5, <1>7, NumbersOfTheSite DEF Rendered
<1>9. PagesAreCleared' /\ PagesAreDated' /\ redis' \in [Site!Versions -> Site!Pages] /\ local' \in [Processes -> [Site!Versions -> Site!Pages]]
      /\ reads' \in 0 .. MaxReads
  BY <1>6 DEF PagesInv, SiteTypes, PagesAreCleared, KeptUnder, PagesAreDated
<1> QED
  BY <1>5, <1>6, <1>8, <1>9, VisitMoves

LEMMA PageIsStored == ASSUME SiteBounds, PagesInv, NEW p \in Processes, Site!CacheSet(p) \/ Site!SetJson(p) PROVE PagesInv'
<1>1. PICK h \in Visits : h = req[p]
  BY DEF PagesInv, SiteTypes
<1>2. h.step \in {"store", "share"} /\ Rendered(h) /\ UNCHANGED <<now, revision, version, bumps, up, pending, reads, published, applied>>
  BY <1>1 DEF Site!CacheSet, Site!SetJson, Site!KeepWorld, Site!KeepPublic, PagesInv, PagesOnTheWay
<1>3. PICK key \in Site!Versions, page \in Site!Pages : key = h.version /\ page = h.page
  BY DEF Visits
<1>4. page # NoPage /\ page.at = page.read /\ (key # 0 => page.revision >= bumps[key]) /\ key <= version
  BY <1>2, <1>3 DEF Rendered
<1>5. page.at - page.read < Ttl
  BY <1>4, PageIsTyped, NumbersOfTheSite
<1>6. reads' \in 0 .. MaxReads
  BY <1>2 DEF PagesInv, SiteTypes
<1>7. CASE Site!CacheSet(p)
  <2>1. PICK x : x = [h EXCEPT !.step = "share"]
    OBVIOUS
  <2>2. x \in Visits /\ x.step = "share" /\ x.version = h.version /\ x.page = h.page
    BY <2>1 DEF Visits
  <2>3. local' = [local EXCEPT ![p][key] = page] /\ redis' = redis /\ req' = [req EXCEPT ![p] = x]
    BY <1>1, <1>3, <1>7, <2>1 DEF Site!CacheSet, Site!Key
  <2>4. local' \in [Processes -> [Site!Versions -> Site!Pages]] /\ PagesAreCleared' /\ PagesAreDated'
    BY <1>2, <1>4, <1>5, <2>3, PageIsKept
  <2>5. Rendered(x) /\ redis' \in [Site!Versions -> Site!Pages]
    BY <1>2, <2>2, <2>3 DEF Rendered, PagesInv, SiteTypes
  <2> QED
    BY <1>2, <1>6, <2>2, <2>3, <2>4, <2>5, VisitMoves
<1>8. CASE Site!SetJson(p)
  <2>1. redis' = (IF up THEN [redis EXCEPT ![key] = page] ELSE redis) /\ local' = local /\ req' = [req EXCEPT ![p] = Site!Idle]
    BY <1>1, <1>3, <1>8 DEF Site!SetJson, Site!Key
  <2>2. redis' \in [Site!Versions -> Site!Pages] /\ \A v \in Site!Versions : redis'[v] = redis[v] \/ (v = key /\ redis'[v] = page)
    BY <2>1 DEF PagesInv, SiteTypes
  <2>3. PagesAreCleared'
    BY <1>2, <1>4, <2>1, <2>2 DEF PagesInv, PagesAreCleared, KeptUnder
  <2>4. PagesAreDated' /\ local' \in [Processes -> [Site!Versions -> Site!Pages]]
    BY <1>4, <2>1, <2>2 DEF PagesInv, PagesAreDated, SiteTypes
  <2>5. Rendered(Site!Idle)
    BY SiteIdle, NumbersOfTheSite DEF Rendered
  <2> QED
    BY <1>2, <1>6, <2>1, <2>2, <2>3, <2>4, <2>5, SiteIdle, VisitMoves
<1> QED
  BY <1>7, <1>8

LEMMA PagesStep == ASSUME SiteBounds, PagesInv, [Site!Next]_(Site!vars) PROVE PagesInv'
<1>1. CASE Site!IncrementVersion
  BY <1>1, VersionIncremented
<1>2. ASSUME NEW p \in Processes, Site!Change(p) \/ Site!Begin(p) \/ Site!Look(p) \/ Site!Render(p) \/ Site!CacheSet(p) \/ Site!SetJson(p)
      PROVE  PagesInv'
  BY <1>2, PageChanges, VisitBegins, VisitLooks, VisitRenders, PageIsStored
<1>3. ASSUME UNCHANGED <<revision, published, applied, version, bumps, redis, local, pending, req>>, now' \in 0 .. MaxTime,
             reads' \in 0 .. MaxReads, up' \in BOOLEAN
      PROVE  PagesInv'
  BY <1>3 DEF PagesInv, SiteTypes, VersionsFollow, PagesAreCleared, KeptUnder, PagesAreDated, PagesOnTheWay, Rendered
<1>4. now \in 0 .. MaxTime /\ reads \in 0 .. MaxReads /\ up \in BOOLEAN
  BY DEF PagesInv, SiteTypes
<1>5. CASE Site!RedisChanges
  BY <1>3, <1>4, <1>5 DEF Site!RedisChanges, Site!KeepPublic
<1>6. CASE Site!ListPublishedJobs \/ \E viewer \in {"visitor", "candidate"} : Site!GetJob(viewer)
  <2>1. UNCHANGED <<revision, published, applied, version, bumps, redis, local, pending, req, now, up>> /\ reads < MaxReads /\ reads' = reads + 1
    BY <1>6 DEF Site!ListPublishedJobs, Site!GetJob
  <2>2. reads' \in 0 .. MaxReads
    BY <1>4, <2>1 DEF SiteBounds
  <2> QED
    BY <1>3, <1>4, <2>1, <2>2
<1>7. CASE Site!Tick
  <2>1. UNCHANGED <<revision, published, applied, version, bumps, redis, local, pending, req, reads, up>> /\ now < MaxTime /\ now' = now + 1
    BY <1>7 DEF Site!Tick, Site!KeepPublic
  <2>2. now' \in 0 .. MaxTime
    BY <1>4, <2>1 DEF SiteBounds
  <2> QED
    BY <1>3, <1>4, <2>1, <2>2
<1>8. CASE UNCHANGED Site!vars
  BY <1>3, <1>4, <1>8 DEF Site!vars
<1> QED
  BY <1>1, <1>2, <1>5, <1>6, <1>7, <1>8 DEF Site!Next

-----------------------------------------------------------------------------
(* The list and the detail.                                                  *)
LEMMA SideInit == ASSUME SiteBounds, Site!Init PROVE SideTypes
<1>1. list = NoPage /\ detail = NoPage /\ shown = [viewer |-> "nobody", applied |-> FALSE, open |-> TRUE]
  BY DEF Site!Init, Site!Nobody
<1>2. shown \in [viewer : {"nobody", "visitor", "candidate"}, applied : BOOLEAN, open : BOOLEAN] /\ shown.viewer = "nobody"
  BY <1>1
<1> QED
  BY <1>1, <1>2 DEF SideTypes

LEMMA SideStep ==
    ASSUME SiteBounds, PagesInv, SideTypes, [Site!Next]_(Site!vars)
    PROVE  SideTypes'
<1>1. now \in 0 .. MaxTime /\ published \in BOOLEAN /\ applied \in BOOLEAN
  BY DEF PagesInv, SiteTypes
<1>2. CASE Site!ListPublishedJobs
  <2>1. UNCHANGED <<detail, shown, applied>> /\ (list' = list \/ list' = [published |-> published, at |-> now])
    BY <1>2 DEF Site!ListPublishedJobs
  <2>2. [published |-> published, at |-> now] \in [published : BOOLEAN, at : 0 .. MaxTime]
    BY <1>1
  <2> QED
    BY <2>1, <2>2 DEF SideTypes
<1>3. ASSUME NEW viewer \in {"visitor", "candidate"}, Site!GetJob(viewer) PROVE SideTypes'
  <2>1. PICK own \in BOOLEAN : own = (viewer = "candidate" /\ applied)
    BY <1>1
  <2>2. UNCHANGED <<list, applied>> /\ (detail' = detail \/ detail' = [mine |-> own, at |-> now])
    BY <1>3, <2>1 DEF Site!GetJob
  <2>3. PICK answer : answer = (IF Site!Read(detail) # NoPage /\ viewer = "visitor" THEN Site!Read(detail).mine ELSE own)
    OBVIOUS
  <2>4. shown' = [viewer |-> viewer, open |-> published, applied |-> answer]
    BY <1>3, <2>1, <2>3 DEF Site!GetJob
  <2>5. answer \in BOOLEAN
    <3>1. CASE Site!Read(detail) # NoPage /\ viewer = "visitor"
      <4>1. detail # NoPage /\ Site!Read(detail) = detail
        BY <3>1 DEF Site!Read, Site!Alive
      <4>2. detail.mine \in BOOLEAN
        BY <4>1 DEF SideTypes
      <4> QED
        BY <2>3, <3>1, <4>1, <4>2
    <3>2. CASE ~(Site!Read(detail) # NoPage /\ viewer = "visitor")
      BY <2>3, <3>2
    <3> QED
      BY <3>1, <3>2
  <2>7. [mine |-> own, at |-> now] \in [mine : BOOLEAN, at : 0 .. MaxTime]
    BY <1>1
  <2>8. shown' \in [viewer : {"nobody", "visitor", "candidate"}, applied : BOOLEAN, open : BOOLEAN] /\ shown'.viewer = viewer /\ shown'.applied = answer
    BY <1>1, <2>4, <2>5
  <2> QED
    BY <2>2, <2>7, <2>8 DEF SideTypes
<1>4. ASSUME UNCHANGED <<list, detail, shown, applied>> PROVE SideTypes'
  BY <1>4 DEF SideTypes
<1>5. ASSUME NEW p \in Processes, Site!Change(p) \/ Site!Begin(p) \/ Site!Look(p) \/ Site!Render(p) \/ Site!CacheSet(p) \/ Site!SetJson(p)
      PROVE  UNCHANGED <<list, detail, shown, applied>>
  BY <1>5 DEF Site!Change, Site!Begin, Site!Look, Site!Render, Site!CacheSet, Site!SetJson, Site!KeepWorld, Site!KeepPublic
<1>6. CASE Site!IncrementVersion \/ Site!RedisChanges \/ Site!Tick \/ UNCHANGED Site!vars
  BY <1>4, <1>6 DEF Site!IncrementVersion, Site!RedisChanges, Site!Tick, Site!KeepPublic, Site!vars
<1> QED
  BY <1>2, <1>3, <1>4, <1>5, <1>6 DEF Site!Next

(* Versions, pages and requests of the public site keep their types.         *)
THEOREM SiteIsTyped == ASSUME SiteBounds PROVE Site!Spec => []Site!TypeOK
<1>1. Site!Init => PagesInv /\ SideTypes
  BY SiteInit, SideInit
<1>2. PagesInv /\ SideTypes /\ [Site!Next]_(Site!vars)
      => PagesInv' /\ SideTypes'
  BY PagesStep, SideStep
<1>3. PagesInv /\ SideTypes => Site!TypeOK
  <2> SUFFICES ASSUME PagesInv, SideTypes PROVE Site!TypeOK
    OBVIOUS
  <2>1. \A p \in Processes : req[p].step \in {"idle", "look", "render", "store", "share"} /\ req[p].version \in Site!Versions /\ req[p].page \in Site!Pages
    BY DEF PagesInv, SiteTypes, Visits
  <2> QED
    BY <2>1 DEF PagesInv, SiteTypes, SideTypes, Site!TypeOK, Site!Nobody
<1> QED
  BY <1>1, <1>2, <1>3, PTL DEF Site!Spec

(* What a clear removed is not served again, and what is served is younger
   than two terms, for any number of processes and terms of any length,
   while Redis comes and goes (redisCache.js, careersService.js).            *)
THEOREM PublicStaysFresh == ASSUME SiteBounds PROVE Site!Spec => []Site!PublicIsFresh
<1>1. Site!Init => PagesInv /\ SideTypes
  BY SiteInit, SideInit
<1>2. PagesInv /\ SideTypes /\ [Site!Next]_(Site!vars)
      => PagesInv' /\ SideTypes'
  BY PagesStep, SideStep
<1>3. PagesInv => Site!ClearedStaysCleared
  BY DEF PagesInv, PagesAreCleared, KeptUnder, Site!ClearedStaysCleared
<1>4. PagesInv => Site!StalenessIsBounded
  <2> SUFFICES ASSUME PagesInv, NEW p \in Processes, NEW v \in Site!Versions, Site!Alive(local[p][v])
               PROVE  now - local[p][v].read < 2 * Ttl
    BY DEF Site!StalenessIsBounded
  <2>1. local[p][v] \in Site!Pages /\ local[p][v] # NoPage /\ now - local[p][v].at < Ttl /\ local[p][v].at - local[p][v].read < Ttl
    BY DEF PagesInv, SiteTypes, PagesAreDated, Site!Alive
  <2>2. PICK at \in Nat, read \in Nat : at = local[p][v].at /\ read = local[p][v].read
    BY <2>1, PageIsTyped
  <2>3. now \in Nat /\ Ttl \in Nat
    BY NumbersOfTheSite
  <2> QED
    BY <2>1, <2>2, <2>3
<1> QED
  BY <1>1, <1>2, <1>3, <1>4, PTL DEF Site!Spec, Site!PublicIsFresh

-----------------------------------------------------------------------------
(* A job on its boards.                                                      *)

CONSTANTS Boards, Workers, MaxAttempts, Threshold, MaxFaults, MaxEdits
VARIABLES edits, rows, listings, asked, closing, queue, worker, breaker, faults

Board == INSTANCE Publishing

BoardBounds == MaxAttempts \in Nat \ {0} /\ Threshold \in Nat /\ MaxFaults \in Nat /\ MaxEdits \in Nat

(* What a worker holds: the task, the row as it read it, and, once the board
   has answered or failed, the row it is going to save.                      *)
Asking == [at : {"call"}, task : Board!Action, copy : Board!PublishedJob]
Told == [at : {"save"}, task : Board!Action, copy : Board!PublishedJob, new : Board!PublishedJob, ok : BOOLEAN]
BoardTypes ==
    /\ job \in {"published", "closed"} /\ edits \in 0 .. MaxEdits
    /\ rows \in [Boards -> Board!PublishedJob] /\ listings \in [Boards -> Nat]
    /\ asked \subseteq Boards /\ closing \in BOOLEAN /\ queue \subseteq Board!Action
    /\ worker \in [Workers -> {Board!Idle} \cup Asking \cup Told]
    /\ breaker \in [Boards -> 0 .. Threshold] /\ faults \in 0 .. MaxFaults

LEMMA RowsAreRows ==
    ASSUME NEW s \in {"none", "pending", "published", "failed", "expired", "withdrawn"}, NEW r \in BOOLEAN
    PROVE  Board!Row(s, r) \in Board!PublishedJob
BY DEF Board!Row, Board!PublishedJob

LEMMA TasksAreTasks ==
    ASSUME BoardBounds, NEW b \in Boards, NEW a \in {"publish", "withdraw", "sync"}
    PROVE  Board!Task(b, a) \in Board!Action
<1>1. 1 \in 1 .. MaxAttempts /\ MaxAttempts \in 1 .. MaxAttempts
  BY DEF BoardBounds
<1> QED
  BY <1>1 DEF Board!Task, Board!Action

LEMMA AtWorkHeld ==
    ASSUME BoardTypes, NEW w \in Workers
    PROVE  /\ worker[w].at = "call" => worker[w] \in Asking
           /\ worker[w].at = "save" => worker[w] \in Told
           /\ worker[w] # Board!Idle => worker[w].task \in Board!Action
<1>1. worker[w] \in {Board!Idle} \cup Asking \cup Told
  BY DEF BoardTypes
<1>2. CASE worker[w] = Board!Idle
  BY <1>2 DEF Board!Idle
<1>3. CASE worker[w] \in Asking
  BY <1>3 DEF Asking
<1>4. CASE worker[w] \in Told
  BY <1>4 DEF Told
<1> QED
  BY <1>1, <1>2, <1>3, <1>4

LEMMA CalledKeeps ==
    ASSUME BoardTypes, NEW w \in Workers, worker[w].at = "call", NEW ok \in BOOLEAN,
           NEW s \in {"none", "pending", "published", "failed", "expired", "withdrawn"}, NEW r \in BOOLEAN,
           Board!Called(w, ok, s, r)
    PROVE  worker' \in [Workers -> {Board!Idle} \cup Asking \cup Told]
<1>1. worker[w] \in Asking
  BY AtWorkHeld
<1>2. PICK x : x = [at |-> "save", task |-> worker[w].task, copy |-> worker[w].copy, new |-> Board!Row(s, r), ok |-> ok]
  OBVIOUS
<1>3. x \in Told
  <2>1. worker[w].task \in Board!Action /\ worker[w].copy \in Board!PublishedJob
    BY <1>1 DEF Asking
  <2>2. Board!Row(s, r) \in Board!PublishedJob
    BY RowsAreRows
  <2> QED
    BY <1>2, <2>1, <2>2 DEF Told
<1>4. worker' = [worker EXCEPT ![w] = x]
  BY <1>2 DEF Board!Called
<1> QED
  BY <1>3, <1>4 DEF BoardTypes

LEMMA NoneWaits ==
    ASSUME BoardBounds, BoardTypes, NEW b \in Boards
    PROVE  [breaker EXCEPT ![b] = 0] \in [Boards -> 0 .. Threshold]
<1>1. 0 \in 0 .. Threshold
  BY DEF BoardBounds
<1> QED
  BY <1>1 DEF BoardTypes

LEMMA BoardStep == ASSUME BoardBounds, BoardTypes, [Board!Next]_(Board!vars) PROVE BoardTypes'
<1>1. ASSUME NEW b \in Boards, Board!PublishBoards(b) \/ Board!Dispatch(b) \/ Board!WithdrawBoard(b) \/ Board!Reconcile(b)
      PROVE  BoardTypes'
  <2>1. Board!Task(b, "publish") \in Board!Action /\ Board!Task(b, "withdraw") \in Board!Action /\ Board!Task(b, "sync") \in Board!Action
    BY TasksAreTasks
  <2>2. [rows EXCEPT ![b].status = "pending"] \in [Boards -> Board!PublishedJob]
        /\ [rows EXCEPT ![b].status = "expired"] \in [Boards -> Board!PublishedJob]
    BY DEF BoardTypes, Board!PublishedJob
  <2>3. CASE Board!PublishBoards(b)
    BY <2>3 DEF BoardTypes, Board!PublishBoards, Board!Outside
  <2>4. CASE Board!Dispatch(b)
    BY <2>1, <2>2, <2>4 DEF BoardTypes, Board!Dispatch, Board!Outside
  <2>5. CASE Board!WithdrawBoard(b)
    BY <2>1, <2>5 DEF BoardTypes, Board!WithdrawBoard, Board!Outside
  <2>6. CASE Board!Reconcile(b)
    <3>1. UNCHANGED <<job, edits, asked, closing, Board!Outside>>
      BY <2>6 DEF Board!Reconcile
    <3>2. rows' \in [Boards -> Board!PublishedJob] /\ queue' \subseteq Board!Action
      BY <2>1, <2>2, <2>6 DEF BoardTypes, Board!Reconcile
    <3> QED
      BY <3>1, <3>2 DEF BoardTypes, Board!Outside
  <2> QED
    BY <1>1, <2>3, <2>4, <2>5, <2>6
<1>2. ASSUME NEW b \in Boards, Board!CoolOff(b) PROVE BoardTypes'
  <2>1. breaker' \in [Boards -> 0 .. Threshold]
    BY <1>2, NoneWaits DEF Board!CoolOff
  <2> QED
    BY <1>2, <2>1 DEF BoardTypes, Board!CoolOff
<1>3. CASE Board!CloseJob \/ Board!ReopenJob
  <2>1. edits' \in 0 .. MaxEdits /\ job' \in {"published", "closed"}
    <3>1. edits < MaxEdits /\ edits' = edits + 1 /\ job' \in {"published", "closed"}
      BY <1>3, Zenon DEF Board!CloseJob, Board!ReopenJob
    <3> QED
      BY <3>1 DEF BoardTypes, BoardBounds
  <2>2. closing' \in {closing, TRUE}
    BY <1>3, Zenon DEF Board!CloseJob, Board!ReopenJob
  <2>3. closing' \in BOOLEAN
    BY <2>2, Zenon DEF BoardTypes
  <2>4. UNCHANGED <<rows, asked, queue, Board!Outside>>
    BY <1>3, Zenon DEF Board!CloseJob, Board!ReopenJob
  <2> QED
    BY <2>1, <2>3, <2>4 DEF BoardTypes, Board!Outside
<1>4. CASE Board!WithdrawAll
  <2>1. \A b \in Boards : Board!Task(b, "withdraw") \in Board!Action
    BY TasksAreTasks
  <2> QED
    BY <1>4, <2>1 DEF BoardTypes, Board!WithdrawAll, Board!Outside
<1>5. ASSUME NEW w \in Workers, NEW t \in queue, Board!Take(w, t) PROVE BoardTypes'
  <2>1. t \in Board!Action /\ rows[t.board] \in Board!PublishedJob
    BY <1>5 DEF BoardTypes, Board!Action
  <2>2. [at |-> "call", task |-> t, copy |-> rows[t.board]] \in Asking
    BY <2>1 DEF Asking
  <2> QED
    BY <1>5, <2>2 DEF BoardTypes, Board!Take
<1>6. ASSUME NEW w \in Workers, Board!BoardAnswers(w) PROVE BoardTypes'
  <2>1. worker[w].at = "call" /\ worker[w] \in Asking
    BY <1>6, AtWorkHeld DEF Board!BoardAnswers
  <2>2. PICK b \in Boards, old \in Board!PublishedJob : b = worker[w].task.board /\ old = worker[w].copy
    BY <2>1 DEF Asking, Board!Action
  <2>3. old.ref \in BOOLEAN /\ old.status \in {"none", "pending", "published", "failed", "expired", "withdrawn"}
    BY DEF Board!PublishedJob
  <2>4. listings' \in [Boards -> Nat]
    <3>1. listings' \in {listings, [listings EXCEPT ![b] = listings[b]], [listings EXCEPT ![b] = listings[b] + 1], [listings EXCEPT ![b] = 0]}
      BY <1>6, <2>2 DEF Board!BoardAnswers
    <3>2. listings[b] \in Nat /\ listings \in [Boards -> Nat]
      BY DEF BoardTypes
    <3>3. [listings EXCEPT ![b] = listings[b] + 1] \in [Boards -> Nat] /\ [listings EXCEPT ![b] = 0] \in [Boards -> Nat]
          /\ [listings EXCEPT ![b] = listings[b]] \in [Boards -> Nat]
      BY <3>2
    <3> QED
      BY <3>1, <3>2, <3>3
  <2>5. \E s \in {"none", "pending", "published", "failed", "expired", "withdrawn"}, r \in BOOLEAN : Board!Called(w, TRUE, s, r)
    BY <1>6, <2>2, <2>3 DEF Board!BoardAnswers
  <2>6. worker' \in [Workers -> {Board!Idle} \cup Asking \cup Told]
    BY <2>1, <2>5, CalledKeeps
  <2>7. breaker' \in [Boards -> 0 .. Threshold]
    <3>1. breaker' = [breaker EXCEPT ![b] = 0]
      BY <1>6, <2>2 DEF Board!BoardAnswers
    <3> QED
      BY <3>1, NoneWaits
  <2>8. UNCHANGED <<job, edits, rows, asked, closing, queue, faults>>
    BY <1>6 DEF Board!BoardAnswers
  <2> QED
    BY <2>4, <2>6, <2>7, <2>8 DEF BoardTypes
<1>7. ASSUME NEW w \in Workers, worker[w].at = "call", Board!Failed(w) PROVE worker' \in [Workers -> {Board!Idle} \cup Asking \cup Told]
  <2>1. worker[w] \in Asking
    BY <1>7, AtWorkHeld
  <2>2. PICK s : s = (IF worker[w].task.action = "publish" THEN "failed" ELSE worker[w].copy.status)
    OBVIOUS
  <2>3. s \in {"none", "pending", "published", "failed", "expired", "withdrawn"} /\ worker[w].copy.ref \in BOOLEAN
    BY <2>1, <2>2 DEF Asking, Board!PublishedJob
  <2>4. Board!Called(w, FALSE, s, worker[w].copy.ref)
    BY <1>7, <2>2 DEF Board!Failed
  <2> QED
    BY <1>7, <2>3, <2>4, CalledKeeps
<1>8. ASSUME NEW w \in Workers, Board!BoardFails(w) \/ Board!CircuitOpen(w) PROVE BoardTypes'
  <2>1. worker[w].at = "call" /\ Board!Failed(w)
    BY <1>8 DEF Board!BoardFails, Board!CircuitOpen
  <2>2. worker' \in [Workers -> {Board!Idle} \cup Asking \cup Told]
    BY <1>7, <2>1
  <2>3. worker[w].task.board \in Boards
    BY <2>1, AtWorkHeld DEF Asking, Board!Action
  <2>4. breaker' \in [Boards -> 0 .. Threshold] /\ faults' \in 0 .. MaxFaults
    <3>1. CASE Board!BoardFails(w)
      BY <2>3, <3>1 DEF BoardTypes, BoardBounds, Board!BoardFails
    <3>2. CASE Board!CircuitOpen(w)
      BY <3>2 DEF BoardTypes, Board!CircuitOpen
    <3> QED
      BY <1>8, <3>1, <3>2
  <2> QED
    BY <1>8, <2>2, <2>4 DEF BoardTypes, Board!BoardFails, Board!CircuitOpen
<1>9. ASSUME NEW w \in Workers, Board!SaveRow(w) PROVE BoardTypes'
  <2>1. worker[w] \in Told
    BY <1>9, AtWorkHeld DEF Board!SaveRow
  <2>2. PICK t \in Board!Action, old \in Board!PublishedJob, new \in Board!PublishedJob :
          t = worker[w].task /\ old = worker[w].copy /\ new = worker[w].new
    BY <2>1 DEF Told
  <2>3. t.board \in Boards /\ t.left \in 1 .. MaxAttempts /\ rows[t.board] \in Board!PublishedJob
    BY DEF BoardTypes, Board!Action
  <2>4. PICK row : row = Board!Row(IF new.status # old.status THEN new.status ELSE rows[t.board].status,
                                   IF new.ref # old.ref THEN new.ref ELSE rows[t.board].ref)
    OBVIOUS
  <2>5. row \in Board!PublishedJob
    BY <2>3, <2>4 DEF Board!Row, Board!PublishedJob
  <2>6. rows' = [rows EXCEPT ![t.board] = row]
    BY <1>9, <2>2, <2>4 DEF Board!SaveRow
  <2>7. rows' \in [Boards -> Board!PublishedJob]
    BY <2>5, <2>6 DEF BoardTypes
  <2>8. t.left > 1 => [t EXCEPT !.left = @ - 1] \in Board!Action
    BY <2>3 DEF Board!Action, BoardBounds
  <2>9. queue' \subseteq Board!Action
    BY <1>9, <2>2, <2>8 DEF BoardTypes, Board!SaveRow
  <2>10. worker' \in [Workers -> {Board!Idle} \cup Asking \cup Told]
    BY <1>9 DEF BoardTypes, Board!SaveRow
  <2> QED
    BY <1>9, <2>7, <2>9, <2>10 DEF BoardTypes, Board!SaveRow
<1>10. ASSUME NEW w \in Workers, Board!Crash(w) PROVE BoardTypes'
  <2>1. worker[w].task \in Board!Action
    BY <1>10, AtWorkHeld DEF Board!Crash
  <2> QED
    BY <1>10, <2>1 DEF BoardTypes, BoardBounds, Board!Crash
<1>11. CASE UNCHANGED Board!vars
  BY <1>11 DEF BoardTypes, Board!vars
<1> QED
  BY <1>1, <1>2, <1>3, <1>4, <1>5, <1>6, <1>8, <1>9, <1>10, <1>11 DEF Board!Next, Board!Work

(* Rows, listings, queued and held tasks, copies and breakers keep their types,
   whatever boards and workers do (jobPublishService.js).                    *)
THEOREM PublicationIsTyped == ASSUME BoardBounds PROVE Board!Spec => []Board!TypeOK
<1>1. Board!Init => BoardTypes
  <2> SUFFICES ASSUME Board!Init PROVE BoardTypes
    OBVIOUS
  <2>1. Board!Row("none", FALSE) \in Board!PublishedJob
    BY RowsAreRows
  <2>2. rows \in [Boards -> Board!PublishedJob] /\ listings \in [Boards -> Nat]
    BY <2>1 DEF Board!Init
  <2>3. breaker \in [Boards -> 0 .. Threshold] /\ worker \in [Workers -> {Board!Idle} \cup Asking \cup Told]
    BY DEF Board!Init, BoardBounds
  <2>4. edits \in 0 .. MaxEdits /\ faults \in 0 .. MaxFaults
    BY DEF Board!Init, BoardBounds
  <2> QED
    BY <2>2, <2>3, <2>4 DEF Board!Init, BoardTypes
<1>2. BoardTypes /\ [Board!Next]_(Board!vars) => BoardTypes'
  BY BoardStep
<1>3. BoardTypes => Board!TypeOK
  BY AtWorkHeld DEF BoardTypes, Board!TypeOK
<1> QED
  BY <1>1, <1>2, <1>3, PTL DEF Board!Spec

=============================================================================
