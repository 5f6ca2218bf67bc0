-------------------------- MODULE HiringPipelineProofs --------------------------
(***************************************************************************)
(* Type correctness of HiringPipeline for any number of handlers, and what *)
(* it guarantees while the handlers of one person do not overlap and no    *)
(* screening is repeated: a stage only moves as canTransition says, offers *)
(* and exits agree with the stages, a hire closes the other applications,  *)
(* and, if no handler dies, every satellite follows its stage.             *)
(***************************************************************************)
EXTENDS HiringPipeline, TLAPS

\* What a handler holds where it is going to use it.
Sound(h) ==
    /\ h.step # "idle" => h.app \in Apps /\ h.copy \in Applications
    /\ h.step = "move" => h.to \in ValidStages
    /\ h.after # "move"

TypeInv ==
    /\ TypeOK
    /\ \A r \in Requests : Sound(req[r])

\* Handlers of one person do not overlap, and a screening is of an application
\* nobody has handled.  Without either, StageMovesAreLegal has a run of the code
\* that breaks it.
Serial == (\A q, r \in Requests : q = r) /\ ~Rescore

USE PipelineAssumption, NoneAssumption

-----------------------------------------------------------------------------
(* The inductive invariants                                                *)

\* An offer is open only in the stages that send and keep it.
OfferOK(a) ==
    /\ cand[a].stage = "offer_sent" => cand[a].offer = "sent"
    /\ cand[a].stage = "offer_accepted" => cand[a].offer = "accepted"
    /\ cand[a].offer = "sent" => cand[a].stage \in {"offer_sent", "joined"}

Decided(a) == cand[a].stage \in TERMINAL_STAGES

\* A stage is set on the copy and not saved yet.
Pending(h) == h.unsaved # None /\ h.step # "settle"

\* The copy a handler holds is as the application is stored, and a stage is only
\* set, not yet saved, on the copy of an application nobody has handled.
CopyOK(h) ==
    /\ h.copy.stage = cand[h.app].stage
    /\ h.copy.exit = None => cand[h.app].exit = None
    /\ h.step = "move" => canTransition(h.copy.stage, h.to)
    /\ h.step = "move" /\ h.to = "rejected" => h.copy.offer = cand[h.app].offer
    /\ h.step = "score" => cand[h.app].stage = "applied" /\ h.copy.exit = None
    /\ Pending(h) =>
        /\ cand[h.app].stage = "applied" /\ h.unsaved \in {"interview_scheduled", "rejected"}
        /\ h.unsaved = "rejected" => h.copy.exit = None

\* How far a handler is: which stage it has saved and what it has set.
PlaceOK(h) ==
    /\ h.step \notin {"idle", "move"} /\ h.to # None => cand[h.app].stage = h.to
    /\ h.step \in {"score", "advance", "park", "finished"} => h.to = None
    /\ h.step \in {"siblings", "review", "close", "unqueue", "assess", "stale"} => h.to # None
    /\ h.after \in {"idle", "second", "record", "settle"}
    /\ h.step = "second" \/ h.after = "second" => h.to = "assessment_completed"
    /\ Pending(h) =>
        /\ h.to = None /\ h.step \in {"enqueue", "invite", "record"}
        /\ h.step # "record" => h.unsaved = "interview_scheduled"

\* The applications a hire is closing.
SiblingsOK(h) ==
    /\ h.siblings # {} =>
        /\ h.step = "siblings"
        /\ h.siblings \subseteq {b \in Apps \ {h.app} : ~Decided(b)}
        /\ \A b \in Apps \ {h.app} : b \in h.siblings \/ Decided(b) \/ cand[b].exit # None

SerialInv ==
    /\ \A a \in Apps : OfferOK(a) /\ (Decided(a) => cand[a].exit = None)
    /\ \A r \in Requests :
        /\ req[r].step \notin {"idle", "settle"} => CopyOK(req[r])
        /\ PlaceOK(req[r]) /\ SiblingsOK(req[r])

\* Nobody but the handler at work on it has an application between a stage and
\* what follows it ...
Turning(h) == h.step \in {"siblings", "review", "close", "unqueue", "enqueue", "invite"} \/ Pending(h)

WaitingOK(a) ==
    /\ queue[a] = "queued" => cand[a].stage = "interview_scheduled"
    /\ cand[a].stage = "interview_scheduled" => queue[a] = "queued" /\ a \in invited

\* ... or an item between its decision and its record.
Deciding(h) == h.step # "idle" /\ (h.kind = "resolve" \/ h.step \in {"siblings", "review", "close"})

HandlerOK(h) ==
    /\ h.kind = "resolve" \/ h.step = "close" => h.item = review[h.app].n
    /\ h.kind = "resolve" /\ (h.to # None \/ h.step = "send") => h.after \in {"record", "settle"}
    /\ h.kind # "resolve" => h.after # "settle"
    /\ h.step = "advance" => h.kind = "resolve" /\ cand[h.app].stage = "applied"
    /\ h.step = "settle" => h.kind = "resolve"
    /\ h.step \in {"score", "open"} => h.kind = "screen" /\ cand[h.app].stage = "applied"
    /\ h.step \in {"finished", "second"} => h.kind # "resolve"
    /\ h.step = "park" \/ Pending(h) => h.kind \in {"screen", "resolve"}
    /\ h.kind = "screen" /\ (h.step \in {"score", "park"} \/ Pending(h)) => ~review[h.app].open
    /\ h.step = "unqueue" => h.to # "interview_scheduled"
    /\ h.step \in {"enqueue", "invite"} => h.to = "interview_scheduled" \/ Pending(h)
    /\ h.step = "invite" => queue[h.app] = "queued"
    /\ h.step = "record" /\ h.unsaved = "interview_scheduled" => queue[h.app] = "queued" /\ h.app \in invited
    /\ h.step = "record" /\ h.unsaved = "rejected" => queue[h.app] # "queued"

LabelOK(a) ==
    /\ review[a].decision = "decline" => cand[a].stage = "rejected"
    /\ review[a].n = 0 => ~review[a].open

\* An application and the handler that has it.
Follows(a, h) ==
    /\ LabelOK(a)
    /\ ~Turning(h) => WaitingOK(a)
    /\ ~Deciding(h) /\ review[a].open => cand[a].stage = "applied"
    /\ h.step # "idle" => HandlerOK(h)

\* The satellites while no handler dies and nobody edits the interview queue.
SatelliteInv ==
    /\ \A r \in Requests : IF req[r].step = "idle" THEN req[r] = Idle ELSE Follows(req[r].app, req[r])
    /\ \A a \in Apps : (\A r \in Requests : req[r].step = "idle" \/ req[r].app # a) => Follows(a, Idle)

-----------------------------------------------------------------------------
(* The stages and the moves the handlers make between them                 *)

LEMMA StageNumbers ==
    /\ Len(STAGES) = 15
    /\ STAGES[1] = "applied" /\ STAGES[2] = "ats_passed" /\ STAGES[3] = "assessment_scheduled"
    /\ STAGES[4] = "assessment_completed" /\ STAGES[5] = "interview_scheduled"
    /\ STAGES[6] = "ai_interview_completed" /\ STAGES[7] = "under_review" /\ STAGES[8] = "shortlisted"
    /\ STAGES[9] = "hr_interview" /\ STAGES[10] = "technical_interview" /\ STAGES[11] = "manager_interview"
    /\ STAGES[12] = "selected" /\ STAGES[13] = "offer_sent" /\ STAGES[14] = "offer_accepted"
    /\ STAGES[15] = "joined"
BY DEF STAGES

LEMMA StageNames ==
    ValidStages = {"applied", "ats_passed", "assessment_scheduled", "assessment_completed",
        "interview_scheduled", "ai_interview_completed", "under_review", "shortlisted",
        "hr_interview", "technical_interview", "manager_interview",
        "selected", "offer_sent", "offer_accepted", "joined", "rejected"}
<1>1. 1..15 = {1,2,3,4,5,6,7,8,9,10,11,12,13,14,15}
  OBVIOUS
<1>2. Progress = {STAGES[i] : i \in {1,2,3,4,5,6,7,8,9,10,11,12,13,14,15}}
  BY <1>1, StageNumbers DEF Progress
<1>3. Progress = {"applied", "ats_passed", "assessment_scheduled", "assessment_completed",
        "interview_scheduled", "ai_interview_completed", "under_review", "shortlisted",
        "hr_interview", "technical_interview", "manager_interview",
        "selected", "offer_sent", "offer_accepted", "joined"}
  BY <1>2, StageNumbers
<1> QED
  BY <1>3 DEF ValidStages, REJECTED

LEMMA StageIndex == \A i \in 1..15 : STAGES[i] \in Progress /\ stageIndex(STAGES[i]) = i
<1> SUFFICES ASSUME NEW i \in 1..15 PROVE STAGES[i] \in Progress /\ stageIndex(STAGES[i]) = i
  OBVIOUS
<1>1. \A j \in 1..15 : STAGES[j] = STAGES[i] => j = i
  <2>1. 1..15 = {1,2,3,4,5,6,7,8,9,10,11,12,13,14,15}
    OBVIOUS
  <2> QED
    BY <2>1, StageNumbers
<1> QED
  BY <1>1, StageNumbers DEF Progress, stageIndex

LEMMA NormalStage == \A s \in ValidStages : normalizeStage(s) = s
BY StageNames DEF normalizeStage, LEGACY_STAGE_MAP

LEMMA Moves ==
    ASSUME NEW from \in ValidStages, NEW to \in ValidStages
    PROVE  canTransition(from, to) <=>
              /\ from # to /\ from \notin {"joined", "rejected"}
              /\ \/ to = "rejected"
                 \/ stageIndex(to) > stageIndex(from)
                 \/ {from, to} \subseteq ROUND_STAGES
BY NormalStage DEF canTransition, isTerminal, TERMINAL_STAGES, REJECTED

LEMMA Forward ==
    /\ canTransition("applied", "ats_passed") /\ canTransition("applied", "interview_scheduled")
    /\ canTransition("applied", "rejected")
    /\ canTransition("applied", "assessment_scheduled") /\ canTransition("ats_passed", "assessment_scheduled")
    /\ canTransition("assessment_scheduled", "assessment_completed")
    /\ canTransition("assessment_completed", "interview_scheduled")
    /\ canTransition("interview_scheduled", "ai_interview_completed")
<1>1. /\ stageIndex("applied") = 1 /\ stageIndex("ats_passed") = 2 /\ stageIndex("assessment_scheduled") = 3
      /\ stageIndex("assessment_completed") = 4 /\ stageIndex("interview_scheduled") = 5
      /\ stageIndex("ai_interview_completed") = 6
  BY StageNumbers, StageIndex
<1> QED
  BY <1>1, StageNames, Moves

LEMMA FromOffer ==
    ASSUME NEW from \in ValidStages, NEW to \in ValidStages, canTransition(from, to)
    PROVE  /\ from \notin TERMINAL_STAGES
           /\ from = "offer_sent" => to \in {"offer_accepted", "joined", "rejected"}
<1>1. stageIndex("offer_sent") = 13 /\ \A i \in 1..12 : stageIndex(STAGES[i]) = i
  BY StageNumbers, StageIndex
<1>2. \A i \in 1..12 : to # STAGES[i] \/ stageIndex(to) = i
  BY <1>1
<1>3. from = "offer_sent" /\ to # "rejected" => stageIndex(to) > 13
  BY <1>1, Moves DEF ROUND_STAGES
<1> QED
  BY <1>2, <1>3, <1>1, StageNumbers, StageNames, Moves DEF TERMINAL_STAGES, REJECTED

-----------------------------------------------------------------------------
(* Type correctness                                                        *)

LEMMA IdleType == Idle \in Held /\ Sound(Idle) /\ Idle.step = "idle"
BY DEF Idle, Held, Sound, Steps

\* A handler that goes on, whatever it writes.
LEMMA GoType ==
    ASSUME TypeInv, NEW r \in Requests, NEW h \in Held, Sound(h), Go(r, h),
           cand' \in [Apps -> Applications], review' \in [Apps -> Items],
           queue' \in [Apps -> {"none", "queued", "removed"}], invited' \subseteq Apps,
           assess' \in [Apps -> Sessions]
    PROVE  TypeInv'
<1>1. req' \in [Requests -> Held] /\ \A q \in Requests : Sound(req'[q])
  BY DEF Go, TypeInv, TypeOK
<1> QED
  BY <1>1 DEF TypeInv, TypeOK, Sound, Held

\* A step to another point of the same handler.
LEMMA StepType ==
    ASSUME TypeInv, NEW r \in Requests, req[r].step # "idle", NEW s \in Steps \ {"move"}
    PROVE  LET h == IF s = "idle" THEN Idle ELSE [req[r] EXCEPT !.step = s]
           IN  h \in Held /\ Sound(h)
<1>1. req[r] \in Held /\ Sound(req[r])
  BY DEF TypeInv, TypeOK
<1>2. CASE s = "idle"
  BY <1>2, IdleType
<1>3. CASE s # "idle"
  BY <1>1, <1>3 DEF Held, Sound
<1> QED
  BY <1>2, <1>3

LEMMA GoToType ==
    ASSUME TypeInv, NEW r \in Requests, req[r].step # "idle", NEW s \in Steps \ {"move"}, GoTo(r, s),
           cand' \in [Apps -> Applications], review' \in [Apps -> Items],
           queue' \in [Apps -> {"none", "queued", "removed"}], invited' \subseteq Apps,
           assess' \in [Apps -> Sessions]
    PROVE  TypeInv'
BY GoType, StepType DEF GoTo

\* Where a handler may go after a move.
LEMMA AfterType ==
    ASSUME TypeInv, NEW r \in Requests
    PROVE  req[r] \in Held /\ Sound(req[r]) /\ req[r].after \in Steps \ {"move"}
BY DEF TypeInv, TypeOK, Held, Sound


LEMMA BeginType ==
    ASSUME TypeInv, NEW r \in Requests, NEW kind \in AllKinds, NEW a \in Apps,
           NEW step \in Steps \ {"move"}, Begin(r, kind, a, step),
           UNCHANGED <<cand, review, queue, invited>>, assess' \in [Apps -> Sessions]
    PROVE  TypeInv'
<1> DEFINE h == [Idle EXCEPT !.step = step, !.kind = kind, !.app = a, !.copy = cand[a]]
<1>1. cand[a] \in Applications
  BY DEF TypeInv, TypeOK
<1>2. h \in Held /\ Sound(h)
  BY <1>1, IdleType DEF Held, Sound, Idle
<1>3. Go(r, h)
  BY DEF Begin
<1> HIDE DEF h
<1> QED
  BY <1>2, <1>3, GoType DEF TypeInv, TypeOK

LEMMA LoadType == ASSUME TypeInv, NEW r \in Requests, Load(r) PROVE TypeInv'
<1>1. ASSUME NEW a \in Apps, NEW to \in Targets, LoadMove(r, a, to) PROVE TypeInv'
  <2> DEFINE h == [Idle EXCEPT !.step = "move", !.kind = "move", !.app = a, !.copy = cand[a], !.to = to]
  <2>1. cand[a] \in Applications /\ review[a].n \in Nat
    BY DEF TypeInv, TypeOK, Items
  <2>2. h \in Held /\ Sound(h)
    BY <1>1, <2>1, IdleType DEF Held, Sound, Idle, Steps, AllKinds
  <2>3. Go(r, h)
    BY <1>1 DEF LoadMove
  <2> HIDE DEF h
  <2> QED
    BY <1>1, <2>2, <2>3, GoType DEF TypeInv, TypeOK, OnlyRequest, LoadMove
<1>2. ASSUME NEW a \in Apps, LoadInterviewed(r, a) PROVE TypeInv'
  <2> DEFINE h == [Idle EXCEPT !.step = "move", !.kind = "interviewed", !.app = a, !.copy = cand[a],
                               !.to = "ai_interview_completed"]
  <2>1. cand[a] \in Applications /\ review[a].n \in Nat
    BY DEF TypeInv, TypeOK, Items
  <2>2. h \in Held /\ Sound(h)
    BY <1>2, <2>1, IdleType, StageNames, ZenonT(60) DEF Held, Sound, Idle, Steps, AllKinds
  <2>3. Go(r, h)
    BY <1>2 DEF LoadInterviewed
  <2> HIDE DEF h
  <2> QED
    BY <1>2, <2>2, <2>3, GoType DEF TypeInv, TypeOK, OnlyRequest, LoadInterviewed
<1>3. ASSUME NEW a \in Apps, NEW d \in Decisions, LoadResolve(r, a, d) PROVE TypeInv'
  <2> DEFINE h == [Idle EXCEPT !.kind = "resolve", !.app = a, !.copy = cand[a], !.item = review[a].n]
             advance == [h EXCEPT !.step = "advance"]
             decline == [h EXCEPT !.step = "move", !.to = "rejected", !.after = "settle"]
  <2>1. cand[a] \in Applications /\ review[a].n \in Nat
    BY DEF TypeInv, TypeOK, Items
  <2>2. advance \in Held /\ Sound(advance) /\ decline \in Held /\ Sound(decline)
    BY <2>1, IdleType, ZenonT(60) DEF Held, Sound, Idle, Steps, AllKinds, ValidStages, REJECTED
  <2>3. Go(r, advance) \/ Go(r, decline)
    BY <1>3 DEF LoadResolve
  <2> HIDE DEF advance, decline
  <2> QED
    BY <1>3, <2>2, <2>3, GoType DEF TypeInv, TypeOK, OnlyRequest, LoadResolve
<1>4. ASSUME NEW a \in Apps, LoadScreen(r, a) \/ LoadSend(r, a) PROVE TypeInv'
  BY <1>4, BeginType DEF LoadScreen, LoadSend, OnlyRequest, TypeInv, TypeOK, AllKinds, Steps
<1>5. ASSUME NEW a \in Apps, LoadAssessed(r, a) PROVE TypeInv'
  <2>1. assess' \in [Apps -> Sessions]
    BY <1>5 DEF LoadAssessed, TypeInv, TypeOK, Sessions
  <2> QED
    BY <1>5, <2>1, BeginType DEF LoadAssessed, AllKinds, Steps
<1> QED
  BY <1>1, <1>2, <1>3, <1>4, <1>5 DEF Load

LEMMA MoveType ==
    ASSUME TypeInv, NEW r \in Requests, NEW copy \in Applications, NEW to \in ValidStages,
           NEW after \in Steps \ {"move"}, req[r].step # "idle"
    PROVE  Moving(r, copy, to, after) \in Held /\ Sound(Moving(r, copy, to, after))
<1>1. req[r] \in Held /\ req[r].app \in Apps /\ "move" \in Steps
  BY DEF TypeInv, TypeOK, Sound, Steps
<1> QED
  BY <1>1 DEF Held, Sound, Moving

LEMMA MoveSaveType == ASSUME TypeInv, NEW r \in Requests, MoveSave(r) PROVE TypeInv'
<1> DEFINE h == req[r]
           a == h.app
           next == IF h.to = "joined" THEN "siblings" ELSE "review"
           new == [h EXCEPT !.step = next, !.copy = [@ EXCEPT !.stage = h.to]]
<1>1. h \in Held /\ h.step = "move" /\ a \in Apps /\ h.copy \in Applications /\ h.to \in ValidStages
      /\ Sound(h)
  BY DEF MoveSave, At, TypeInv, TypeOK, Sound
<1>2. new \in Held /\ Sound(new)
  <2>1. [h.copy EXCEPT !.stage = h.to] \in Applications
    BY <1>1 DEF Applications
  <2>2. next \in Steps \ {"move"}
    BY DEF Steps
  <2> HIDE DEF next
  <2> QED
    BY <1>1, <2>1, <2>2 DEF Held, Sound
<1>3. cand' \in [Apps -> Applications]
  <2>1. \A seen, to : \A o \in {"none", "sent", "accepted", "declined"} :
            syncOffer(o, seen, to) \in {"none", "sent", "accepted", "declined"}
    BY Zenon DEF syncOffer
  <2> HIDE DEF h
  <2> QED
    BY <1>1, <2>1 DEF MoveSave, TypeInv, TypeOK, Applications, h
<1>4. Go(r, new)
  BY DEF MoveSave
<1> HIDE DEF new
<1> QED
  BY <1>2, <1>3, <1>4, GoType DEF MoveSave, TypeInv, TypeOK

LEMMA SiblingsType == ASSUME TypeInv, NEW r \in Requests, FindSiblings(r) \/ CloseSibling(r) PROVE TypeInv'
<1>1. req[r] \in Held /\ req[r].app \in Apps /\ req[r].copy \in Applications /\ Sound(req[r])
  BY DEF FindSiblings, CloseSibling, At, TypeInv, TypeOK, Sound
<1>2. ASSUME NEW rest \in SUBSET Apps, NEW s \in {"siblings", "review"}
      PROVE  LET h == [req[r] EXCEPT !.siblings = rest, !.step = s] IN h \in Held /\ Sound(h)
  <2>1. s \in Steps \ {"idle", "move"}
    BY DEF Steps
  <2> QED
    BY <1>1, <2>1 DEF Held, Sound
<1>3. CASE FindSiblings(r)
  <2> DEFINE open == {b \in Apps \ {req[r].app} : cand[b].stage \notin TERMINAL_STAGES /\ cand[b].exit = None}
             h == [req[r] EXCEPT !.siblings = open, !.step = IF open = {} THEN "review" ELSE @]
  <2>1. h \in Held /\ Sound(h)
    BY <1>2, <1>3 DEF FindSiblings, At
  <2>2. Go(r, h)
    BY <1>3 DEF FindSiblings
  <2> HIDE DEF h
  <2> QED
    BY <1>3, <2>1, <2>2, GoType DEF FindSiblings, OnlyRequest, TypeInv, TypeOK
<1>4. CASE CloseSibling(r)
  <2>1. PICK s \in req[r].siblings :
          /\ cand' = [cand EXCEPT ![s].exit = "hired_for_other_role"]
          /\ Go(r, [req[r] EXCEPT !.siblings = @ \ {s},
                                  !.step = IF req[r].siblings = {s} THEN "review" ELSE @])
    BY <1>4 DEF CloseSibling
  <2> DEFINE h == [req[r] EXCEPT !.siblings = @ \ {s}, !.step = IF req[r].siblings = {s} THEN "review" ELSE @]
  <2>2. h \in Held /\ Sound(h)
    <3>1. req[r].siblings \ {s} \in SUBSET Apps
      BY <1>1 DEF Held
    <3>2. req[r].step = "siblings"
      BY <1>4 DEF CloseSibling, At
    <3> QED
      BY <1>2, <3>1, <3>2
  <2>3. cand' \in [Apps -> Applications]
    <3>1. PICK e : e = "hired_for_other_role"
      OBVIOUS
    <3>2. cand \in [Apps -> Applications] /\ s \in Apps /\ e \in {"hired_for_other_role", None}
      BY <1>1, <3>1 DEF Held, TypeInv, TypeOK
    <3>3. [cand[s] EXCEPT !.exit = e] \in Applications
      BY <3>2 DEF Applications
    <3>4. cand' = [cand EXCEPT ![s] = [cand[s] EXCEPT !.exit = e]]
      BY <2>1, <3>1
    <3> QED
      BY <3>2, <3>3, <3>4
  <2> HIDE DEF h
  <2> QED
    BY <1>4, <2>1, <2>2, <2>3, GoType DEF CloseSibling, TypeInv, TypeOK, h
<1> QED
  BY <1>3, <1>4

LEMMA DecideType ==
    ASSUME TypeInv, NEW a \in Apps, NEW n, NEW d \in Decisions, Decide(a, n, d)
    PROVE  review' \in [Apps -> Items]
BY ZenonT(60) DEF Decide, TypeInv, TypeOK, Items

LEMMA SatelliteType ==
    ASSUME TypeInv, NEW r \in Requests,
           FindItem(r) \/ CloseItem(r) \/ Unqueue(r) \/ Enqueue(r) \/ Invite(r) \/ AssessInvite(r) \/ CancelStale(r)
    PROVE  TypeInv'
<1>1. /\ req[r].step # "idle" /\ req[r].app \in Apps /\ req[r].after \in Steps \ {"move"}
      /\ req[r] \in Held /\ review[req[r].app].n \in Nat
  BY AfterType DEF FindItem, CloseItem, Unqueue, Enqueue, Invite, AssessInvite, CancelStale, At, Sound,
                   TypeInv, TypeOK, Items
<1>2. ASSUME req[r].step # "move", NEW s \in Steps \ {"move"}, GoTo(r, s),
             cand' = cand, review' \in [Apps -> Items],
             queue' \in [Apps -> {"none", "queued", "removed"}], invited' \subseteq Apps,
             assess' \in [Apps -> Sessions]
      PROVE  TypeInv'
  BY <1>1, <1>2, GoToType DEF TypeInv, TypeOK
<1> USE DEF TypeInv, TypeOK
<1>3. CASE FindItem(r)
  <2>1. CASE review[req[r].app].open
    <3> DEFINE h == [req[r] EXCEPT !.step = "close", !.item = review[req[r].app].n]
    <3>1. h \in Held /\ Sound(h)
      BY <1>1, ZenonT(60) DEF Held, Sound, Steps
    <3>2. Go(r, h)
      BY <1>3, <2>1 DEF FindItem
    <3> HIDE DEF h
    <3> QED
      BY <1>3, <3>1, <3>2, GoType DEF FindItem, OnlyRequest
  <2>2. CASE ~review[req[r].app].open
    BY <1>2, <1>3, <2>2 DEF FindItem, OnlyRequest, At, Onward, Steps
  <2> QED
    BY <2>1, <2>2
<1>4. CASE CloseItem(r)
  <2>1. review' \in [Apps -> Items]
    BY <1>1, <1>4, DecideType DEF CloseItem, Decisions
  <2> QED
    BY <1>2, <1>4, <2>1 DEF CloseItem, At, Onward, Steps
<1>5. CASE Unqueue(r)
  <2>1. queue' \in [Apps -> {"none", "queued", "removed"}]
    BY <1>1, <1>5 DEF Unqueue
  <2>2. \E s \in {"assess", "stale", req[r].after} : GoTo(r, s)
    BY <1>5 DEF Unqueue
  <2> QED
    BY <1>1, <1>2, <1>5, <2>1, <2>2 DEF Unqueue, At, Steps
<1>6. CASE Enqueue(r)
  <2>1. queue' \in [Apps -> {"none", "queued", "removed"}]
    BY <1>1, <1>6 DEF Enqueue
  <2> QED
    BY <1>2, <1>6, <2>1 DEF Enqueue, At, Steps
<1>7. CASE Invite(r)
  BY <1>1, <1>2, <1>7 DEF Invite, At, Steps
<1>8. CASE AssessInvite(r) \/ CancelStale(r)
  <2>1. assess' \in [Apps -> Sessions]
    BY <1>1, <1>8 DEF AssessInvite, CancelStale, Sessions
  <2> QED
    BY <1>1, <1>2, <1>8, <2>1 DEF AssessInvite, CancelStale, At
<1> QED
  BY <1>3, <1>4, <1>5, <1>6, <1>7, <1>8

LEMMA PassOnType ==
    ASSUME TypeInv, NEW r \in Requests, req[r].step \in {"score", "advance"}, PassOn(r), OnlyRequest
    PROVE  TypeInv'
<1> DEFINE set == IF req[r].copy.stage = "applied" THEN "interview_scheduled" ELSE None
           h == [req[r] EXCEPT !.step = "enqueue", !.unsaved = set]
<1>1. CASE Policy[req[r].app] # "off"
  BY <1>1, GoToType DEF PassOn, OnlyRequest, TypeInv, TypeOK, Steps
<1>2. CASE Policy[req[r].app] = "off"
  <2>1. req[r] \in Held /\ Sound(req[r]) /\ set \in ValidStages \cup {None} /\ "enqueue" \in Steps
    BY AfterType, StageNames DEF Steps
  <2> HIDE DEF set
  <2>2. h \in Held /\ Sound(h)
    BY <2>1 DEF Held, Sound
  <2>3. Go(r, h)
    BY <1>2 DEF PassOn, set
  <2> HIDE DEF h
  <2> QED
    BY <2>2, <2>3, GoType DEF OnlyRequest, TypeInv, TypeOK
<1> QED
  BY <1>1, <1>2

LEMMA ScreenType ==
    ASSUME TypeInv, NEW r \in Requests,
           Score(r) \/ OpenItem(r) \/ Park(r) \/ Record(r) \/ ResolveAdvance(r) \/ Settle(r)
    PROVE  TypeInv'
<1>1. /\ req[r].step # "idle" /\ req[r].app \in Apps /\ req[r].copy \in Applications /\ req[r] \in Held
      /\ Sound(req[r]) /\ cand \in [Apps -> Applications] /\ review \in [Apps -> Items]
      /\ queue \in [Apps -> {"none", "queued", "removed"}] /\ invited \subseteq Apps
      /\ assess \in [Apps -> Sessions]
  BY DEF Score, OpenItem, Park, Record, ResolveAdvance, Settle, At, Sound, TypeInv, TypeOK
<1>2. CASE Score(r)
  <2>1. CASE PassOn(r)
    BY <1>2, <2>1, PassOnType DEF Score, At
  <2>2. CASE GoTo(r, "open")
    BY <1>1, <1>2, <2>2, GoToType DEF Score, OnlyRequest, Steps
  <2>3. ASSUME NEW u \in {None, "rejected"}, Go(r, [req[r] EXCEPT !.step = "record", !.unsaved = u])
        PROVE  TypeInv'
    <3>1. u \in ValidStages \cup {None} /\ "record" \in Steps
      BY StageNames DEF Steps
    <3>2. [req[r] EXCEPT !.step = "record", !.unsaved = u] \in Held
          /\ Sound([req[r] EXCEPT !.step = "record", !.unsaved = u])
      BY <1>1, <3>1 DEF Held, Sound
    <3> QED
      BY <1>1, <1>2, <2>3, <3>2, GoType DEF Score, OnlyRequest
  <2> QED
    BY <1>2, <2>1, <2>2, <2>3 DEF Score
<1>3. CASE OpenItem(r)
  <2>1. review' \in [Apps -> Items]
    BY <1>1, <1>3 DEF OpenItem, Items
  <2> QED
    BY <1>1, <1>3, <2>1, GoToType DEF OpenItem, Steps
<1>4. CASE Park(r)
  <2>1. "ats_passed" \in ValidStages
    BY StageNames
  <2> DEFINE stage == IF req[r].copy.stage = "applied" THEN "ats_passed" ELSE req[r].copy.stage
             next == IF Policy[req[r].app] = "auto" /\ PaperReady THEN "send" ELSE "record"
             copy == [req[r].copy EXCEPT !.stage = stage]
             h == [req[r] EXCEPT !.copy = copy, !.step = next, !.after = "record"]
  <2>2. cand' \in [Apps -> Applications] /\ copy \in Applications
    BY <1>1, <1>4, <2>1 DEF Park, Applications
  <2>3. next \in Steps \ {"move", "idle"} /\ "record" \in Steps
    BY DEF Steps
  <2>4. Go(r, h)
    BY <1>4 DEF Park
  <2> HIDE DEF next, copy
  <2>5. h \in Held /\ Sound(h)
    BY <1>1, <2>2, <2>3 DEF Held, Sound
  <2> HIDE DEF h
  <2> QED
    BY <1>1, <1>4, <2>2, <2>4, <2>5, GoType DEF Park
<1>5. CASE Record(r)
  <2>1. cand' \in [Apps -> Applications]
    BY <1>1, <1>5 DEF Record, Applications, Held
  <2> QED
    BY <1>1, <1>5, <2>1, GoToType DEF Record, Steps
<1>6. CASE ResolveAdvance(r)
  BY <1>6, PassOnType DEF ResolveAdvance, At
<1>7. CASE Settle(r)
  <2>1. review' \in [Apps -> Items]
    BY <1>1, <1>7, DecideType DEF Settle, Decisions
  <2> QED
    BY <1>1, <1>7, <2>1, GoToType DEF Settle, Steps
<1> QED
  BY <1>2, <1>3, <1>4, <1>5, <1>6, <1>7

LEMMA AssessedType ==
    ASSUME TypeInv, NEW r \in Requests, Send(r) \/ Assessed(r) \/ AssessedSecond(r)
    PROVE  TypeInv'
<1>1. /\ req[r].step # "idle" /\ req[r].app \in Apps /\ req[r].copy \in Applications
      /\ req[r].after \in Steps \ {"move"} /\ cand \in [Apps -> Applications]
      /\ {"second", "idle"} \subseteq Steps \ {"move"}
      /\ {"assessment_scheduled", "assessment_completed", "interview_scheduled"} \subseteq ValidStages
  BY AfterType, StageNames DEF Send, Assessed, AssessedSecond, At, Sound, TypeInv, TypeOK, Steps
<1>2. ASSUME NEW copy \in Applications, NEW to \in ValidStages, NEW after \in Steps \ {"move"},
             Go(r, Moving(r, copy, to, after)), assess' \in [Apps -> Sessions],
             UNCHANGED <<cand, review, queue, invited>>
      PROVE  TypeInv'
  BY <1>1, <1>2, MoveType, GoType DEF TypeInv, TypeOK
<1>3. ASSUME NEW s \in Steps \ {"move"}, GoTo(r, s), assess' \in [Apps -> Sessions],
             UNCHANGED <<cand, review, queue, invited>>
      PROVE  TypeInv'
  BY <1>1, <1>3, GoToType DEF TypeInv, TypeOK
<1>4. CASE Send(r)
  <2>1. assess' \in [Apps -> Sessions]
    BY <1>1, <1>4 DEF Send, TypeInv, TypeOK, Sessions
  <2> QED
    BY <1>1, <1>2, <1>3, <1>4, <2>1 DEF Send
<1>5. CASE Assessed(r)
  <2>1. \/ Go(r, Moving(r, cand[req[r].app], "assessment_completed", "second"))
        \/ Go(r, Moving(r, cand[req[r].app], "interview_scheduled", "idle"))
        \/ GoTo(r, "idle")
    BY <1>5, Zenon DEF Assessed
  <2> QED
    BY <1>1, <1>2, <1>3, <1>5, <2>1 DEF Assessed, OnlyRequest, TypeInv, TypeOK
<1>6. CASE AssessedSecond(r)
  BY <1>1, <1>2, <1>6 DEF AssessedSecond, OnlyRequest, TypeInv, TypeOK
<1> QED
  BY <1>4, <1>5, <1>6

LEMMA TypeNext == TypeInv /\ [Next]_vars => TypeInv'
<1> SUFFICES ASSUME TypeInv, [Next]_vars PROVE TypeInv'
  OBVIOUS
<1>1. ASSUME NEW r \in Requests, Load(r) PROVE TypeInv'
  BY <1>1, LoadType
<1>2. ASSUME NEW r \in Requests, Proceed(r) PROVE TypeInv'
  BY <1>2, MoveSaveType, SiblingsType, SatelliteType, ScreenType, AssessedType DEF Proceed
<1>3. ASSUME NEW r \in Requests, Fail(r) PROVE TypeInv'
  BY <1>3, GoToType DEF Fail, At, OnlyRequest, TypeInv, TypeOK, Steps
<1>4. CASE Elsewhere
  <2>1. ASSUME NEW a \in Apps, CandidateBegins(a) PROVE TypeInv'
    BY <2>1 DEF CandidateBegins, TypeInv, TypeOK, Sessions
  <2>2. ASSUME NEW a \in Apps, NEW s \in {"queued", "removed"}, Requeue(a, s) PROVE TypeInv'
    BY <2>2 DEF Requeue, TypeInv, TypeOK
  <2> QED
    BY <1>4, <2>1, <2>2 DEF Elsewhere
<1>5. CASE UNCHANGED vars
  BY <1>5 DEF vars, TypeInv, TypeOK
<1> QED
  BY <1>1, <1>2, <1>3, <1>4, <1>5 DEF Next

LEMMA TypeInit == Init => TypeInv
<1> SUFFICES ASSUME Init PROVE TypeInv
  OBVIOUS
<1>1. [stage |-> "applied", exit |-> None, offer |-> "none"] \in Applications
  BY StageNames DEF Applications
<1>2. [n |-> 0, open |-> FALSE, decision |-> None] \in Items
  BY DEF Items
<1> QED
  BY <1>1, <1>2, IdleType DEF Init, TypeInv, TypeOK, Sessions

\* Applications, offers, items, queue, sessions and the copies handlers hold keep
\* their types, however handlers overlap and wherever they die.
THEOREM TypeCorrect == Spec => []TypeOK
<1>1. TypeInv => TypeOK
  BY DEF TypeInv
<1> QED
  BY <1>1, TypeInit, TypeNext, PTL DEF Spec

LEMMA TypeInvAlways == Spec => []TypeInv
BY TypeInit, TypeNext, PTL DEF Spec

-----------------------------------------------------------------------------
(* While handlers do not overlap: the stored applications                  *)

LEMMA IdleSerial == PlaceOK(Idle) /\ SiblingsOK(Idle)
BY DEF PlaceOK, SiblingsOK, Pending, Idle

\* A handler that goes on and writes no application.
LEMMA HoldSerial ==
    ASSUME Serial, TypeInv, SerialInv, NEW r \in Requests, NEW h, Go(r, h), cand' = cand,
           h.step \notin {"idle", "settle"} => CopyOK(h), PlaceOK(h), SiblingsOK(h)
    PROVE  SerialInv'
<1>1. \A a \in Apps : (OfferOK(a) /\ (Decided(a) => cand[a].exit = None))'
  BY DEF SerialInv, OfferOK, Decided
<1>2. ASSUME NEW q \in Requests
      PROVE  /\ (req[q].step \notin {"idle", "settle"} => CopyOK(req[q]))'
             /\ PlaceOK(req[q])' /\ SiblingsOK(req[q])'
  <2>1. req'[q] = h
    BY DEF Serial, Go, TypeInv, TypeOK
  <2>2. (CopyOK(h) => CopyOK(req'[q])) /\ (PlaceOK(h) => PlaceOK(req'[q])) /\ (SiblingsOK(h) => SiblingsOK(req'[q]))
    BY <2>1
  <2>3. /\ CopyOK(req'[q]) = CopyOK(req[q])' /\ PlaceOK(req'[q]) = PlaceOK(req[q])'
        /\ SiblingsOK(req'[q]) = SiblingsOK(req[q])'
    BY DEF CopyOK, PlaceOK, SiblingsOK, Pending, Decided
  <2> QED
    BY <2>1, <2>2, <2>3
<1> QED
  BY <1>1, <1>2 DEF SerialInv

\* A handler that goes on with all it holds.
LEMMA GoToSerial ==
    ASSUME Serial, TypeInv, SerialInv, NEW r \in Requests, NEW s \in Steps \ {"move", "score"}, GoTo(r, s),
           cand' = cand, req[r].step \notin {"idle", "move", "settle", "siblings"},
           s # "idle" => PlaceOK([req[r] EXCEPT !.step = s])
    PROVE  SerialInv'
<1>1. CASE s = "idle"
  BY <1>1, IdleSerial, IdleType, HoldSerial DEF GoTo
<1>2. CASE s # "idle"
  <2> DEFINE h == [req[r] EXCEPT !.step = s]
  <2>1. /\ h.step = s /\ h.app = req[r].app /\ h.copy = req[r].copy /\ h.to = req[r].to
        /\ h.unsaved = req[r].unsaved /\ h.siblings = req[r].siblings
    BY DEF TypeInv, TypeOK, Held
  <2>2. Go(r, h) /\ PlaceOK(h)
    BY <1>2 DEF GoTo
  <2> HIDE DEF h
  <2>3. CopyOK(req[r]) /\ PlaceOK(req[r]) /\ SiblingsOK(req[r])
    BY DEF SerialInv
  <2>4. h.step \notin {"idle", "settle"} => CopyOK(h)
    BY <2>1, <2>3 DEF CopyOK, Pending
  <2>5. SiblingsOK(h)
    BY <2>1, <2>3 DEF SiblingsOK
  <2> QED
    BY <2>2, <2>4, <2>5, HoldSerial
<1> QED
  BY <1>1, <1>2

\* A handler that begins holds the application as it is.
LEMMA LoadSerial == ASSUME Serial, TypeInv, SerialInv, NEW r \in Requests, Load(r) PROVE SerialInv'
<1>1. ASSUME NEW a \in Apps, NEW h, Go(r, h), cand' = cand, h.app = a, h.copy = cand[a], h.unsaved = None,
             h.siblings = {}, h.after \in {"idle", "settle"},
             \/ h.step = "move" /\ canTransition(cand[a].stage, h.to)
             \/ h.step = "score" /\ h.to = None /\ cand[a].stage = "applied" /\ cand[a].exit = None
             \/ h.step \in {"send", "finished", "advance"} /\ h.to = None
      PROVE  SerialInv'
  <2>1. CopyOK(h) /\ PlaceOK(h) /\ SiblingsOK(h)
    BY <1>1 DEF CopyOK, PlaceOK, SiblingsOK, Pending
  <2> QED
    BY <1>1, <2>1, HoldSerial
<1>2. ASSUME NEW a \in Apps, NEW to \in Targets, LoadMove(r, a, to) PROVE SerialInv'
  <2> DEFINE h == [Idle EXCEPT !.step = "move", !.kind = "move", !.app = a, !.copy = cand[a], !.to = to]
  <2>1. /\ h.step = "move" /\ h.app = a /\ h.copy = cand[a] /\ h.to = to /\ h.unsaved = None
        /\ h.siblings = {} /\ h.after = "idle"
    BY DEF Idle
  <2> HIDE DEF h
  <2> QED
    BY <1>1, <1>2, <2>1 DEF LoadMove, OnlyRequest, h
<1>3. ASSUME NEW a \in Apps, LoadInterviewed(r, a) PROVE SerialInv'
  <2> DEFINE h == [Idle EXCEPT !.step = "move", !.kind = "interviewed", !.app = a, !.copy = cand[a],
                               !.to = "ai_interview_completed"]
  <2>1. /\ h.step = "move" /\ h.app = a /\ h.copy = cand[a] /\ h.to = "ai_interview_completed"
        /\ h.unsaved = None /\ h.siblings = {} /\ h.after = "idle"
    BY DEF Idle
  <2> HIDE DEF h
  <2> QED
    BY <1>1, <1>3, <2>1, Forward DEF LoadInterviewed, OnlyRequest, h
<1>4. ASSUME NEW a \in Apps, NEW d \in Decisions, LoadResolve(r, a, d) PROVE SerialInv'
  <2> DEFINE h == [Idle EXCEPT !.kind = "resolve", !.app = a, !.copy = cand[a], !.item = review[a].n]
             advance == [h EXCEPT !.step = "advance"]
             decline == [h EXCEPT !.step = "move", !.to = "rejected", !.after = "settle"]
  <2>1. /\ advance.step = "advance" /\ advance.app = a /\ advance.copy = cand[a] /\ advance.to = None
        /\ advance.unsaved = None /\ advance.siblings = {} /\ advance.after = "idle"
        /\ decline.step = "move" /\ decline.app = a /\ decline.copy = cand[a] /\ decline.to = "rejected"
        /\ decline.unsaved = None /\ decline.siblings = {} /\ decline.after = "settle"
    BY DEF Idle
  <2>2. Go(r, advance) \/ (Go(r, decline) /\ canTransition(cand[a].stage, "rejected"))
    BY <1>4 DEF LoadResolve
  <2>3. cand' = cand
    BY <1>4 DEF LoadResolve, OnlyRequest
  <2> HIDE DEF advance, decline
  <2> QED
    BY <1>1, <2>1, <2>2, <2>3
<1>5. ASSUME NEW a \in Apps, NEW kind, NEW step \in {"score", "send", "finished"}, Begin(r, kind, a, step),
             cand' = cand, step = "score" => cand[a].stage = "applied" /\ cand[a].exit = None
      PROVE  SerialInv'
  <2> DEFINE h == [Idle EXCEPT !.step = step, !.kind = kind, !.app = a, !.copy = cand[a]]
  <2>1. /\ h.step = step /\ h.app = a /\ h.copy = cand[a] /\ h.to = None /\ h.unsaved = None
        /\ h.siblings = {} /\ h.after = "idle"
    BY DEF Idle
  <2>2. Go(r, h)
    BY <1>5 DEF Begin
  <2> HIDE DEF h
  <2> QED
    BY <1>1, <1>5, <2>1, <2>2
<1>6. ASSUME NEW a \in Apps, LoadScreen(r, a) \/ LoadSend(r, a) \/ LoadAssessed(r, a) PROVE SerialInv'
  BY <1>5, <1>6 DEF LoadScreen, LoadSend, LoadAssessed, OnlyRequest, Serial
<1> QED
  BY <1>2, <1>3, <1>4, <1>6 DEF Load

\* What a handler at work can count on.
LEMMA AtWorkSerial ==
    ASSUME TypeInv, SerialInv, NEW r \in Requests, req[r].step # "idle"
    PROVE  /\ req[r] \in Held /\ req[r].app \in Apps /\ req[r].copy \in Applications
           /\ cand \in [Apps -> Applications] /\ PlaceOK(req[r]) /\ SiblingsOK(req[r])
           /\ req[r].step # "settle" => CopyOK(req[r])
           /\ OfferOK(req[r].app) /\ (Decided(req[r].app) => cand[req[r].app].exit = None)
BY DEF TypeInv, TypeOK, Sound, SerialInv

LEMMA SatelliteSerial ==
    ASSUME Serial, TypeInv, SerialInv, NEW r \in Requests,
           FindItem(r) \/ CloseItem(r) \/ Unqueue(r) \/ Enqueue(r) \/ Invite(r) \/ AssessInvite(r) \/ CancelStale(r)
    PROVE  SerialInv'
<1>1. /\ req[r].step \in {"review", "close", "unqueue", "enqueue", "invite", "assess", "stale"}
      /\ req[r].after \in Steps \ {"move"} /\ cand' = cand
  BY AfterType DEF FindItem, CloseItem, Unqueue, Enqueue, Invite, AssessInvite, CancelStale, At, OnlyRequest
<1>2. PlaceOK(req[r]) /\ CopyOK(req[r]) /\ SiblingsOK(req[r]) /\ req[r] \in Held
  BY <1>1, AtWorkSerial
<1>3. ASSUME NEW s \in {"unqueue", "enqueue", "invite", "record", "assess", "stale", req[r].after}, GoTo(r, s),
             s \in {"unqueue", "assess", "stale"} => req[r].to # None,
             s = "record" => req[r].to = None \/ req[r].unsaved = None,
             s \notin {"enqueue", "invite", "record"} => req[r].unsaved = None
      PROVE  SerialInv'
  <2>1. s \in Steps \ {"move", "score"}
    BY <1>1, <1>2 DEF Steps, PlaceOK
  <2> DEFINE h == [req[r] EXCEPT !.step = s]
  <2>2. /\ h.step = s /\ h.app = req[r].app /\ h.copy = req[r].copy /\ h.to = req[r].to
        /\ h.unsaved = req[r].unsaved /\ h.siblings = req[r].siblings /\ h.after = req[r].after
    BY <1>2 DEF Held
  <2> HIDE DEF h
  <2>3. s # "idle" => PlaceOK(h)
    BY StageNames, <1>1, <1>2, <1>3, <2>2 DEF PlaceOK, Pending
  <2> QED
    BY <1>1, <1>3, <2>1, <2>3, GoToSerial DEF h
<1>4. CASE FindItem(r)
  <2>1. CASE review[req[r].app].open
    <3> DEFINE h == [req[r] EXCEPT !.step = "close", !.item = review[req[r].app].n]
    <3>1. /\ h.step = "close" /\ h.app = req[r].app /\ h.copy = req[r].copy /\ h.to = req[r].to
          /\ h.unsaved = req[r].unsaved /\ h.siblings = req[r].siblings /\ h.after = req[r].after
      BY <1>2 DEF Held
    <3>2. Go(r, h)
      BY <1>4, <2>1 DEF FindItem
    <3>3. req[r].step = "review"
      BY <1>4 DEF FindItem, At
    <3> HIDE DEF h
    <3>4. CopyOK(h) /\ PlaceOK(h) /\ SiblingsOK(h)
      BY <1>2, <3>1, <3>3 DEF CopyOK, PlaceOK, SiblingsOK, Pending
    <3> QED
      BY <1>1, <3>2, <3>4, HoldSerial
  <2>2. CASE ~review[req[r].app].open
    BY <1>2, <1>3, <1>4, <2>2 DEF FindItem, Onward, At, PlaceOK, Pending
  <2> QED
    BY <2>1, <2>2
<1>5. CASE CloseItem(r)
  BY <1>2, <1>3, <1>5 DEF CloseItem, Onward, At, PlaceOK, Pending
<1>6. CASE Unqueue(r)
  BY <1>2, <1>3, <1>6 DEF Unqueue, At, PlaceOK, Pending
<1>7. CASE Enqueue(r)
  BY <1>2, <1>3, <1>7 DEF Enqueue, At, PlaceOK, Pending
<1>8. CASE Invite(r)
  BY <1>2, <1>3, <1>8 DEF Invite, At, PlaceOK, Pending
<1>9. CASE AssessInvite(r) \/ CancelStale(r)
  BY <1>2, <1>3, <1>9 DEF AssessInvite, CancelStale, At, PlaceOK, Pending
<1> QED
  BY <1>4, <1>5, <1>6, <1>7, <1>8, <1>9

\* A handler that writes one application and goes on.
LEMMA WriteSerial ==
    ASSUME Serial, TypeInv, SerialInv, NEW r \in Requests, NEW h, Go(r, h),
           NEW a \in Apps, NEW new \in Applications, cand' = [cand EXCEPT ![a] = new],
           new.stage = "offer_sent" => new.offer = "sent",
           new.stage = "offer_accepted" => new.offer = "accepted",
           new.offer = "sent" => new.stage \in {"offer_sent", "joined"},
           new.stage \in TERMINAL_STAGES => new.exit = None,
           h.step \notin {"idle", "settle"} => CopyOK(h)', PlaceOK(h)', SiblingsOK(h)'
    PROVE  SerialInv'
<1>1. ASSUME NEW b \in Apps PROVE (OfferOK(b) /\ (Decided(b) => cand[b].exit = None))'
  BY DEF SerialInv, OfferOK, Decided, TypeInv, TypeOK
<1>2. ASSUME NEW q \in Requests
      PROVE  /\ (req[q].step \notin {"idle", "settle"} => CopyOK(req[q]))'
             /\ PlaceOK(req[q])' /\ SiblingsOK(req[q])'
  <2>1. req'[q] = h
    BY DEF Serial, Go, TypeInv, TypeOK
  <2> QED
    BY <2>1 DEF CopyOK, PlaceOK, SiblingsOK, Pending, Decided
<1> QED
  BY <1>1, <1>2 DEF SerialInv

LEMMA OfferFollows ==
    ASSUME NEW o, NEW seen, NEW to
    PROVE  syncOffer(o, seen, to) = IF to = "offer_sent" THEN "sent"
                                    ELSE IF to = "offer_accepted" THEN "accepted"
                                    ELSE IF to = "rejected" /\ seen = "sent" THEN "declined" ELSE o
BY Zenon DEF syncOffer

LEMMA MoveSaveSerial ==
    ASSUME Serial, TypeInv, SerialInv, NEW r \in Requests, MoveSave(r)
    PROVE  SerialInv' /\ canTransition(cand[req[r].app].stage, req[r].to)
<1> DEFINE h == req[r]
           a == h.app
           new == [stage |-> h.to, offer |-> syncOffer(cand[a].offer, h.copy.offer, h.to),
                   exit |-> IF h.copy.exit # None THEN None ELSE cand[a].exit]
           copy == [h.copy EXCEPT !.stage = h.to]
           next == IF h.to = "joined" THEN "siblings" ELSE "review"
           held == [h EXCEPT !.step = next, !.copy = copy]
<1>1. h.step = "move" /\ cand' = [cand EXCEPT ![a] = new] /\ Go(r, held)
  BY DEF MoveSave, At
<1>2. /\ h \in Held /\ a \in Apps /\ h.copy \in Applications /\ cand \in [Apps -> Applications]
      /\ PlaceOK(h) /\ SiblingsOK(h) /\ CopyOK(h) /\ OfferOK(a) /\ h.to \in ValidStages
  BY <1>1, AtWorkSerial DEF TypeInv, Sound
<1>3. cand[a].stage \in ValidStages /\ canTransition(cand[a].stage, h.to) /\ h.to # None
  BY <1>1, <1>2 DEF CopyOK, Applications
<1>4. /\ new.stage = h.to /\ new.exit = None
      /\ new.offer = IF h.to = "offer_sent" THEN "sent" ELSE IF h.to = "offer_accepted" THEN "accepted"
                     ELSE IF h.to = "rejected" /\ h.copy.offer = "sent" THEN "declined" ELSE cand[a].offer
      /\ cand[a].offer \in {"none", "sent", "accepted", "declined"}
  BY <1>2, OfferFollows DEF CopyOK, Applications
<1>5. new \in Applications
  <2>1. new.offer \in {"none", "sent", "accepted", "declined"}
    BY <1>4
  <2> QED
    BY <1>2, <1>4, <2>1 DEF Applications
<1>6. /\ held.step = next /\ held.app = a /\ held.copy = copy /\ held.to = h.to
      /\ held.unsaved = h.unsaved /\ held.siblings = h.siblings /\ held.after = h.after
      /\ copy.stage = h.to /\ next \in {"siblings", "review"}
  BY <1>2 DEF Held, Applications
<1>7. cand'[a] = new
  BY <1>1, <1>2
<1> HIDE DEF new, held, copy, next
<1>8. PICK k : k = held
  OBVIOUS
<1>9. CopyOK(k)' /\ PlaceOK(k)' /\ SiblingsOK(k)'
  BY <1>1, <1>2, <1>3, <1>4, <1>6, <1>7, <1>8 DEF CopyOK, PlaceOK, SiblingsOK, Pending
<1>10. /\ new.stage = "offer_sent" => new.offer = "sent"
       /\ new.stage = "offer_accepted" => new.offer = "accepted"
       /\ new.offer = "sent" => new.stage \in {"offer_sent", "joined"}
  BY <1>1, <1>2, <1>3, <1>4, FromOffer DEF OfferOK, CopyOK, TERMINAL_STAGES
<1> QED
  BY <1>1, <1>2, <1>3, <1>4, <1>5, <1>8, <1>9, <1>10, WriteSerial

\* A hire closes every application that was open when it was read.
SiblingsClosed(r) ==
    \A b \in Apps \ {req[r].app} : cand'[b].stage \in TERMINAL_STAGES \/ cand'[b].exit # None

LEMMA SiblingsSerial ==
    ASSUME Serial, TypeInv, SerialInv, NEW r \in Requests, FindSiblings(r) \/ CloseSibling(r)
    PROVE  /\ SerialInv' /\ (req'[r].step = "review" => SiblingsClosed(r))
           /\ \A b \in Apps : cand'[b].stage = cand[b].stage
<1>1. /\ req[r].step = "siblings" /\ req[r] \in Held /\ req[r].app \in Apps /\ cand \in [Apps -> Applications]
      /\ PlaceOK(req[r]) /\ CopyOK(req[r]) /\ SiblingsOK(req[r])
  BY AtWorkSerial DEF FindSiblings, CloseSibling, At
<1>2. CASE FindSiblings(r)
  <2> DEFINE open == {b \in Apps \ {req[r].app} : cand[b].stage \notin TERMINAL_STAGES /\ cand[b].exit = None}
             next == IF open = {} THEN "review" ELSE req[r].step
             h == [req[r] EXCEPT !.siblings = open, !.step = next]
  <2>1. Go(r, h) /\ cand' = cand
    BY <1>2 DEF FindSiblings, OnlyRequest
  <2>2. /\ h.step = next /\ h.app = req[r].app /\ h.copy = req[r].copy /\ h.to = req[r].to
        /\ h.unsaved = req[r].unsaved /\ h.siblings = open /\ h.after = req[r].after
    BY <1>1 DEF Held
  <2>3. req'[r] = h
    BY <2>1 DEF Go, TypeInv, TypeOK
  <2> HIDE DEF h
  <2>4. CopyOK(h) /\ PlaceOK(h) /\ SiblingsOK(h)
    BY <1>1, <2>2 DEF CopyOK, PlaceOK, SiblingsOK, Pending, Decided
  <2>5. h.step = "review" => SiblingsClosed(r)
    BY <1>1, <2>1, <2>2 DEF SiblingsClosed
  <2> QED
    BY <2>1, <2>3, <2>4, <2>5, HoldSerial
<1>3. CASE CloseSibling(r)
  <2>1. PICK s \in req[r].siblings :
          /\ cand' = [cand EXCEPT ![s].exit = "hired_for_other_role"]
          /\ Go(r, [req[r] EXCEPT !.siblings = @ \ {s},
                                  !.step = IF req[r].siblings = {s} THEN "review" ELSE @])
    BY <1>3 DEF CloseSibling
  <2> DEFINE new == [cand[s] EXCEPT !.exit = "hired_for_other_role"]
             rest == req[r].siblings \ {s}
             next == IF req[r].siblings = {s} THEN "review" ELSE req[r].step
             h == [req[r] EXCEPT !.siblings = rest, !.step = next]
  <2>2. s \in Apps /\ s # req[r].app /\ ~Decided(s) /\ OfferOK(s)
    BY <1>1 DEF SiblingsOK, SerialInv
  <2>3. /\ new \in Applications /\ new.stage = cand[s].stage /\ new.offer = cand[s].offer
        /\ new.exit = "hired_for_other_role" /\ cand' = [cand EXCEPT ![s] = new]
    BY <1>1, <2>1, <2>2 DEF Applications
  <2>4. /\ h.step = next /\ h.app = req[r].app /\ h.copy = req[r].copy /\ h.to = req[r].to
        /\ h.unsaved = req[r].unsaved /\ h.siblings = rest /\ h.after = req[r].after
    BY <1>1 DEF Held
  <2>5. Go(r, h) /\ req'[r] = h
    BY <2>1 DEF Go, TypeInv, TypeOK
  <2> HIDE DEF h, new
  <2>6. /\ \A b \in Apps : cand'[b].stage = cand[b].stage /\ (b # s => cand'[b] = cand[b])
        /\ cand'[s].exit # None
    BY <1>1, <2>2, <2>3
  <2>7. PICK k : k = h
    OBVIOUS
  <2>8. CopyOK(k)' /\ PlaceOK(k)' /\ SiblingsOK(k)'
    BY <1>1, <2>2, <2>4, <2>6, <2>7 DEF CopyOK, PlaceOK, SiblingsOK, Pending, Decided
  <2>9. h.step = "review" => SiblingsClosed(r)
    BY <1>1, <2>4, <2>6 DEF SiblingsClosed, SiblingsOK, Decided
  <2>10. /\ new.stage = "offer_sent" => new.offer = "sent"
         /\ new.stage = "offer_accepted" => new.offer = "accepted"
         /\ new.offer = "sent" => new.stage \in {"offer_sent", "joined"}
         /\ new.stage \notin TERMINAL_STAGES
    BY <2>2, <2>3 DEF OfferOK, Decided
  <2>11. SerialInv'
    BY <2>2, <2>3, <2>5, <2>7, <2>8, <2>10, WriteSerial
  <2> QED
    BY <2>5, <2>6, <2>9, <2>11
<1> QED
  BY <1>2, <1>3

\* Every change of stage is one canTransition allows.
LegalMoves == \A a \in Apps : cand'[a].stage # cand[a].stage => canTransition(cand[a].stage, cand'[a].stage)

LEMMA PassOnSerial ==
    ASSUME Serial, TypeInv, SerialInv, NEW r \in Requests, req[r].step \in {"score", "advance"},
           PassOn(r), cand' = cand
    PROVE  SerialInv'
<1>1. req[r] \in Held /\ PlaceOK(req[r]) /\ CopyOK(req[r]) /\ SiblingsOK(req[r])
  BY AtWorkSerial
<1>2. CASE Policy[req[r].app] # "off"
  <2> DEFINE h == [req[r] EXCEPT !.step = "park"]
  <2>1. /\ h.step = "park" /\ h.to = req[r].to /\ h.unsaved = req[r].unsaved /\ h.after = req[r].after
    BY <1>1 DEF Held
  <2> HIDE DEF h
  <2>2. PlaceOK(h)
    BY <1>1, <2>1, StageNames DEF PlaceOK, Pending
  <2>3. GoTo(r, "park")
    BY <1>2 DEF PassOn
  <2> QED
    BY <2>2, <2>3, GoToSerial DEF Steps, h
<1>3. CASE Policy[req[r].app] = "off"
  <2> DEFINE set == IF req[r].copy.stage = "applied" THEN "interview_scheduled" ELSE None
             h == [req[r] EXCEPT !.step = "enqueue", !.unsaved = set]
  <2>1. /\ h.step = "enqueue" /\ h.app = req[r].app /\ h.copy = req[r].copy /\ h.to = req[r].to
        /\ h.unsaved = set /\ h.siblings = req[r].siblings /\ h.after = req[r].after
    BY <1>1 DEF Held
  <2>2. Go(r, h)
    BY <1>3 DEF PassOn
  <2> HIDE DEF h
  <2>3. CopyOK(h) /\ PlaceOK(h) /\ SiblingsOK(h)
    BY <1>1, <2>1, StageNames DEF CopyOK, PlaceOK, SiblingsOK, Pending
  <2> QED
    BY <2>1, <2>2, <2>3, HoldSerial
<1> QED
  BY <1>2, <1>3

LEMMA ScreenSerial ==
    ASSUME Serial, TypeInv, SerialInv, NEW r \in Requests,
           Score(r) \/ OpenItem(r) \/ Park(r) \/ Record(r) \/ ResolveAdvance(r) \/ Settle(r)
    PROVE  SerialInv' /\ LegalMoves
<1>1. /\ req[r] \in Held /\ req[r].app \in Apps /\ req[r].copy \in Applications
      /\ cand \in [Apps -> Applications] /\ PlaceOK(req[r]) /\ SiblingsOK(req[r])
      /\ req[r].step # "settle" => CopyOK(req[r])
      /\ OfferOK(req[r].app) /\ (Decided(req[r].app) => cand[req[r].app].exit = None)
  BY AtWorkSerial DEF Score, OpenItem, Park, Record, ResolveAdvance, Settle, At
<1>2. cand' = cand => LegalMoves
  BY DEF LegalMoves
<1>3. CASE Score(r)
  <2>1. req[r].step = "score" /\ cand' = cand
    BY <1>3 DEF Score, At, OnlyRequest
  <2>2. CASE PassOn(r)
    BY <1>2, <2>1, <2>2, PassOnSerial
  <2>3. CASE GoTo(r, "open")
    <3> DEFINE h == [req[r] EXCEPT !.step = "open"]
    <3>1. /\ h.step = "open" /\ h.to = req[r].to /\ h.unsaved = req[r].unsaved /\ h.after = req[r].after
      BY <1>1 DEF Held
    <3> HIDE DEF h
    <3>2. PlaceOK(h)
      BY <1>1, <2>1, <3>1, StageNames DEF PlaceOK, Pending
    <3> QED
      BY <1>2, <2>1, <2>3, <3>2, GoToSerial DEF Steps, h
  <2>4. ASSUME NEW u \in {None, "rejected"}, Go(r, [req[r] EXCEPT !.step = "record", !.unsaved = u])
        PROVE  SerialInv'
    <3> DEFINE h == [req[r] EXCEPT !.step = "record", !.unsaved = u]
    <3>1. /\ h.step = "record" /\ h.app = req[r].app /\ h.copy = req[r].copy /\ h.to = req[r].to
          /\ h.unsaved = u /\ h.siblings = req[r].siblings /\ h.after = req[r].after
      BY <1>1 DEF Held
    <3>2. Go(r, h)
      BY <2>4
    <3> HIDE DEF h
    <3>3. CopyOK(h) /\ PlaceOK(h) /\ SiblingsOK(h)
      BY <1>1, <2>1, <3>1, StageNames DEF CopyOK, PlaceOK, SiblingsOK, Pending
    <3> QED
      BY <2>1, <3>1, <3>2, <3>3, HoldSerial
  <2> QED
    BY <1>2, <1>3, <2>1, <2>2, <2>3, <2>4 DEF Score
<1>4. CASE OpenItem(r)
  <2> DEFINE h == [req[r] EXCEPT !.step = "record"]
  <2>1. /\ h.step = "record" /\ h.app = req[r].app /\ h.to = req[r].to /\ h.unsaved = req[r].unsaved /\ h.after = req[r].after
    BY <1>1 DEF Held
  <2>2. req[r].step = "open" /\ cand' = cand /\ GoTo(r, "record")
    BY <1>4 DEF OpenItem, At
  <2> HIDE DEF h
  <2>3. PlaceOK(h)
    BY <1>1, <2>1, <2>2, StageNames DEF PlaceOK, Pending
  <2> QED
    BY <1>2, <2>2, <2>3, GoToSerial DEF Steps, h
<1>5. CASE Park(r)
  <2> DEFINE parks == req[r].copy.stage = "applied"
             a == req[r].app
             stage == IF parks THEN "ats_passed" ELSE req[r].copy.stage
             next == IF Policy[a] = "auto" /\ PaperReady THEN "send" ELSE "record"
             copy == [req[r].copy EXCEPT !.stage = stage]
             h == [req[r] EXCEPT !.copy = copy, !.step = next, !.after = "record"]
             new == [cand[a] EXCEPT !.stage = stage]
  <2>1. Go(r, h) /\ req[r].step = "park"
    BY <1>5 DEF Park, At
  <2>2. /\ h.step = next /\ h.app = a /\ h.copy = copy /\ h.to = req[r].to /\ h.unsaved = req[r].unsaved
        /\ h.siblings = req[r].siblings /\ h.after = "record" /\ next \in {"send", "record"}
        /\ copy.stage = stage /\ copy.exit = req[r].copy.exit
    BY <1>1 DEF Held, Applications
  <2>3. cand[a].stage = req[r].copy.stage /\ cand[a].stage \in ValidStages /\ "ats_passed" \in ValidStages
    BY <1>1, <2>1, StageNames DEF CopyOK, Applications
  <2>4. /\ new \in Applications /\ new.stage = stage /\ new.offer = cand[a].offer /\ new.exit = cand[a].exit
        /\ cand' = [cand EXCEPT ![a] = new]
    <3>1. CASE parks
      BY <1>1, <1>5, <2>3, <3>1 DEF Park, Applications
    <3>2. CASE ~parks
      <4>1. new = cand[a]
        BY <1>1, <2>3, <3>2 DEF Applications
      <4> QED
        BY <1>1, <1>5, <2>3, <3>2, <4>1 DEF Park, Applications
    <3> QED
      BY <3>1, <3>2
  <2>5. stage = cand[a].stage \/ (cand[a].stage = "applied" /\ stage = "ats_passed")
    BY <2>3
  <2> HIDE DEF h, new, next, copy, stage, parks
  <2>6. PICK k : k = h
    OBVIOUS
  <2>7. cand'[a] = new /\ \A b \in Apps : b # a => cand'[b] = cand[b]
    BY <1>1, <2>4
  <2>8. CopyOK(k)' /\ PlaceOK(k)' /\ SiblingsOK(k)'
    BY <1>1, <2>1, <2>2, <2>4, <2>5, <2>6, <2>7, StageNames DEF CopyOK, PlaceOK, SiblingsOK, Pending
  <2>9. /\ new.stage = "offer_sent" => new.offer = "sent"
        /\ new.stage = "offer_accepted" => new.offer = "accepted"
        /\ new.offer = "sent" => new.stage \in {"offer_sent", "joined"}
        /\ new.stage \in TERMINAL_STAGES => new.exit = None
    BY <1>1, <2>4, <2>5 DEF OfferOK, Decided, TERMINAL_STAGES, REJECTED
  <2>10. LegalMoves
    BY <1>1, <2>4, <2>5, <2>7, Forward DEF LegalMoves
  <2> QED
    BY <1>1, <2>1, <2>4, <2>6, <2>8, <2>9, <2>10, WriteSerial
<1>6. CASE Record(r)
  <2> DEFINE a == req[r].app
             s == IF req[r].kind = "resolve" THEN "settle" ELSE "idle"
             h == IF s = "idle" THEN Idle ELSE [req[r] EXCEPT !.step = s]
             new == IF req[r].unsaved = None THEN cand[a] ELSE [cand[a] EXCEPT !.stage = req[r].unsaved]
  <2>1. Go(r, h) /\ req[r].step = "record"
    BY <1>6 DEF Record, At, GoTo
  <2>2. h = Idle \/ (/\ h.step = "settle" /\ h.to = req[r].to /\ h.unsaved = req[r].unsaved
                     /\ h.siblings = req[r].siblings /\ h.after = req[r].after /\ h.app = req[r].app)
    BY <1>1 DEF Held
  <2>3. cand' = [cand EXCEPT ![a] = new]
    BY <1>1, <1>6 DEF Record
  <2>4. /\ new \in Applications /\ new.offer = cand[a].offer /\ new.exit = cand[a].exit
        /\ new.stage = IF req[r].unsaved = None THEN cand[a].stage ELSE req[r].unsaved
    BY <1>1 DEF Applications, Held
  <2>5. \/ new.stage = cand[a].stage
        \/ /\ cand[a].stage = "applied" /\ req[r].to = None
           /\ new.stage \in {"interview_scheduled", "rejected"}
           /\ new.stage = "rejected" => cand[a].exit = None
    BY <1>1, <2>1, <2>4 DEF CopyOK, PlaceOK, Pending
  <2> HIDE DEF h, new
  <2>6. PICK k : k = h
    OBVIOUS
  <2>7. cand'[a] = new /\ \A b \in Apps : b # a => cand'[b] = cand[b]
    BY <1>1, <2>3
  <2>8. /\ k.step \in {"idle", "settle"}
        /\ PlaceOK(k)' /\ SiblingsOK(k)'
    <3>1. CASE h = Idle
      BY <2>6, <3>1, IdleType DEF PlaceOK, SiblingsOK, Pending, Idle
    <3>2. CASE h # Idle
      BY <1>1, <2>1, <2>2, <2>5, <2>6, <2>7, <3>2 DEF PlaceOK, SiblingsOK, Pending
    <3> QED
      BY <3>1, <3>2
  <2>9. /\ new.stage = "offer_sent" => new.offer = "sent"
        /\ new.stage = "offer_accepted" => new.offer = "accepted"
        /\ new.offer = "sent" => new.stage \in {"offer_sent", "joined"}
        /\ new.stage \in TERMINAL_STAGES => new.exit = None
    BY <1>1, <2>4, <2>5 DEF OfferOK, Decided, TERMINAL_STAGES, REJECTED
  <2>10. LegalMoves
    BY <1>1, <2>5, <2>7, Forward DEF LegalMoves
  <2> QED
    BY <1>1, <2>1, <2>3, <2>4, <2>6, <2>8, <2>9, <2>10, WriteSerial
<1>7. CASE ResolveAdvance(r)
  BY <1>2, <1>7, PassOnSerial DEF ResolveAdvance, At, OnlyRequest
<1>8. CASE Settle(r)
  BY <1>2, <1>8, IdleSerial, IdleType, HoldSerial DEF Settle, GoTo
<1> QED
  BY <1>3, <1>4, <1>5, <1>6, <1>7, <1>8

LEMMA MovingSerial ==
    ASSUME Serial, TypeInv, SerialInv, NEW r \in Requests, NEW copy \in Applications, NEW to \in ValidStages,
           NEW after \in {"idle", "second", "record", "settle"}, Go(r, Moving(r, copy, to, after)), cand' = cand,
           req[r].step \notin {"idle", "settle"}, req[r].unsaved = None, req[r].siblings = {},
           copy.stage = cand[req[r].app].stage, copy.exit = None => cand[req[r].app].exit = None,
           canTransition(copy.stage, to), to # "rejected", after = "second" => to = "assessment_completed"
    PROVE  SerialInv'
<1> DEFINE h == Moving(r, copy, to, after)
<1>1. /\ h.step = "move" /\ h.app = req[r].app /\ h.copy = copy /\ h.to = to /\ h.unsaved = None
      /\ h.siblings = {} /\ h.after = after
  BY AtWorkSerial DEF Moving, Held
<1> HIDE DEF h
<1>2. CopyOK(h) /\ PlaceOK(h) /\ SiblingsOK(h)
  BY <1>1 DEF CopyOK, PlaceOK, SiblingsOK, Pending
<1> QED
  BY <1>2, HoldSerial DEF h

LEMMA AssessedSerial ==
    ASSUME Serial, TypeInv, SerialInv, NEW r \in Requests, Send(r) \/ Assessed(r) \/ AssessedSecond(r)
    PROVE  SerialInv' /\ LegalMoves
<1>1. /\ req[r] \in Held /\ req[r].app \in Apps /\ req[r].copy \in Applications
      /\ req[r].step \in {"send", "finished", "second"}
      /\ cand \in [Apps -> Applications] /\ cand' = cand /\ PlaceOK(req[r]) /\ SiblingsOK(req[r]) /\ CopyOK(req[r])
  BY AtWorkSerial DEF Send, Assessed, AssessedSecond, At, OnlyRequest
<1>2. LegalMoves
  BY <1>1 DEF LegalMoves
<1>3. /\ req[r].unsaved = None /\ req[r].siblings = {}
      /\ {"assessment_scheduled", "assessment_completed", "interview_scheduled"} \subseteq ValidStages
  BY <1>1, StageNames DEF PlaceOK, SiblingsOK, Pending
<1>4. CASE Send(r)
  <2>1. CASE req[r].copy.stage \in {"applied", "ats_passed"} /\ Go(r, Moving(r, req[r].copy, "assessment_scheduled", req[r].after))
    <3>1. PICK k \in Applications : k = req[r].copy
      BY <1>1
    <3>2. PICK after \in {"idle", "second", "record", "settle"} : after = req[r].after
      BY <1>1 DEF PlaceOK
    <3>a. req[r].step = "send" /\ k.stage \in {"applied", "ats_passed"}
      BY <1>4, <2>1, <3>1 DEF Send, At
    <3>b. k.stage = cand[req[r].app].stage /\ (k.exit = None => cand[req[r].app].exit = None)
      BY <1>1, <1>3, <3>1, <3>a DEF CopyOK
    <3>3. after # "second"
      <4>1. req[r].after = "second" => req[r].to = "assessment_completed" /\ req[r].to # None
        BY <1>1, StageNames DEF PlaceOK
      <4>2. req[r].to # None => cand[req[r].app].stage = req[r].to
        BY <1>1, <3>a DEF PlaceOK
      <4> QED
        BY <3>2, <3>a, <3>b, <4>1, <4>2
    <3>4. canTransition(k.stage, "assessment_scheduled")
      BY <2>1, <3>1, Forward
    <3> QED
      BY <1>1, <1>2, <1>3, <2>1, <3>1, <3>2, <3>a, <3>b, <3>3, <3>4, MovingSerial
  <2>2. CASE GoTo(r, req[r].after)
    <3> DEFINE h == [req[r] EXCEPT !.step = req[r].after]
    <3>1. /\ h.step = req[r].after /\ h.app = req[r].app /\ h.to = req[r].to /\ h.unsaved = req[r].unsaved
          /\ h.after = req[r].after
      BY <1>1 DEF Held
    <3> HIDE DEF h
    <3>2. PlaceOK(h)
      BY <1>1, <1>3, <3>1 DEF PlaceOK, Pending
    <3>3. req[r].after \in Steps \ {"move", "score"}
      BY <1>1 DEF PlaceOK, Steps
    <3> QED
      BY <1>1, <1>2, <2>2, <3>2, <3>3, GoToSerial DEF h
  <2> QED
    BY <1>4, <2>1, <2>2 DEF Send
<1>5. CASE Assessed(r)
  <2> DEFINE a == req[r].app
  <2>1. \/ cand[a].stage = "assessment_scheduled" /\ Go(r, Moving(r, cand[a], "assessment_completed", "second"))
        \/ cand[a].stage = "assessment_completed" /\ Go(r, Moving(r, cand[a], "interview_scheduled", "idle"))
        \/ GoTo(r, "idle")
    BY <1>5, Zenon DEF Assessed
  <2>2. CASE GoTo(r, "idle")
    BY <1>1, <1>2, <2>2, IdleSerial, IdleType, HoldSerial DEF GoTo
  <2> QED
    BY <1>1, <1>2, <1>3, <2>1, <2>2, MovingSerial, Forward
<1>6. CASE AssessedSecond(r)
  <2>1. req[r].copy.stage = "assessment_completed"
    BY <1>1, <1>3, <1>6 DEF AssessedSecond, At, PlaceOK, CopyOK
  <2> QED
    BY <1>1, <1>2, <1>3, <1>6, <2>1, MovingSerial, Forward DEF AssessedSecond, CopyOK
<1> QED
  BY <1>4, <1>5, <1>6

LEMMA SerialNext ==
    ASSUME Serial, TypeInv, SerialInv, [Next]_vars
    PROVE  /\ SerialInv' /\ LegalMoves
           /\ \A r \in Requests : req[r].step = "siblings" /\ req'[r].step = "review" => SiblingsClosed(r)
<1> DEFINE Closed == \A r \in Requests : req[r].step = "siblings" /\ req'[r].step = "review" => SiblingsClosed(r)
<1>1. ASSUME cand' = cand PROVE LegalMoves
  BY <1>1 DEF LegalMoves
<1>2. ASSUME NEW r \in Requests, req[r].step # "siblings" \/ req'[r].step # "review" PROVE Closed
  BY <1>2 DEF Serial
<1>3. ASSUME NEW r \in Requests, Load(r) PROVE SerialInv' /\ LegalMoves /\ Closed
  <2>1. cand' = cand /\ req[r].step = "idle"
    BY <1>3 DEF Load, LoadMove, LoadResolve, LoadScreen, LoadSend, LoadAssessed, LoadInterviewed, Begin, At,
                OnlyRequest
  <2> QED
    BY <1>1, <1>2, <1>3, <2>1, LoadSerial
<1>4. ASSUME NEW r \in Requests, MoveSave(r) PROVE SerialInv' /\ LegalMoves /\ Closed
  <2>1. /\ req[r].app \in Apps /\ cand \in [Apps -> Applications]
        /\ req[r].step = "move"
    BY <1>4, AtWorkSerial DEF MoveSave, At
  <2>2. \A b \in Apps : cand'[b].stage = IF b = req[r].app THEN req[r].to ELSE cand[b].stage
    BY <1>4, <2>1 DEF MoveSave
  <2> QED
    BY <1>2, <1>4, <2>1, <2>2, MoveSaveSerial DEF LegalMoves
<1>5. ASSUME NEW r \in Requests, FindSiblings(r) \/ CloseSibling(r) PROVE SerialInv' /\ LegalMoves /\ Closed
  BY <1>5, SiblingsSerial DEF LegalMoves, Serial
<1>6. ASSUME NEW r \in Requests,
             FindItem(r) \/ CloseItem(r) \/ Unqueue(r) \/ Enqueue(r) \/ Invite(r) \/ AssessInvite(r) \/ CancelStale(r)
      PROVE  SerialInv' /\ LegalMoves /\ Closed
  <2>1. cand' = cand /\ req[r].step # "siblings"
    BY <1>6 DEF FindItem, CloseItem, Unqueue, Enqueue, Invite, AssessInvite, CancelStale, At, OnlyRequest
  <2> QED
    BY <1>1, <1>2, <1>6, <2>1, SatelliteSerial
<1>7. ASSUME NEW r \in Requests,
             Score(r) \/ OpenItem(r) \/ Park(r) \/ Record(r) \/ ResolveAdvance(r) \/ Settle(r)
      PROVE  SerialInv' /\ LegalMoves /\ Closed
  <2>1. req[r].step # "siblings"
    BY <1>7 DEF Score, OpenItem, Park, Record, ResolveAdvance, Settle, At
  <2> QED
    BY <1>2, <1>7, <2>1, ScreenSerial
<1>8. ASSUME NEW r \in Requests, Send(r) \/ Assessed(r) \/ AssessedSecond(r)
      PROVE  SerialInv' /\ LegalMoves /\ Closed
  <2>1. req[r].step # "siblings"
    BY <1>8 DEF Send, Assessed, AssessedSecond, At
  <2> QED
    BY <1>2, <1>8, <2>1, AssessedSerial
<1>9. ASSUME NEW r \in Requests, Fail(r) PROVE SerialInv' /\ LegalMoves /\ Closed
  <2>1. cand' = cand /\ Go(r, Idle) /\ req'[r] = Idle
    BY <1>9 DEF Fail, OnlyRequest, GoTo, Go, TypeInv, TypeOK
  <2> QED
    BY <1>1, <1>2, <2>1, IdleSerial, IdleType, HoldSerial
<1>10. CASE Elsewhere \/ UNCHANGED vars
  <2>1. cand' = cand /\ req' = req
    BY <1>10 DEF Elsewhere, CandidateBegins, Requeue, vars
  <2> QED
    BY <1>1, <2>1 DEF SerialInv, OfferOK, Decided, CopyOK, PlaceOK, SiblingsOK, Pending
<1> QED
  BY <1>3, <1>4, <1>5, <1>6, <1>7, <1>8, <1>9, <1>10 DEF Next, Proceed

LEMMA SerialInit == Init => SerialInv
<1> SUFFICES ASSUME Init PROVE SerialInv
  OBVIOUS
<1>1. \A a \in Apps : OfferOK(a) /\ (Decided(a) => cand[a].exit = None)
  BY DEF Init, OfferOK, Decided
<1>2. \A r \in Requests : req[r] = Idle
  BY DEF Init
<1> QED
  BY <1>1, <1>2, IdleSerial, IdleType DEF SerialInv

LEMMA SerialAlways == ASSUME Serial PROVE Spec => []SerialInv
<1>1. TypeInv /\ SerialInv /\ [Next]_vars => SerialInv'
  BY SerialNext
<1> QED
  BY <1>1, SerialInit, TypeInvAlways, PTL DEF Spec

\* While the handlers of one person do not overlap and no screening is repeated,
\* a stage only moves as canTransition says, on whatever copy and wherever a
\* handler died before.
THEOREM StagesMoveLegally == ASSUME Serial PROVE Spec => StageMovesAreLegal
<1>1. TypeInv /\ SerialInv /\ [Next]_vars =>
        [\A a \in Apps : cand'[a].stage # cand[a].stage => canTransition(cand[a].stage, cand'[a].stage)]_vars
  BY SerialNext DEF LegalMoves
<1> QED
  BY <1>1, SerialAlways, TypeInvAlways, PTL DEF Spec, StageMovesAreLegal

\* The offer of an application is that of its stage, and whoever was decided on
\* keeps their place on the board.
THEOREM DecisionsAreCoherent == ASSUME Serial PROVE Spec => []DecisionsCohere
<1>1. SerialInv => DecisionsCohere
  BY DEF SerialInv, OfferOK, Decided, DecisionsCohere, OfferMatchesStage, DecidedKeepTheirPlace
<1> QED
  BY <1>1, SerialAlways, PTL

\* Once a hire has closed the person's other applications, each of them is decided
\* on or marked as left for the other role.
THEOREM SiblingsAreClosed == ASSUME Serial PROVE Spec => HireClosesSiblings
<1>1. TypeInv /\ SerialInv /\ [Next]_vars =>
        [\A r \in Requests :
            (req[r].step = "siblings" /\ req'[r].step = "review") =>
                \A b \in Apps \ {req[r].app} : cand'[b].stage \in TERMINAL_STAGES \/ cand'[b].exit # None]_vars
  BY SerialNext DEF SiblingsClosed
<1> QED
  BY <1>1, SerialAlways, TypeInvAlways, PTL DEF Spec, HireClosesSiblings

-----------------------------------------------------------------------------
(* While no handler dies: the satellites                                   *)

\* No handler dies and nobody edits the interview queue by hand.
Undisturbed == Serial /\ ~Failures /\ "requeue" \notin Kinds

\* What a step may do to the applications it is not about.
OthersStay(a) ==
    \A b \in Apps \ {a} : /\ cand'[b].stage = cand[b].stage /\ review'[b] = review[b]
                          /\ queue'[b] = queue[b] /\ (b \in invited' <=> b \in invited)

\* The open item is resolved, and no other.
LEMMA DecidedItem ==
    ASSUME review \in [Apps -> Items], NEW a \in Apps, NEW d, Decide(a, review[a].n, d)
    PROVE  /\ ~review'[a].open /\ review'[a].decision = d /\ review'[a].n = review[a].n
           /\ \A b \in Apps \ {a} : review'[b] = review[b]
BY DEF Decide, Items

\* A handler is of one application; its step keeps the satellites if it keeps
\* those of that one.
LEMMA FollowsOn ==
    ASSUME Serial, TypeInv, SatelliteInv, NEW r \in Requests, NEW a \in Apps, NEW k, Go(r, k),
           req[r].step = "idle" \/ req[r].app = a, k = Idle \/ (k.step # "idle" /\ k.app = a),
           OthersStay(a), Follows(a, k)'
    PROVE  SatelliteInv'
<1>1. \A q \in Requests : q = r /\ req'[q] = k
  BY DEF Serial, Go, TypeInv, TypeOK
<1>2. ASSUME NEW q \in Requests
      PROVE  (IF req[q].step = "idle" THEN req[q] = Idle ELSE Follows(req[q].app, req[q]))'
  BY <1>1, IdleType DEF Follows, LabelOK, Turning, WaitingOK, Deciding, HandlerOK, Pending
<1>3. ASSUME NEW b \in Apps, \A q \in Requests : req'[q].step = "idle" \/ req'[q].app # b
      PROVE  Follows(b, Idle)'
  <2>1. CASE b = a
    BY <1>1, <1>3, <2>1 DEF Follows, LabelOK, Turning, WaitingOK, Deciding, HandlerOK, Pending
  <2>2. CASE b # a
    <3>1. Follows(b, Idle)
      BY <1>1, <2>2 DEF SatelliteInv
    <3>2. /\ cand'[b].stage = cand[b].stage /\ review'[b] = review[b]
          /\ queue'[b] = queue[b] /\ (b \in invited' <=> b \in invited)
      BY <2>2 DEF OthersStay
    <3> QED
      BY <3>1, <3>2, IdleType DEF Follows, LabelOK, Turning, WaitingOK, Deciding, Pending
  <2> QED
    BY <2>1, <2>2
<1> QED
  BY <1>2, <1>3 DEF SatelliteInv

\* What a handler holds beside its copy.
SameBut(k, h, s) ==
    /\ k.step = s /\ k.app = h.app /\ k.kind = h.kind /\ k.to = h.to
    /\ k.unsaved = h.unsaved /\ k.item = h.item /\ k.after = h.after

LEMMA GoToHolds ==
    ASSUME TypeInv, NEW r \in Requests, NEW s, GoTo(r, s)
    PROVE  \E k : Go(r, k) /\ IF s = "idle" THEN k = Idle ELSE SameBut(k, req[r], s)
<1>1. req[r] \in Held
  BY DEF TypeInv, TypeOK
<1> DEFINE h == [req[r] EXCEPT !.step = s]
<1>2. SameBut(h, req[r], s)
  BY <1>1 DEF SameBut, Held
<1>3. CASE s = "idle"
  BY <1>3 DEF GoTo
<1>4. CASE s # "idle"
  <2>1. Go(r, h)
    BY <1>4 DEF GoTo
  <2> HIDE DEF h
  <2> QED
    BY <1>2, <1>4, <2>1
<1> QED
  BY <1>3, <1>4

LEMMA AtWorkFollows ==
    ASSUME TypeInv, SerialInv, SatelliteInv, NEW r \in Requests, req[r].step # "idle"
    PROVE  /\ Follows(req[r].app, req[r]) /\ req[r].app \in Apps /\ req[r] \in Held /\ PlaceOK(req[r])
           /\ req[r].step # "settle" => CopyOK(req[r])
           /\ cand \in [Apps -> Applications] /\ review \in [Apps -> Items]
           /\ queue \in [Apps -> {"none", "queued", "removed"}] /\ invited \subseteq Apps
BY AtWorkSerial DEF SatelliteInv, TypeInv, TypeOK

\* A step that changes only where the handler is, or only the assessment.
LEMMA OnFollows ==
    ASSUME Serial, TypeInv, SerialInv, SatelliteInv, NEW r \in Requests, req[r].step # "idle", NEW s, GoTo(r, s),
           UNCHANGED <<cand, review, queue, invited>>,
           \A k : (IF s = "idle" THEN k = Idle ELSE SameBut(k, req[r], s)) => Follows(req[r].app, k)
    PROVE  SatelliteInv'
<1>1. PICK k : Go(r, k) /\ IF s = "idle" THEN k = Idle ELSE SameBut(k, req[r], s)
  BY GoToHolds
<1>2. PICK a \in Apps : a = req[r].app
  BY AtWorkFollows
<1>3. Follows(a, k)
  BY <1>1, <1>2
<1>4. Follows(a, k)'
  BY <1>3 DEF Follows, LabelOK, Turning, WaitingOK, Deciding, HandlerOK, Pending
<1> QED
  BY <1>1, <1>2, <1>4, FollowsOn DEF OthersStay, SameBut

LEMMA LoadFollows ==
    ASSUME Undisturbed, TypeInv, SerialInv, SatelliteInv, NEW r \in Requests, Load(r)
    PROVE  SatelliteInv'
<1>1. ASSUME NEW a \in Apps, NEW k, Go(r, k), req[r].step = "idle", UNCHANGED <<cand, review, queue, invited>>,
             k.app = a, k.unsaved = None,
             \/ k.step = "move" /\ k.kind # "resolve" /\ k.after = "idle"
             \/ k.step = "move" /\ k.kind = "resolve" /\ k.after = "settle" /\ k.item = review[a].n
             \/ k.step = "advance" /\ k.kind = "resolve" /\ k.item = review[a].n /\ review[a].open /\ k.to = None
                /\ k.after = "idle"
             \/ k.step = "score" /\ k.kind = "screen" /\ cand[a].stage = "applied" /\ ~review[a].open
                /\ k.after = "idle"
             \/ k.step \in {"send", "finished"} /\ k.kind \notin {"resolve", "screen"} /\ k.after = "idle"
      PROVE  SatelliteInv'
  <2>1. Follows(a, Idle)
    BY <1>1 DEF SatelliteInv, Undisturbed, Serial
  <2>2. Follows(a, k)'
    BY <1>1, <2>1, IdleType DEF Follows, LabelOK, Turning, WaitingOK, Deciding, HandlerOK, Pending, Idle
  <2> QED
    BY <1>1, <2>2, FollowsOn DEF OthersStay, Undisturbed
<1>2. ASSUME NEW a \in Apps, NEW to \in Targets, LoadMove(r, a, to) PROVE SatelliteInv'
  <2> DEFINE h == [Idle EXCEPT !.step = "move", !.kind = "move", !.app = a, !.copy = cand[a], !.to = to]
  <2>1. h.step = "move" /\ h.kind = "move" /\ h.app = a /\ h.unsaved = None /\ h.after = "idle"
    BY DEF Idle
  <2>2. Go(r, h) /\ req[r].step = "idle" /\ UNCHANGED <<cand, review, queue, invited>>
    BY <1>2 DEF LoadMove, OnlyRequest, At
  <2> HIDE DEF h
  <2> QED
    BY <1>1, <2>1, <2>2
<1>3. ASSUME NEW a \in Apps, LoadInterviewed(r, a) PROVE SatelliteInv'
  <2> DEFINE h == [Idle EXCEPT !.step = "move", !.kind = "interviewed", !.app = a, !.copy = cand[a],
                               !.to = "ai_interview_completed"]
  <2>1. h.step = "move" /\ h.kind = "interviewed" /\ h.app = a /\ h.unsaved = None /\ h.after = "idle"
    BY DEF Idle
  <2>2. Go(r, h) /\ req[r].step = "idle" /\ UNCHANGED <<cand, review, queue, invited>>
    BY <1>3 DEF LoadInterviewed, OnlyRequest, At
  <2> HIDE DEF h
  <2> QED
    BY <1>1, <2>1, <2>2
<1>4. ASSUME NEW a \in Apps, NEW d \in Decisions, LoadResolve(r, a, d) PROVE SatelliteInv'
  <2> DEFINE h == [Idle EXCEPT !.kind = "resolve", !.app = a, !.copy = cand[a], !.item = review[a].n]
             advance == [h EXCEPT !.step = "advance"]
             decline == [h EXCEPT !.step = "move", !.to = "rejected", !.after = "settle"]
  <2>1. /\ advance.step = "advance" /\ advance.kind = "resolve" /\ advance.app = a /\ advance.to = None
        /\ advance.unsaved = None /\ advance.item = review[a].n /\ advance.after = "idle"
        /\ decline.step = "move" /\ decline.kind = "resolve" /\ decline.app = a
        /\ decline.unsaved = None /\ decline.item = review[a].n /\ decline.after = "settle"
    BY DEF Idle
  <2>2. Go(r, advance) \/ Go(r, decline)
    BY <1>4 DEF LoadResolve
  <2>3. req[r].step = "idle" /\ review[a].open /\ UNCHANGED <<cand, review, queue, invited>>
    BY <1>4 DEF LoadResolve, OnlyRequest, At
  <2> HIDE DEF advance, decline
  <2> QED
    BY <1>1, <2>1, <2>2, <2>3
<1>5. ASSUME NEW a \in Apps, NEW kind \in {"screen", "send", "assessed"},
             NEW step \in {"score", "send", "finished"}, Begin(r, kind, a, step),
             UNCHANGED <<cand, review, queue, invited>>,
             step = "score" => kind = "screen" /\ cand[a].stage = "applied" /\ ~review[a].open,
             step # "score" => kind # "screen"
      PROVE  SatelliteInv'
  <2> DEFINE h == [Idle EXCEPT !.step = step, !.kind = kind, !.app = a, !.copy = cand[a]]
  <2>1. h.step = step /\ h.kind = kind /\ h.app = a /\ h.unsaved = None /\ h.after = "idle"
    BY DEF Idle
  <2>2. Go(r, h) /\ req[r].step = "idle"
    BY <1>5 DEF Begin, At
  <2> HIDE DEF h
  <2> QED
    BY <1>1, <1>5, <2>1, <2>2
<1>6. ASSUME NEW a \in Apps, LoadScreen(r, a) PROVE SatelliteInv'
  <2>1. review[a].n = 0 /\ cand[a].stage = "applied" /\ req[r].step = "idle"
    BY <1>6 DEF LoadScreen, Undisturbed, Serial, Begin, At
  <2>2. Follows(a, Idle)
    BY <2>1 DEF SatelliteInv, Undisturbed, Serial
  <2> QED
    BY <1>5, <1>6, <2>1, <2>2 DEF LoadScreen, OnlyRequest, Follows, LabelOK
<1>7. ASSUME NEW a \in Apps, LoadSend(r, a) \/ LoadAssessed(r, a) PROVE SatelliteInv'
  BY <1>5, <1>7 DEF LoadSend, LoadAssessed, OnlyRequest
<1> QED
  BY <1>2, <1>3, <1>4, <1>6, <1>7 DEF Load

\* A step on the application a handler has, that goes on to s.
LEMMA StepFollows ==
    ASSUME Serial, TypeInv, SerialInv, SatelliteInv, NEW r \in Requests, req[r].step # "idle",
           NEW a \in Apps, a = req[r].app, OthersStay(a), NEW s, GoTo(r, s),
           \A k : (IF s = "idle" THEN k = Idle ELSE SameBut(k, req[r], s)) => Follows(a, k)'
    PROVE  SatelliteInv'
<1>1. PICK k : Go(r, k) /\ IF s = "idle" THEN k = Idle ELSE SameBut(k, req[r], s)
  BY GoToHolds
<1> QED
  BY <1>1, FollowsOn DEF SameBut

LEMMA MoveSaveFollows ==
    ASSUME Serial, TypeInv, SerialInv, SatelliteInv, NEW r \in Requests, MoveSave(r)
    PROVE  SatelliteInv'
<1> DEFINE h == req[r]
           copy == [h.copy EXCEPT !.stage = h.to]
           next == IF h.to = "joined" THEN "siblings" ELSE "review"
           held == [h EXCEPT !.step = next, !.copy = copy]
<1>1. h.step = "move" /\ Go(r, held) /\ UNCHANGED <<review, queue, invited>>
  BY DEF MoveSave, At
<1>2. PICK a \in Apps : a = req[r].app
  BY <1>1, AtWorkFollows
<1>3. /\ Follows(a, h) /\ h \in Held /\ CopyOK(h) /\ PlaceOK(h) /\ cand \in [Apps -> Applications]
      /\ h.to \in ValidStages
  BY <1>1, <1>2, AtWorkFollows DEF TypeInv, Sound
<1>4. SameBut(held, h, next) /\ next \in {"siblings", "review"}
  BY <1>3 DEF SameBut, Held
<1>5. cand'[a].stage = h.to /\ \A b \in Apps \ {a} : cand'[b] = cand[b]
  BY <1>2, <1>3 DEF MoveSave
<1>6. cand[a].stage \notin TERMINAL_STAGES
  BY <1>1, <1>2, <1>3, FromOffer DEF CopyOK, Applications
<1> HIDE DEF held, copy, next
<1>7. PICK k : k = held
  OBVIOUS
<1>8. Follows(a, k)'
  BY <1>1, <1>2, <1>3, <1>4, <1>5, <1>6, <1>7
     DEF Follows, LabelOK, Turning, WaitingOK, Deciding, HandlerOK, Pending, SameBut, TERMINAL_STAGES, REJECTED, CopyOK, PlaceOK
<1> QED
  BY <1>1, <1>2, <1>4, <1>5, <1>7, <1>8, FollowsOn DEF OthersStay, SameBut

LEMMA SiblingsFollow ==
    ASSUME Serial, TypeInv, SerialInv, SatelliteInv, NEW r \in Requests, FindSiblings(r) \/ CloseSibling(r)
    PROVE  SatelliteInv'
<1>1. /\ req[r].step = "siblings" /\ UNCHANGED <<review, queue, invited>>
      /\ \A b \in Apps : cand'[b].stage = cand[b].stage
  BY SiblingsSerial DEF FindSiblings, CloseSibling, At, OnlyRequest
<1>2. PICK a \in Apps : a = req[r].app
  BY <1>1, AtWorkFollows
<1>3. Follows(a, req[r]) /\ req[r] \in Held /\ PlaceOK(req[r])
  BY <1>1, <1>2, AtWorkFollows
<1>4. \E k : Go(r, k) /\ (SameBut(k, req[r], "siblings") \/ SameBut(k, req[r], "review"))
  <2>1. ASSUME NEW rest, NEW s \in {"siblings", "review"}, Go(r, [req[r] EXCEPT !.siblings = rest, !.step = s])
        PROVE  \E k : Go(r, k) /\ (SameBut(k, req[r], "siblings") \/ SameBut(k, req[r], "review"))
    <3> DEFINE h == [req[r] EXCEPT !.siblings = rest, !.step = s]
    <3>1. SameBut(h, req[r], s)
      BY <1>3 DEF SameBut, Held
    <3> HIDE DEF h
    <3> QED
      BY <2>1, <3>1 DEF h
  <2>2. CASE FindSiblings(r)
    BY <1>1, <2>1, <2>2 DEF FindSiblings
  <2>3. CASE CloseSibling(r)
    BY <1>1, <2>1, <2>3 DEF CloseSibling
  <2> QED
    BY <2>2, <2>3
<1>5. PICK k : Go(r, k) /\ (SameBut(k, req[r], "siblings") \/ SameBut(k, req[r], "review"))
  BY <1>4
<1>6. Follows(a, k)'
  BY <1>1, <1>2, <1>3, <1>5 DEF Follows, LabelOK, Turning, WaitingOK, Deciding, HandlerOK, Pending, SameBut, PlaceOK
<1> QED
  BY <1>1, <1>2, <1>5, <1>6, FollowsOn DEF OthersStay, SameBut

LEMMA SatelliteFollows ==
    ASSUME Serial, TypeInv, SerialInv, SatelliteInv, NEW r \in Requests,
           FindItem(r) \/ CloseItem(r) \/ Unqueue(r) \/ Enqueue(r) \/ Invite(r) \/ AssessInvite(r) \/ CancelStale(r)
    PROVE  SatelliteInv'
<1>1. req[r].step \in {"review", "close", "unqueue", "enqueue", "invite", "assess", "stale"} /\ cand' = cand
  BY DEF FindItem, CloseItem, Unqueue, Enqueue, Invite, AssessInvite, CancelStale, At, OnlyRequest
<1>2. PICK a \in Apps : a = req[r].app
  BY <1>1, AtWorkFollows
<1>3. /\ Follows(a, req[r]) /\ req[r] \in Held /\ PlaceOK(req[r]) /\ CopyOK(req[r])
      /\ review \in [Apps -> Items] /\ queue \in [Apps -> {"none", "queued", "removed"}]
  BY <1>1, <1>2, AtWorkFollows
<1> USE DEF Follows, LabelOK, Turning, WaitingOK, Deciding, HandlerOK, Pending
<1>4. CASE FindItem(r)
  <2>1. CASE review[a].open
    <3> DEFINE h == [req[r] EXCEPT !.step = "close", !.item = review[a].n]
    <3>1. /\ h.step = "close" /\ h.app = a /\ h.kind = req[r].kind /\ h.to = req[r].to
          /\ h.unsaved = req[r].unsaved /\ h.item = review[a].n /\ h.after = req[r].after
      BY <1>2, <1>3 DEF Held
    <3>2. Go(r, h) /\ req[r].step = "review" /\ UNCHANGED <<review, queue, invited>>
      BY <1>2, <1>4, <2>1 DEF FindItem, At, OnlyRequest
    <3> HIDE DEF h
    <3>3. PICK k : k = h
      OBVIOUS
    <3>4. Follows(a, k)'
      BY <1>1, <1>2, <1>3, <3>1, <3>2, <3>3 DEF PlaceOK
    <3> QED
      BY <1>1, <1>2, <3>1, <3>2, <3>3, <3>4, FollowsOn DEF OthersStay
  <2>2. CASE ~review[a].open
    <3>1. GoTo(r, Onward(req[r].to)) /\ req[r].step = "review" /\ UNCHANGED <<review, queue, invited>>
      BY <1>2, <1>4, <2>2 DEF FindItem, At, OnlyRequest
    <3>2. \A k : SameBut(k, req[r], Onward(req[r].to)) => Follows(a, k)'
      BY <1>1, <1>2, <1>3, <2>2, <3>1 DEF PlaceOK, SameBut, Onward
    <3> QED
      BY <1>1, <1>2, <3>1, <3>2, StepFollows DEF OthersStay, Onward
  <2> QED
    BY <2>1, <2>2
<1>5. CASE CloseItem(r)
  <2> DEFINE d == IF req[r].to = "rejected" THEN "decline" ELSE "advance"
  <2>1. /\ GoTo(r, Onward(req[r].to)) /\ req[r].step = "close" /\ UNCHANGED <<queue, invited>>
        /\ req[r].item = review[a].n
    BY <1>2, <1>3, <1>5 DEF CloseItem, At
  <2>2. /\ ~review'[a].open /\ review'[a].decision = d /\ review'[a].n = review[a].n
        /\ \A b \in Apps \ {a} : review'[b] = review[b]
    <3>1. Decide(a, review[a].n, d)
      BY <1>2, <1>5, <2>1 DEF CloseItem
    <3> HIDE DEF d
    <3> QED
      BY <1>3, <3>1, DecidedItem
  <2>3. \A k : SameBut(k, req[r], Onward(req[r].to)) => Follows(a, k)'
    BY <1>1, <1>2, <1>3, <2>1, <2>2 DEF PlaceOK, SameBut, Onward
  <2>4. OthersStay(a) /\ Onward(req[r].to) # "idle" /\ req[r].step # "idle"
    BY <1>1, <2>1, <2>2 DEF OthersStay, Onward
  <2>5. PICK s : s = Onward(req[r].to)
    OBVIOUS
  <2>6. GoTo(r, s) /\ s # "idle" /\ \A k : SameBut(k, req[r], s) => Follows(a, k)'
    BY <2>1, <2>3, <2>4, <2>5
  <2> QED
    BY <1>2, <2>4, <2>6, StepFollows
<1>6. CASE Unqueue(r)
  <2>1. /\ req[r].step = "unqueue" /\ UNCHANGED <<review, invited>>
        /\ queue'[a] # "queued" /\ \A b \in Apps \ {a} : queue'[b] = queue[b]
    BY <1>2, <1>3, <1>6 DEF Unqueue, At
  <2>2. PICK s \in {"assess", "stale", req[r].after} : GoTo(r, s)
    BY <1>6 DEF Unqueue
  <2>3. \A k : (IF s = "idle" THEN k = Idle ELSE SameBut(k, req[r], s)) => Follows(a, k)'
    BY <1>1, <1>2, <1>3, <2>1, <2>2, StageNames DEF PlaceOK, SameBut, Idle
  <2> QED
    BY <1>1, <1>2, <2>1, <2>2, <2>3, StepFollows DEF OthersStay
<1>7. CASE Enqueue(r)
  <2>1. /\ req[r].step = "enqueue" /\ UNCHANGED <<review, invited>> /\ GoTo(r, "invite")
        /\ queue'[a] = "queued" /\ \A b \in Apps \ {a} : queue'[b] = queue[b]
    BY <1>2, <1>3, <1>7 DEF Enqueue, At
  <2>2. \A k : SameBut(k, req[r], "invite") => Follows(a, k)'
    BY <1>1, <1>2, <1>3, <2>1 DEF PlaceOK, SameBut
  <2> QED
    BY <1>1, <1>2, <2>1, <2>2, StepFollows DEF OthersStay
<1>8. CASE Invite(r)
  <2> DEFINE s == IF req[r].to = None THEN "record" ELSE "stale"
  <2>1. /\ req[r].step = "invite" /\ UNCHANGED <<review, queue>> /\ GoTo(r, s)
        /\ a \in invited' /\ \A b \in Apps \ {a} : b \in invited' <=> b \in invited
    BY <1>2, <1>3, <1>8 DEF Invite, At
  <2>2. \A k : SameBut(k, req[r], s) => Follows(a, k)'
    BY <1>1, <1>2, <1>3, <2>1, StageNames DEF PlaceOK, SameBut
  <2> QED
    BY <1>1, <1>2, <2>1, <2>2, StepFollows DEF OthersStay
<1>9. CASE AssessInvite(r) \/ CancelStale(r)
  <2>1. /\ req[r].step \in {"assess", "stale"} /\ UNCHANGED <<cand, review, queue, invited>>
        /\ GoTo(r, req[r].after)
    BY <1>9 DEF AssessInvite, CancelStale, At
  <2>2. \A k : (IF req[r].after = "idle" THEN k = Idle ELSE SameBut(k, req[r], req[r].after)) => Follows(a, k)
    BY <1>2, <1>3, <2>1, StageNames DEF PlaceOK, SameBut, Idle
  <2> QED
    BY <1>2, <2>1, <2>2, OnFollows
<1> QED
  BY <1>4, <1>5, <1>6, <1>7, <1>8, <1>9

LEMMA PassOnFollows ==
    ASSUME Serial, TypeInv, SerialInv, SatelliteInv, NEW r \in Requests, req[r].step \in {"score", "advance"},
           PassOn(r), UNCHANGED <<cand, review, queue, invited>>
    PROVE  SatelliteInv'
<1>1. PICK a \in Apps : a = req[r].app
  BY AtWorkFollows
<1>2. /\ Follows(a, req[r]) /\ req[r] \in Held /\ PlaceOK(req[r]) /\ CopyOK(req[r])
  BY <1>1, AtWorkFollows
<1>3. CASE Policy[a] # "off"
  <2>1. GoTo(r, "park")
    BY <1>1, <1>3 DEF PassOn
  <2>2. \A k : SameBut(k, req[r], "park") => Follows(a, k)
    BY <1>1, <1>2, StageNames DEF PlaceOK, SameBut, Follows, LabelOK, Turning, WaitingOK, Deciding, HandlerOK, Pending
  <2> QED
    BY <1>1, <2>1, <2>2, OnFollows
<1>4. CASE Policy[a] = "off"
  <2> DEFINE h == [req[r] EXCEPT !.step = "enqueue", !.unsaved = "interview_scheduled"]
  <2>1. /\ h.step = "enqueue" /\ h.app = a /\ h.kind = req[r].kind /\ h.to = req[r].to
        /\ h.unsaved = "interview_scheduled" /\ h.item = req[r].item /\ h.after = req[r].after
    BY <1>1, <1>2 DEF Held
  <2>2. req[r].copy.stage = "applied"
    BY <1>1, <1>2 DEF Follows, HandlerOK, CopyOK
  <2>3. Go(r, h)
    BY <1>1, <1>4, <2>2 DEF PassOn
  <2> HIDE DEF h
  <2>4. PICK k : k = h
    OBVIOUS
  <2>5. Follows(a, k)'
    BY <1>1, <1>2, <2>1, <2>4, StageNames
       DEF PlaceOK, Follows, LabelOK, Turning, WaitingOK, Deciding, HandlerOK, Pending
  <2> QED
    BY <1>1, <2>1, <2>3, <2>4, <2>5, FollowsOn DEF OthersStay
<1> QED
  BY <1>3, <1>4

LEMMA ScreenFollows ==
    ASSUME Serial, TypeInv, SerialInv, SatelliteInv, NEW r \in Requests,
           Score(r) \/ OpenItem(r) \/ Park(r) \/ Record(r) \/ ResolveAdvance(r) \/ Settle(r)
    PROVE  SatelliteInv'
<1>1. req[r].step # "idle"
  BY DEF Score, OpenItem, Park, Record, ResolveAdvance, Settle, At
<1>2. PICK a \in Apps : a = req[r].app
  BY <1>1, AtWorkFollows
<1>3. /\ Follows(a, req[r]) /\ req[r] \in Held /\ PlaceOK(req[r]) /\ (req[r].step # "settle" => CopyOK(req[r]))
      /\ cand \in [Apps -> Applications] /\ review \in [Apps -> Items]
  BY <1>1, <1>2, AtWorkFollows
<1>4. CASE Score(r)
  <2>1. req[r].step = "score" /\ UNCHANGED <<cand, review, queue, invited>>
    BY <1>4 DEF Score, At, OnlyRequest
  <2>2. CASE GoTo(r, "open")
    <3>1. \A k : SameBut(k, req[r], "open") => Follows(a, k)
      BY <1>2, <1>3, <2>1, StageNames
         DEF PlaceOK, SameBut, Follows, LabelOK, Turning, WaitingOK, Deciding, HandlerOK, Pending
    <3> QED
      BY <1>1, <1>2, <2>1, <2>2, <3>1, OnFollows
  <2>3. ASSUME NEW u \in {None, "rejected"}, Go(r, [req[r] EXCEPT !.step = "record", !.unsaved = u])
        PROVE  SatelliteInv'
    <3> DEFINE h == [req[r] EXCEPT !.step = "record", !.unsaved = u]
    <3>1. /\ h.step = "record" /\ h.app = a /\ h.kind = req[r].kind /\ h.to = req[r].to
          /\ h.unsaved = u /\ h.item = req[r].item /\ h.after = req[r].after
      BY <1>2, <1>3 DEF Held
    <3>2. Go(r, h)
      BY <2>3
    <3> HIDE DEF h
    <3>3. PICK k : k = h
      OBVIOUS
    <3>4. Follows(a, k)'
      BY <1>2, <1>3, <2>1, <3>1, <3>3, StageNames
         DEF PlaceOK, Follows, LabelOK, Turning, WaitingOK, Deciding, HandlerOK, Pending
    <3> QED
      BY <1>1, <1>2, <2>1, <3>1, <3>2, <3>3, <3>4, FollowsOn DEF OthersStay
  <2> QED
    BY <1>4, <2>1, <2>2, <2>3, PassOnFollows DEF Score
<1>5. CASE OpenItem(r)
  <2>1. /\ req[r].step = "open" /\ GoTo(r, "record") /\ UNCHANGED <<cand, queue, invited>>
        /\ \A b \in Apps \ {a} : review'[b] = review[b]
    BY <1>2, <1>3, <1>5 DEF OpenItem, At
  <2>2. review'[a].open /\ review'[a].n # 0 /\ (review'[a].decision = review[a].decision \/ review'[a].decision = None)
    BY <1>2, <1>3, <1>5 DEF OpenItem, Items, Follows, LabelOK
  <2>3. \A k : SameBut(k, req[r], "record") => Follows(a, k)'
    BY <1>2, <1>3, <2>1, <2>2, StageNames
       DEF PlaceOK, SameBut, Follows, LabelOK, Turning, WaitingOK, Deciding, HandlerOK, Pending
  <2> QED
    BY <1>1, <1>2, <2>1, <2>3, StepFollows DEF OthersStay
<1>6. CASE Park(r)
  <2> DEFINE next == IF Policy[req[r].app] = "auto" /\ PaperReady THEN "send" ELSE "record"
             stage == IF req[r].copy.stage = "applied" THEN "ats_passed" ELSE req[r].copy.stage
             copy == [req[r].copy EXCEPT !.stage = stage]
             h == [req[r] EXCEPT !.copy = copy, !.step = next, !.after = "record"]
  <2>1. Go(r, h) /\ req[r].step = "park" /\ UNCHANGED <<review, queue, invited>>
    BY <1>6 DEF Park, At
  <2>2. /\ h.step = next /\ h.app = a /\ h.kind = req[r].kind /\ h.to = req[r].to
        /\ h.unsaved = req[r].unsaved /\ h.item = req[r].item /\ h.after = "record" /\ next \in {"send", "record"}
    BY <1>2, <1>3 DEF Held
  <2>3. /\ \A b \in Apps \ {a} : cand'[b].stage = cand[b].stage
        /\ cand'[a].stage = cand[a].stage \/ (cand[a].stage = "applied" /\ cand'[a].stage = "ats_passed")
    BY <1>2, <1>3, <1>6, <2>1 DEF Park, CopyOK, Applications
  <2> HIDE DEF h, next, copy, stage
  <2>4. PICK k : k = h
    OBVIOUS
  <2>5. Follows(a, k)'
    BY <1>2, <1>3, <2>1, <2>2, <2>3, <2>4, StageNames
       DEF PlaceOK, Follows, LabelOK, Turning, WaitingOK, Deciding, HandlerOK, Pending
  <2> QED
    BY <1>1, <1>2, <2>1, <2>2, <2>3, <2>4, <2>5, FollowsOn DEF OthersStay
<1>7. CASE Record(r)
  <2> DEFINE s == IF req[r].kind = "resolve" THEN "settle" ELSE "idle"
  <2>1. GoTo(r, s) /\ req[r].step = "record" /\ UNCHANGED <<review, queue, invited>>
    BY <1>7 DEF Record, At
  <2>2. /\ \A b \in Apps \ {a} : cand'[b].stage = cand[b].stage
        /\ cand'[a].stage = IF req[r].unsaved = None THEN cand[a].stage ELSE req[r].unsaved
    BY <1>2, <1>3, <1>7 DEF Record, Applications
  <2>3. \A k : (IF s = "idle" THEN k = Idle ELSE SameBut(k, req[r], s)) => Follows(a, k)'
    BY <1>2, <1>3, <2>1, <2>2, StageNames
       DEF PlaceOK, CopyOK, SameBut, Idle, Follows, LabelOK, Turning, WaitingOK, Deciding, HandlerOK, Pending
  <2> QED
    BY <1>1, <1>2, <2>1, <2>2, <2>3, StepFollows DEF OthersStay
<1>8. CASE ResolveAdvance(r)
  BY <1>8, PassOnFollows DEF ResolveAdvance, At, OnlyRequest
<1>9. CASE Settle(r)
  <2> DEFINE d == IF req[r].to = "rejected" THEN "decline" ELSE "advance"
  <2>1. /\ GoTo(r, "idle") /\ req[r].step = "settle" /\ UNCHANGED <<cand, queue, invited>>
        /\ req[r].item = review[a].n
    BY <1>2, <1>3, <1>9 DEF Settle, At, Follows, HandlerOK
  <2>2. /\ ~review'[a].open /\ review'[a].decision = d /\ review'[a].n = review[a].n
        /\ \A b \in Apps \ {a} : review'[b] = review[b]
    <3>1. Decide(a, review[a].n, d)
      BY <1>2, <1>9, <2>1 DEF Settle
    <3> HIDE DEF d
    <3> QED
      BY <1>3, <3>1, DecidedItem
  <2>3. Follows(a, Idle)'
    BY <1>2, <1>3, <2>1, <2>2, StageNames
       DEF PlaceOK, Idle, Follows, LabelOK, Turning, WaitingOK, Deciding, HandlerOK, Pending
  <2> QED
    BY <1>1, <1>2, <2>1, <2>2, <2>3, StepFollows DEF OthersStay
<1> QED
  BY <1>4, <1>5, <1>6, <1>7, <1>8, <1>9

LEMMA AssessedFollows ==
    ASSUME Serial, TypeInv, SerialInv, SatelliteInv, NEW r \in Requests, Send(r) \/ Assessed(r) \/ AssessedSecond(r)
    PROVE  SatelliteInv'
<1>1. req[r].step \in {"send", "finished", "second"} /\ UNCHANGED <<cand, review, queue, invited>>
  BY DEF Send, Assessed, AssessedSecond, At, OnlyRequest
<1>2. PICK a \in Apps : a = req[r].app
  BY <1>1, AtWorkFollows
<1>3. Follows(a, req[r]) /\ req[r] \in Held /\ PlaceOK(req[r])
  BY <1>1, <1>2, AtWorkFollows
<1>4. ASSUME NEW copy, NEW to \in ValidStages, NEW after, Go(r, Moving(r, copy, to, after)),
             after = req[r].after \/ (req[r].kind # "resolve" /\ after \in {"second", "idle"})
      PROVE  SatelliteInv'
  <2> DEFINE h == Moving(r, copy, to, after)
  <2>1. /\ h.step = "move" /\ h.app = a /\ h.kind = req[r].kind /\ h.to = to
        /\ h.unsaved = req[r].unsaved /\ h.item = req[r].item /\ h.after = after
    BY <1>2, <1>3 DEF Held, Moving
  <2> HIDE DEF h
  <2>2. PICK k : k = h
    OBVIOUS
  <2>3. Follows(a, k)'
    BY <1>1, <1>2, <1>3, <1>4, <2>1, <2>2, StageNames
       DEF PlaceOK, Follows, LabelOK, Turning, WaitingOK, Deciding, HandlerOK, Pending
  <2> QED
    BY <1>1, <1>2, <1>4, <2>1, <2>2, <2>3, FollowsOn DEF OthersStay, h
<1>5. ASSUME NEW s \in {"idle", req[r].after}, GoTo(r, s), s = "idle" => req[r].kind # "resolve"
      PROVE  SatelliteInv'
  <2>1. \A k : (IF s = "idle" THEN k = Idle ELSE SameBut(k, req[r], s)) => Follows(a, k)
    BY <1>1, <1>2, <1>3, <1>5, StageNames
       DEF PlaceOK, SameBut, Idle, Follows, LabelOK, Turning, WaitingOK, Deciding, HandlerOK, Pending
  <2> QED
    BY <1>1, <1>2, <1>5, <2>1, OnFollows
<1>6. {"assessment_scheduled", "assessment_completed", "interview_scheduled"} \subseteq ValidStages
  BY StageNames
<1>7. CASE Send(r)
  <2>1. req[r].after = "idle" => req[r].kind # "resolve"
    BY <1>3, <1>7 DEF Send, At, Follows, HandlerOK
  <2> QED
    BY <1>4, <1>5, <1>6, <1>7, <2>1 DEF Send
<1>8. CASE Assessed(r)
  <2>1. \/ Go(r, Moving(r, cand[req[r].app], "assessment_completed", "second"))
        \/ Go(r, Moving(r, cand[req[r].app], "interview_scheduled", "idle"))
        \/ GoTo(r, "idle")
    BY <1>8, Zenon DEF Assessed
  <2>2. req[r].kind # "resolve"
    BY <1>3, <1>8 DEF Assessed, At, Follows, HandlerOK
  <2> QED
    BY <1>4, <1>5, <1>6, <2>1, <2>2
<1>9. CASE AssessedSecond(r)
  <2>1. req[r].kind # "resolve"
    BY <1>3, <1>9 DEF AssessedSecond, At, Follows, HandlerOK
  <2> QED
    BY <1>4, <1>6, <1>9, <2>1 DEF AssessedSecond
<1> QED
  BY <1>7, <1>8, <1>9

LEMMA SatelliteNext ==
    ASSUME Undisturbed, TypeInv, SerialInv, SatelliteInv, [Next]_vars
    PROVE  SatelliteInv'
<1>1. Serial
  BY DEF Undisturbed
<1>2. ASSUME NEW r \in Requests, Load(r) PROVE SatelliteInv'
  BY <1>2, LoadFollows
<1>3. ASSUME NEW r \in Requests, Proceed(r) PROVE SatelliteInv'
  BY <1>1, <1>3, MoveSaveFollows, SiblingsFollow, SatelliteFollows, ScreenFollows, AssessedFollows DEF Proceed
<1>4. ASSUME NEW r \in Requests, Fail(r) PROVE SatelliteInv'
  BY <1>4 DEF Fail, Undisturbed
<1>5. CASE Elsewhere \/ UNCHANGED vars
  <2>1. UNCHANGED <<cand, review, queue, invited, req>>
    BY <1>5 DEF Elsewhere, CandidateBegins, Requeue, vars, Undisturbed
  <2> QED
    BY <2>1 DEF SatelliteInv, Follows, LabelOK, Turning, WaitingOK, Deciding, HandlerOK, Pending
<1> QED
  BY <1>2, <1>3, <1>4, <1>5 DEF Next

LEMMA SatelliteInit == Init => SatelliteInv
<1> SUFFICES ASSUME Init PROVE SatelliteInv
  OBVIOUS
<1>1. \A a \in Apps : Follows(a, Idle)
  BY StageNames DEF Init, Idle, Follows, LabelOK, Turning, WaitingOK, Deciding, Pending
<1> QED
  BY <1>1, IdleType DEF Init, SatelliteInv

\* While no handler dies, whoever is queued for an interview is scheduled for it
\* and invited, an open review item is of an undecided application, and the label
\* of a decision is what became of the application.
THEOREM SatellitesAlwaysFollow == ASSUME Undisturbed PROVE Spec => []SatellitesCohere
<1>1. Serial
  BY DEF Undisturbed
<1>2. TypeInv /\ SerialInv /\ SatelliteInv /\ [Next]_vars => SatelliteInv'
  BY SatelliteNext
<1>3. SatelliteInv => SatellitesCohere
  <2> SUFFICES ASSUME SatelliteInv, AtRest, NEW a \in Apps
               PROVE  /\ queue[a] = "queued" => cand[a].stage = "interview_scheduled"
                      /\ cand[a].stage = "interview_scheduled" => queue[a] = "queued" /\ a \in invited
                      /\ review[a].open => cand[a].stage = "applied"
                      /\ review[a].decision = "decline" => cand[a].stage = "rejected"
    BY DEF SatellitesCohere, AwaitingMeansScheduled, ScheduledMeansInvited, OpenItemsAreUndecided, LabelsAreTrue
  <2>1. Follows(a, Idle)
    BY DEF SatelliteInv, AtRest, At
  <2> QED
    BY <2>1 DEF Idle, Follows, LabelOK, Turning, WaitingOK, Deciding, Pending
<1> QED
  BY <1>1, <1>2, <1>3, SatelliteInit, SerialAlways, TypeInvAlways, PTL DEF Spec

=============================================================================
