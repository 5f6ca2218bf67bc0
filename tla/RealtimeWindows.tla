--------------------------- MODULE RealtimeWindows ---------------------------
(* The billing windows of the realtime interviews of one company
   (controllers/livekitController.js, services/livekitService.js): a mint opens
   a window, three callers race to meter it, the company's concurrency cap
   counts the windows that are open.  A request that saves the whole interview
   writes the window back as it was when the request read it.  LiveKit itself
   (the room, its webhook and the worker dispatched to it) is external.      *)
EXTENDS Integers, Sequences, FiniteSets

CONSTANTS Sessions, Requests, Nobody,
          Cap,           \* concurrentRealtime of the plan
          MaxWindows,    \* bound on the openings of a session a request may begin after
          Now            \* bound on the clock

VARIABLES doc,     \* per session: the window that is open or was last (0: none), how many times one was
                   \* opened so far (history), when it began, realtimeMeteredAt
          room,    \* per session, external: whether its room is open, the agents in it (2: more than one)
          finished,\* per session, external: room_finished webhooks not yet acknowledged
          req,     \* the requests in flight
          bills,   \* the usage events: session, window, opening and length
          clock

vars == <<doc, room, finished, req, bills, clock>>

NoWindow == [window |-> 0, opening |-> 0, startedAt |-> 0, metered |-> FALSE]
Idle == [step |-> "idle", of |-> Nobody, copy |-> NoWindow, reconnecting |-> FALSE]

TypeOK ==
    /\ doc \in [Sessions -> [window : Nat, opening : Nat, startedAt : 0 .. Now, metered : BOOLEAN]]
    /\ \A s \in Sessions : room[s].agents \in 0 .. 2 /\ finished[s] \in 0 .. MaxWindows
    /\ \A r \in Requests : req[r].step \in {"idle", "mint", "dispatch", "stamp", "save", "meter"}

Init ==
    /\ doc = [s \in Sessions |-> NoWindow]
    /\ room = [s \in Sessions |-> [open |-> FALSE, agents |-> 0]]
    /\ finished = [s \in Sessions |-> 0]
    /\ req = [r \in Requests |-> Idle]
    /\ bills = <<>>
    /\ clock = 0

Running(d) == d.window > 0 /\ ~d.metered
Done(r) == req' = [req EXCEPT ![r] = Idle]

-----------------------------------------------------------------------------
(* livekitSession.                                                           *)

(* activeSessionCount: windows older than two hours no longer count, which
   the clock of the model does not reach.                                    *)
ActiveSessionCount == Cardinality({s \in Sessions : Running(doc[s])})

Mint(r, s) ==
    /\ req[r].step = "idle"
    /\ doc[s].opening < MaxWindows
    /\ req' = [req EXCEPT ![r] = [step |-> "mint", of |-> s, copy |-> doc[s], reconnecting |-> Running(doc[s])]]
    /\ UNCHANGED <<doc, room, finished, bills, clock>>

(* The cap is checked on the sessions as they are now; a reconnect is exempt. *)
CheckCap(r) ==
    /\ req[r].step = "mint"
    /\ IF ~req[r].reconnecting /\ ActiveSessionCount >= Cap THEN Done(r)
       ELSE req' = [req EXCEPT ![r].step = "dispatch"]
    /\ UNCHANGED <<doc, room, finished, bills, clock>>

(* dispatchAgent: none is dispatched to a room that has one; the list may be
   unavailable, and a failed dispatch ends the request before the clock starts. *)
DispatchAgent(r) ==
    /\ req[r].step = "dispatch"
    /\ LET s == req[r].of
       IN  \/ room[s].agents > 0 /\ UNCHANGED room
           \/ room' = [room EXCEPT ![s] = [open |-> TRUE, agents |-> IF @.agents = 0 THEN 1 ELSE 2]]
    /\ req' = [req EXCEPT ![r].step = "stamp"]
    /\ UNCHANGED <<doc, finished, bills, clock>>
DispatchFails(r) == req[r].step = "dispatch" /\ Done(r) /\ UNCHANGED <<doc, room, finished, bills, clock>>

(* session.save() after markModified("aiInterview") stores the window as the
   request has it; a window that was metered meanwhile is open again.        *)
Store(s, window) == doc' = [doc EXCEPT ![s] = [window EXCEPT !.opening = doc[s].opening + 1]]
StoreCopy(r) == IF req[r].copy = doc[req[r].of] THEN UNCHANGED doc ELSE Store(req[r].of, req[r].copy)

(* The stamp of a fresh mint opens a window of its own; a reconnect saves the
   one it read.                                                              *)
Stamp(r) ==
    /\ req[r].step = "stamp"
    /\ IF req[r].reconnecting THEN StoreCopy(r)
       ELSE LET s == req[r].of
            IN  Store(s, [window |-> doc[s].opening + 1, opening |-> 0, startedAt |-> clock, metered |-> FALSE])
    /\ Done(r)
    /\ UNCHANGED <<room, finished, bills, clock>>

(* A recording chunk: read with the request, the whole interview saved once
   the chunk is stored (interviewRecordingService.storeChunk; the recording's
   end and the portal's side answers save the same way).                     *)
LoadChunk(r, s) ==
    /\ req[r].step = "idle"
    /\ doc[s].opening < MaxWindows
    /\ req' = [req EXCEPT ![r] = [step |-> "save", of |-> s, copy |-> doc[s], reconnecting |-> TRUE]]
    /\ UNCHANGED <<doc, room, finished, bills, clock>>

SaveChunk(r) ==
    /\ req[r].step = "save"
    /\ StoreCopy(r)
    /\ Done(r)
    /\ UNCHANGED <<room, finished, bills, clock>>

-----------------------------------------------------------------------------
(* meterSession, called by the end of the call, the beacon of a closed tab and
   the webhook: each looks at the session it read, and the update it then makes
   matches only a window that is not metered.                                *)
Meter(r, s) ==
    /\ req[r].step = "idle"
    /\ Running(doc[s])
    /\ req' = [req EXCEPT ![r] = [step |-> "meter", of |-> s, copy |-> doc[s], reconnecting |-> FALSE]]
    /\ UNCHANGED <<doc, room, finished, bills, clock>>

Bill(s, startedAt) ==
    [session |-> s, window |-> doc[s].window, opening |-> doc[s].opening, length |-> clock - startedAt]

\* As if the filter of the update were its id.
ReadOnly(s) == doc[s].window > 0

TestAndSet(s) == Running(doc[s])

MeterUpdate(r) ==
    /\ req[r].step = "meter"
    /\ LET s == req[r].of
       IN  IF TestAndSet(s)
           THEN /\ doc' = [doc EXCEPT ![s].metered = TRUE]
                /\ bills' = Append(bills, Bill(s, req[r].copy.startedAt))
           ELSE UNCHANGED <<doc, bills>>
    /\ Done(r)
    /\ UNCHANGED <<room, finished, clock>>

(* handleWebhookEvent: the webhook is acknowledged once the session is metered;
   one that fails is delivered again.                                        *)
Webhook(s) ==
    /\ finished[s] > 0
    /\ finished' = [finished EXCEPT ![s] = @ - 1]
    /\ IF TestAndSet(s)
       THEN /\ doc' = [doc EXCEPT ![s].metered = TRUE]
            /\ bills' = Append(bills, Bill(s, doc[s].startedAt))
       ELSE UNCHANGED <<doc, bills>>
    /\ UNCHANGED <<room, req, clock>>

(* External: everyone leaves, and LiveKit closes the room.                   *)
RoomFinishes(s) ==
    /\ room[s].open
    /\ \A r \in Requests : req[r].of # s \/ req[r].step # "stamp"
    /\ finished[s] < MaxWindows
    /\ room' = [room EXCEPT ![s] = [open |-> FALSE, agents |-> 0]]
    /\ finished' = [finished EXCEPT ![s] = @ + 1]
    /\ UNCHANGED <<doc, req, bills, clock>>

Tick == clock < Now /\ clock' = clock + 1 /\ UNCHANGED <<doc, room, finished, req, bills>>

Next ==
    \/ \E r \in Requests :
        \/ \E s \in Sessions : Mint(r, s) \/ Meter(r, s) \/ LoadChunk(r, s)
        \/ CheckCap(r) \/ DispatchAgent(r) \/ DispatchFails(r) \/ Stamp(r) \/ SaveChunk(r) \/ MeterUpdate(r)
    \/ \E s \in Sessions : Webhook(s) \/ RoomFinishes(s)
    \/ Tick

Fairness ==
    /\ \A r \in Requests : WF_vars(CheckCap(r) \/ DispatchAgent(r) \/ Stamp(r) \/ SaveChunk(r) \/ MeterUpdate(r))
    /\ \A s \in Sessions : WF_vars(Webhook(s)) /\ WF_vars(RoomFinishes(s))
Spec == Init /\ [][Next]_vars /\ Fairness

-----------------------------------------------------------------------------
(* Three callers race to close one window, and none is billed twice while it
   stays closed: two bills of one window have an opening each, the second of
   which is a whole interview saved from a copy that was read before the first
   bill (meterSession's conditional update, livekitController.js:142).       *)
BilledOnce ==
    \A i, j \in DOMAIN bills : bills[i].session = bills[j].session /\ bills[i].opening = bills[j].opening => i = j

(* What meterSession and livekitController.js:175-176 promise of it: "whichever
   arrives first wins and the other no-ops".  A reconnect or a recording chunk
   that read the interview before it was metered opens the window again.     *)
WindowsBilledOnce ==
    \A i, j \in DOMAIN bills : bills[i].session = bills[j].session /\ bills[i].window = bills[j].window => i = j

=============================================================================
