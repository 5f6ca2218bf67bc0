-------------------------------- MODULE Inbox -------------------------------
(* A candidate's notifications and the badge that counts the unread ones: the
   count is cached in Redis for fifteen seconds and dropped after each change.
   The cache is read, counted and set in three awaits, and a change is made
   and the key deleted in two, so requests overlap.  A notification addressed
   to an application alone, whose candidate has no account yet, drops nothing. *)
EXTENDS Integers, FiniteSets

CONSTANTS Notes, Workers, NoCache,
          MaxFaults    \* bound on failures of Redis

VARIABLES pref,        \* NotificationPreference: is the inbox on
          note,        \* what became of each notification
          cache,       \* candidate-notifications:unread
          worker,      \* what each request is at, with the count it made
          overlapped,  \* the cached count was out of date when it was set
          faults

vars == <<pref, note, cache, worker, overlapped, faults>>

Idle == [at |-> "idle", n |-> 0]
Unread == Cardinality({i \in Notes : note[i] = "unread"})

TypeOK ==
    /\ pref \in BOOLEAN /\ note \in [Notes -> {"none", "unread", "read", "gone"}]
    /\ cache \in {NoCache} \cup 0 .. Cardinality(Notes)
    /\ \A w \in Workers : worker[w].at \in {"idle", "clear", "miss", "counted"}
    /\ overlapped \in BOOLEAN /\ faults \in 0 .. MaxFaults

Init ==
    /\ pref = TRUE /\ note = [i \in Notes |-> "none"] /\ cache = NoCache
    /\ worker = [w \in Workers |-> Idle] /\ overlapped = FALSE /\ faults = 0

Step(w, at, n) == worker' = [worker EXCEPT ![w] = [at |-> at, n |-> n]]

-----------------------------------------------------------------------------
(* notifyCandidate: the inbox is written only if it is on; the key is dropped
   only for a notification that knows its user.                              *)
Notify(w, i, user) ==
    /\ worker[w] = Idle /\ pref /\ note[i] = "none"
    /\ note' = [note EXCEPT ![i] = "unread"]
    /\ Step(w, IF user THEN "clear" ELSE "idle", 0)
    /\ overlapped' = (overlapped \/ (~user /\ cache # NoCache))
    /\ UNCHANGED <<pref, cache, faults>>

\* As if reading a notification left the cached count to run out by itself.
ReadQuietly(w, i) ==
    /\ worker[w] = Idle /\ note[i] = "unread"
    /\ note' = [note EXCEPT ![i] = "read"]
    /\ UNCHANGED <<pref, cache, worker, overlapped, faults>>

MarkRead(w, i) ==
    /\ worker[w] = Idle /\ note[i] \in {"unread", "read"}
    /\ note' = [note EXCEPT ![i] = "read"]
    /\ Step(w, "clear", 0)
    /\ UNCHANGED <<pref, cache, overlapped, faults>>

MarkAllRead(w) ==
    /\ worker[w] = Idle
    /\ note' = [i \in Notes |-> IF note[i] = "unread" THEN "read" ELSE note[i]]
    /\ Step(w, "clear", 0)
    /\ UNCHANGED <<pref, cache, overlapped, faults>>

Remove(w, i) ==
    /\ worker[w] = Idle /\ note[i] \in {"unread", "read"}
    /\ note' = [note EXCEPT ![i] = "gone"]
    /\ Step(w, "clear", 0)
    /\ UNCHANGED <<pref, cache, overlapped, faults>>

(* deleteKey, which swallows an error of Redis.                              *)
DeleteKey(w) ==
    /\ worker[w].at = "clear" /\ Step(w, "idle", 0)
    /\ \/ cache' = NoCache /\ overlapped' = FALSE /\ UNCHANGED faults
       \/ /\ faults < MaxFaults /\ faults' = faults + 1
          /\ overlapped' = (overlapped \/ cache # NoCache) /\ UNCHANGED cache
    /\ UNCHANGED <<pref, note>>

-----------------------------------------------------------------------------
(* unreadCount: a cached count is served; a miss is counted and cached.      *)
Miss(w) ==
    /\ worker[w] = Idle /\ cache = NoCache /\ Step(w, "miss", 0)
    /\ UNCHANGED <<pref, note, cache, overlapped, faults>>

Count(w) ==
    /\ worker[w].at = "miss" /\ Step(w, "counted", Unread)
    /\ UNCHANGED <<pref, note, cache, overlapped, faults>>

SetCount(w) ==
    /\ worker[w].at = "counted" /\ Step(w, "idle", 0)
    /\ cache' = worker[w].n /\ overlapped' = (worker[w].n # Unread)
    /\ UNCHANGED <<pref, note, faults>>

Expire ==
    /\ cache # NoCache /\ cache' = NoCache /\ overlapped' = FALSE
    /\ UNCHANGED <<pref, note, worker, faults>>

UpdatePreference ==
    /\ pref' = ~pref /\ UNCHANGED <<note, cache, worker, overlapped, faults>>

Next ==
    \/ \E w \in Workers, i \in Notes :
          (\E user \in BOOLEAN : Notify(w, i, user)) \/ MarkRead(w, i) \/ Remove(w, i)
    \/ \E w \in Workers : MarkAllRead(w) \/ DeleteKey(w) \/ Miss(w) \/ Count(w) \/ SetCount(w)
    \/ Expire \/ UpdatePreference

Spec == Init /\ [][Next]_vars

-----------------------------------------------------------------------------
(* The badge is the inbox: once every change has dropped the key, a cached
   count differs from the inbox only if a change overlapped the request that
   cached it, the notification had no user, or Redis refused the deletion.   *)
BadgeMatches ==
    (cache # NoCache /\ \A w \in Workers : worker[w].at # "clear") =>
        (cache = Unread \/ overlapped)
=============================================================================
