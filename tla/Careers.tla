------------------------------- MODULE Careers ------------------------------
(* What the public sees of a company's jobs and how old it may be
   (careersService.js, redisCache.js, publicCareersController.js, the public
   reads of jobController.js): a map in each server process over a Redis that
   may be away, keyed by a version that changes clear by incrementing.  One
   page, one job and one candidate; a request is short beside a tick of the
   clock, which stands for half of the caches' 60 s.                          *)
EXTENDS Integers, FiniteSets

CONSTANTS Processes, NoPage,
          Ttl,                  \* ticks an entry lives
          MaxTime, MaxChanges, MaxReads

VARIABLES now,
          revision,  \* of what the page shows, in the database
          published, \* the job's status, and whether the candidate applied
          applied,
          version,   \* careers-cache:version in Redis
          bumps,     \* the revision there was at each increment
          up,        \* whether Redis answers
          redis,     \* page entries in Redis, by version
          local,     \* each process's map, by version
          pending,   \* increments under way, one after each cacheClear
          req,       \* each process's page request
          list,      \* public-jobs:list in Redis
          detail,    \* public-jobs:detail in Redis
          shown,     \* what the last read of the detail returned
          reads

vars == <<now, revision, published, applied, version, bumps, up, redis, local, pending, req, list, detail, shown, reads>>

Versions == 0 .. MaxChanges
Page == [revision : 0 .. MaxChanges, read : 0 .. MaxTime, at : 0 .. MaxTime]
Pages == Page \cup {NoPage}
Idle == [step |-> "idle", version |-> 0, page |-> NoPage]
Nobody == "nobody"

TypeOK ==
    /\ now \in 0 .. MaxTime /\ revision \in 0 .. MaxChanges /\ published \in BOOLEAN /\ applied \in BOOLEAN
    /\ version \in Versions /\ bumps \in [Versions -> 0 .. MaxChanges] /\ up \in BOOLEAN
    /\ redis \in [Versions -> Pages] /\ \A p \in Processes : local[p] \in [Versions -> Pages]
    /\ pending \in 0 .. MaxChanges /\ reads \in 0 .. MaxReads
    /\ \A p \in Processes : req[p].step \in {"idle", "look", "render", "store", "share"} /\ req[p].version \in Versions /\ req[p].page \in Pages
    /\ list = NoPage \/ list \in [published : BOOLEAN, at : 0 .. MaxTime]
    /\ detail = NoPage \/ detail \in [mine : BOOLEAN, at : 0 .. MaxTime]
    /\ shown \in [viewer : {Nobody, "visitor", "candidate"}, applied : BOOLEAN, open : BOOLEAN]

Init ==
    /\ now = 0 /\ revision = 0 /\ published = TRUE /\ applied \in BOOLEAN
    /\ version = 0 /\ bumps = [v \in Versions |-> 0] /\ up = TRUE
    /\ redis = [v \in Versions |-> NoPage] /\ local = [p \in Processes |-> [v \in Versions |-> NoPage]]
    /\ pending = 0 /\ req = [p \in Processes |-> Idle] /\ list = NoPage /\ detail = NoPage
    /\ shown = [viewer |-> Nobody, applied |-> FALSE, open |-> TRUE] /\ reads = 0

-----------------------------------------------------------------------------
Alive(entry) == entry # NoPage /\ now - entry.at < Ttl
Read(key) == IF up /\ Alive(key) THEN key ELSE NoPage
GetVersion == IF up THEN version ELSE 0
KeepPublic == UNCHANGED <<published, applied, list, detail, shown>>
KeepWorld == UNCHANGED <<now, revision, version, bumps, up, pending, reads>> /\ KeepPublic

(* A change of what the page shows - a publish, a fill, an edit of the branding -
   and, saved, its cacheClear: the process's own map, and an increment nobody
   waits for.                                                                *)
Change(p) ==
    /\ revision < MaxChanges /\ revision' = revision + 1 /\ published' \in BOOLEAN
    /\ local' = [local EXCEPT ![p] = [v \in Versions |-> NoPage]] /\ pending' = pending + 1
    /\ UNCHANGED <<now, applied, version, bumps, up, redis, req, list, detail, shown, reads>>
IncrementVersion ==
    /\ pending > 0 /\ pending' = pending - 1
    /\ IF up THEN version' = version + 1 /\ bumps' = [bumps EXCEPT ![version + 1] = revision]
             ELSE UNCHANGED <<version, bumps>>
    /\ UNCHANGED <<now, revision, up, redis, local, req, reads>> /\ KeepPublic
RedisChanges ==
    /\ up' = ~up
    /\ UNCHANGED <<now, revision, version, bumps, redis, local, pending, req, reads>> /\ KeepPublic

(* renderCareersPage, renderJobsFeed, renderJobsSitemap: the version first, the
   process's map, Redis, and then the database; what was rendered goes to both
   under the version read at the start.                                      *)
Begin(p) ==
    /\ req[p] = Idle /\ reads < MaxReads /\ reads' = reads + 1
    /\ req' = [req EXCEPT ![p].step = "look", ![p].version = GetVersion]
    /\ UNCHANGED <<now, revision, version, bumps, up, redis, local, pending>> /\ KeepPublic

CacheGet(p) == LET hit == local[p][req[p].version] IN IF Alive(hit) THEN hit ELSE NoPage
Look(p) ==
    /\ req[p].step = "look"
    /\ LET distributed == Read(redis[req[p].version])
       IN  IF CacheGet(p) # NoPage
           THEN req' = [req EXCEPT ![p] = Idle] /\ UNCHANGED local
           ELSE IF distributed # NoPage
           THEN /\ local' = [local EXCEPT ![p][req[p].version] = [distributed EXCEPT !.at = now]]
                /\ req' = [req EXCEPT ![p] = Idle]
           ELSE req' = [req EXCEPT ![p].step = "render"] /\ UNCHANGED local
    /\ UNCHANGED redis /\ KeepWorld
Render(p) ==
    /\ req[p].step = "render"
    /\ req' = [req EXCEPT ![p].step = "store", ![p].page = [revision |-> revision, read |-> now, at |-> now]]
    /\ UNCHANGED <<redis, local>> /\ KeepWorld

\* As if the key were made when the page is stored.
LateKey(p) == GetVersion
Key(p) == req[p].version

CacheSet(p) ==
    /\ req[p].step = "store"
    /\ local' = [local EXCEPT ![p][Key(p)] = req[p].page]
    /\ req' = [req EXCEPT ![p].step = "share"]
    /\ UNCHANGED redis /\ KeepWorld
SetJson(p) ==
    /\ req[p].step = "share"
    /\ redis' = IF up THEN [redis EXCEPT ![Key(p)] = req[p].page] ELSE redis
    /\ req' = [req EXCEPT ![p] = Idle]
    /\ UNCHANGED local /\ KeepWorld

-----------------------------------------------------------------------------
(* listPublishedJobs: Redis alone, for its term; the deletion meant to clear it
   is never reached (jobController.js calls a function it does not import).  *)
ListPublishedJobs ==
    /\ reads < MaxReads /\ reads' = reads + 1
    /\ list' = IF Read(list) # NoPage \/ ~up THEN list ELSE [published |-> published, at |-> now]
    /\ UNCHANGED <<now, revision, version, bumps, up, redis, local, pending, req, published, applied, detail, shown>>

(* getJob, for a visitor or the candidate: the status is the database's; the
   detail may be Redis's, and a candidate's own application is looked up anew.
   What a candidate is shown is stored as it is.                             *)
GetJob(viewer) ==
    /\ reads < MaxReads /\ reads' = reads + 1 /\ published
    /\ LET own == viewer = "candidate" /\ applied
           cached == Read(detail)
       IN  /\ shown' = [viewer |-> viewer, open |-> published,
                        applied |-> IF cached # NoPage /\ viewer = "visitor" THEN cached.mine ELSE own]
           /\ detail' = IF cached # NoPage \/ ~up THEN detail ELSE [mine |-> own, at |-> now]
    /\ UNCHANGED <<now, revision, version, bumps, up, redis, local, pending, req, published, applied, list>>

Tick ==
    /\ now < MaxTime /\ \A p \in Processes : req[p] = Idle
    /\ now' = now + 1
    /\ UNCHANGED <<revision, version, bumps, up, redis, local, pending, req, reads>> /\ KeepPublic

Next ==
    \/ IncrementVersion \/ RedisChanges \/ ListPublishedJobs \/ Tick
    \/ \E p \in Processes : Change(p) \/ Begin(p) \/ Look(p) \/ Render(p) \/ CacheSet(p) \/ SetJson(p)
    \/ \E viewer \in {"visitor", "candidate"} : GetJob(viewer)

Spec == Init /\ [][Next]_vars

-----------------------------------------------------------------------------
(* A clear reaches every process once its increment does: what is kept under a
   version was read after the change that made the version, whichever process
   rendered it however slowly; and where the increment is lost, or Redis away,
   an entry that is served is younger than the two terms it can spend in Redis
   and then in a process.                                                    *)
ClearedStaysCleared ==
    \A v \in Versions \ {0} :
        /\ redis[v] # NoPage => redis[v].revision >= bumps[v]
        /\ \A p \in Processes : local[p][v] # NoPage => local[p][v].revision >= bumps[v]
StalenessIsBounded ==
    \A p \in Processes, v \in Versions : Alive(local[p][v]) => now - local[p][v].read < 2 * Ttl
PublicIsFresh == ClearedStaysCleared /\ StalenessIsBounded

(* The detail kept for everyone is nobody's: a visitor is not told that they
   applied.                                                                  *)
DetailIsNobodys == shown.viewer = "visitor" => ~shown.applied
=============================================================================
