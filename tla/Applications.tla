----------------------------- MODULE Applications -----------------------------
(* One candidate's resumes and applications: the library
   (controllers/resumeController.js, resumeVersionController.js), applying to a
   job by hand or by the hourly auto-apply (candidateController.js,
   jobs/autoApplyJob.js), and the removal and erasure of an application
   (candidatePurgeService.js, retentionJob.js, dataRightsController.js).  The
   candidate's requests on the library are taken one at a time, the
   applications overlap with them and with each other.                       *)
EXTENDS Integers, FiniteSets

CONSTANTS Jobs, Requests, Nothing,
          Legacy,       \* resumes of the old library
          Uploads,      \* resume versions the candidate may upload
          MaxActive,    \* active versions, 5 in the code
          MaxApplies    \* bound on the applications sent

VARIABLES stored,    \* the files in object storage
          resumes,   \* the library's records that exist
          versions,  \* ResumeVersion of each version there is
          apps,      \* Candidate: one record per application
          req,       \* the applications on their way
          sent,
          rows,      \* the applications with records a purge deletes (sessions, queues, usage, clips)
          purge      \* the purge that is running: its step and its application

vars == <<stored, resumes, versions, apps, req, sent, rows, purge>>

Versions == Legacy \cup Uploads
File(where, id) == [where |-> where, id |-> id]
Idle == [step |-> "idle", id |-> 0, job |-> Nothing, version |-> Nothing, applied |-> 0]
Absent == [exists |-> FALSE, file |-> Nothing, default |-> FALSE, archived |-> FALSE, applied |-> 0]

(* A Candidate: the application with the file it stands on.                  *)
Candidate ==
    [id : 1 .. MaxApplies, job : Jobs, version : Versions \cup {Nothing},
     file : {File("application", i) : i \in 1 .. MaxApplies} \cup {File("library", v) : v \in Legacy} \cup {File("version", v) : v \in Uploads}]

TypeOK ==
    /\ resumes \subseteq Legacy
    /\ \A v \in Versions : versions[v].exists => versions[v].file # Nothing
    /\ apps \subseteq Candidate
    /\ \A q \in Requests : req[q].step \in {"idle", "copy", "create", "share"}
    /\ purge.step \in {"idle", "artifacts", "file", "row"}

Init ==
    /\ stored = {} /\ resumes = {}
    /\ versions = [v \in Versions |-> Absent]
    /\ apps = {} /\ rows = {}
    /\ req = [q \in Requests |-> Idle] /\ sent = 0
    /\ purge = [step |-> "idle", app |-> 0]

-----------------------------------------------------------------------------
(* The library.                                                              *)

Active == {v \in Versions : versions[v].exists /\ ~versions[v].archived}
Exists == {v \in Versions : versions[v].exists}

(* uploadResume: a file whose checksum is there already is not stored again.  *)
UploadResume(r) ==
    /\ r \notin resumes
    /\ stored' = stored \cup {File("library", r)}
    /\ resumes' = resumes \cup {r}
    /\ UNCHANGED <<versions, apps, req, sent, rows, purge>>

(* deleteResume: the record goes even when its file cannot be deleted.       *)
DeleteResume(r) ==
    /\ r \in resumes
    /\ resumes' = resumes \ {r}
    /\ \/ stored' = stored \ {File("library", r)}
       \/ UNCHANGED stored
    /\ UNCHANGED <<versions, apps, req, sent, rows, purge>>

(* ensureVersionsMigrated: the versions point to the library's own files.    *)
EnsureVersionsMigrated ==
    /\ Exists = {} /\ resumes # {}
    /\ \E first \in resumes, some \in SUBSET resumes :
        /\ first \in some /\ Cardinality(some) <= MaxActive
        /\ \A more \in resumes \ some : Cardinality(some) = MaxActive
        /\ versions' = [v \in Versions |->
            IF v \in some THEN [Absent EXCEPT !.exists = TRUE, !.file = File("library", v), !.default = v = first] ELSE versions[v]]
    /\ UNCHANGED <<stored, resumes, apps, req, sent, rows, purge>>

UploadVersion(v) ==
    /\ v \in Uploads /\ ~versions[v].exists
    /\ Exists # {} \/ resumes = {}
    /\ Cardinality(Active) < MaxActive
    /\ stored' = stored \cup {File("version", v)}
    /\ versions' = [versions EXCEPT ![v] = [Absent EXCEPT !.exists = TRUE, !.file = File("version", v), !.default = Active = {}]]
    /\ UNCHANGED <<resumes, apps, req, sent, rows, purge>>

SetDefault(v) ==
    /\ v \in Active
    /\ versions' = [w \in Versions |-> [versions[w] EXCEPT !.default = w = v]]
    /\ UNCHANGED <<stored, resumes, apps, req, sent, rows, purge>>

(* The version after v that becomes the default when v was.                  *)
Successor(v) == IF versions[v].default /\ Active # {v} THEN {{w} : w \in Active \ {v}} ELSE {{}}
With(v, gone, next) ==
    [w \in Versions |-> IF w = v THEN gone ELSE IF w \in next THEN [versions[w] EXCEPT !.default = TRUE] ELSE versions[w]]

Archive(v) ==
    /\ versions[v].exists
    /\ \E next \in Successor(v) : versions' = With(v, [versions[v] EXCEPT !.archived = TRUE, !.default = FALSE], next)
    /\ UNCHANGED <<stored, resumes, apps, req, sent, rows, purge>>

DeleteVersion(v) ==
    /\ versions[v].exists
    /\ versions[v].applied = 0 /\ \A a \in apps : a.version # v
    /\ \/ stored' = stored \ {versions[v].file}
       \/ UNCHANGED stored
    /\ \E next \in Successor(v) : versions' = With(v, Absent, next)
    /\ UNCHANGED <<resumes, apps, req, sent, rows, purge>>

-----------------------------------------------------------------------------
(* createApplicationForCandidate, by applyToJob with an uploaded file or any
   version of the candidate's, by the auto-apply with an active one.         *)

Applied(j) == \E a \in apps : a.job = j

Resolve(q, j, v) ==
    /\ req[q].step = "idle" /\ sent < MaxApplies
    /\ v # Nothing => versions[v].exists
    /\ ~Applied(j)
    /\ sent' = sent + 1
    /\ req' = [req EXCEPT ![q] = [step |-> "copy", id |-> sent', job |-> j, version |-> v,
                                 applied |-> IF v = Nothing THEN 0 ELSE versions[v].applied]]
    /\ UNCHANGED <<stored, resumes, versions, apps, rows, purge>>
ApplyToJob(q, j, v) == Resolve(q, j, v)
AutoApply(q, j, v) == v \in Active /\ Resolve(q, j, v)

(* A resume of the library is copied; one that cannot be read is refused.    *)
SharedFile(r) == IF r.version = Nothing THEN File("application", r.id) ELSE versions[r.version].file
ResumeFile(r) == File("application", r.id)
Readable(r) == r.version = Nothing \/ versions[r.version].file \in stored

Copy(q) ==
    /\ req[q].step = "copy"
    /\ IF Readable(req[q])
       THEN stored' = stored \cup {ResumeFile(req[q])} /\ req' = [req EXCEPT ![q].step = "create"]
       ELSE UNCHANGED stored /\ req' = [req EXCEPT ![q] = Idle]
    /\ UNCHANGED <<resumes, versions, apps, sent, rows, purge>>

PreCheckOnly(j) == TRUE
UniqueIndex(j) == ~Applied(j)

(* Candidate.create: the copy of a duplicate stays in storage.               *)
Create(q) ==
    /\ req[q].step = "create"
    /\ LET r == req[q]
       IN  IF UniqueIndex(r.job)
           THEN /\ apps' = apps \cup {[id |-> r.id, job |-> r.job, file |-> ResumeFile(r), version |-> r.version]}
                /\ req' = [req EXCEPT ![q] = IF r.version = Nothing THEN Idle ELSE [@ EXCEPT !.step = "share"]]
           ELSE UNCHANGED apps /\ req' = [req EXCEPT ![q] = Idle]
    /\ UNCHANGED <<stored, resumes, versions, sent, rows, purge>>

(* The version's count, from the copy the request read.                      *)
Share(q) ==
    /\ req[q].step = "share"
    /\ LET v == req[q].version
       IN  versions' = IF versions[v].exists THEN [versions EXCEPT ![v].applied = req[q].applied + 1] ELSE versions
    /\ req' = [req EXCEPT ![q] = Idle]
    /\ UNCHANGED <<stored, resumes, apps, sent, rows, purge>>

Crash(q) == req[q].step \in {"create", "share"} /\ req' = [req EXCEPT ![q] = Idle] /\ UNCHANGED <<stored, resumes, versions, apps, sent, rows, purge>>

-----------------------------------------------------------------------------
(* What happens to an application.                                           *)

(* runPostApplyPipeline and everything after it stores records about it;
   its assessments (ATS, claims, papers, scorecards) no purge looks at.      *)
Work(a) ==
    /\ a.id \notin rows
    /\ rows' = rows \cup {a.id}
    /\ UNCHANGED <<stored, resumes, versions, apps, req, sent, purge>>

(* removeApplicationFromPipeline: the application's exit is JobCapacity's; only
   its queue entries and review items go.                                    *)
RemoveApplication(a) ==
    /\ a.id \in rows
    /\ rows' = rows \ {a.id}
    /\ UNCHANGED <<stored, resumes, versions, apps, req, sent, purge>>

(* purgeCandidateArtifacts, for a request to erase or, once nothing touched it
   for the retention days, by the nightly job: the records, then the file
   whether or not it can be deleted, then the row.                           *)
Purge(a) == purge.step = "idle" /\ a \in apps /\ purge' = [step |-> "artifacts", app |-> a.id] /\ UNCHANGED <<stored, resumes, versions, apps, req, sent, rows>>
EraseCandidateData(a) == Purge(a)
PurgeCompany(a) == Purge(a)

PurgeArtifacts ==
    /\ purge.step = "artifacts"
    /\ rows' = rows \ {purge.app}
    /\ purge' = [purge EXCEPT !.step = "file"]
    /\ UNCHANGED <<stored, resumes, versions, apps, req, sent>>
PurgeFile ==
    /\ purge.step = "file"
    /\ stored' \in {stored, stored \ {File("application", purge.app)}}
    /\ purge' = [purge EXCEPT !.step = "row"]
    /\ UNCHANGED <<resumes, versions, apps, req, sent, rows>>
PurgeRow ==
    /\ purge.step = "row"
    /\ apps' = {a \in apps : a.id # purge.app}
    /\ purge' = [step |-> "idle", app |-> 0]
    /\ UNCHANGED <<stored, resumes, versions, req, sent, rows>>

Next ==
    \/ \E r \in Legacy : UploadResume(r) \/ DeleteResume(r)
    \/ EnsureVersionsMigrated
    \/ \E v \in Versions : UploadVersion(v) \/ SetDefault(v) \/ Archive(v) \/ DeleteVersion(v)
    \/ \E q \in Requests :
        \/ \E j \in Jobs, v \in Versions \cup {Nothing} : ApplyToJob(q, j, v) \/ AutoApply(q, j, v)
        \/ Copy(q) \/ Create(q) \/ Share(q) \/ Crash(q)
    \/ \E a \in apps : RemoveApplication(a) \/ EraseCandidateData(a) \/ PurgeCompany(a) \/ Work(a)
    \/ PurgeArtifacts \/ PurgeFile \/ PurgeRow

Spec == Init /\ [][Next]_vars

-----------------------------------------------------------------------------
(* A person applies to a job once, however many requests race, and whatever
   becomes of the library the application keeps the resume it was sent with
   until it is erased itself.                                                *)
ApplicationsAreSelfContained ==
    /\ \A a, b \in apps : a.job = b.job => a = b
    /\ \A a \in apps : purge # [step |-> "row", app |-> a.id] => a.file \in stored
=============================================================================
