----------------------------- MODULE Execution -----------------------------
(***************************************************************************)
(* One execution after another of the processing task of one file, inside  *)
(* the step that module Processing calls "working": the transfers from and *)
(* to object storage, the checks of the lease around each of them, the     *)
(* heartbeat thread, the progress the worker writes, the keys under which  *)
(* it stores what it generates and the publication of these keys           *)
(* (processing/services/execution.py, lease.py, artifacts.py, raster.py,   *)
(* model_processing.py), and the keys the readers derive from what was     *)
(* published (maps/services.py, models3d/services.py, object_keys.py).     *)
(*                                                                         *)
(* The broker is left to Processing: a queued job may be claimed at any    *)
(* moment.  A converter is one step that succeeds or raises.               *)
(*                                                                         *)
(* A definition introduced as "a slip" is not part of the specification:   *)
(* it is a likely mistake in the code of the definition after it.          *)
(***************************************************************************)
EXTENDS Naturals, Sequences

CONSTANTS
  Execution,   \* the executions there may be: each has a token and a prefix of its own
  NoExecution, \* lease_token = NULL, and an object that does not exist
  Root,        \* the key prefix of the file that older releases wrote under
  MaxRetries,  \* MAX_AUTOMATIC_RETRIES
  Format       \* the formats of the instance, among the names of AllFormats

AllFormats == {"GEOTIFF", "OBJ", "GLTF_BUNDLE", "GLB", "LAS", "PNG"}

ASSUME ExecutionAssumption ==
  NoExecution \notin Execution /\ Root \notin Execution /\ Root # NoExecution
ASSUME FormatAssumption == Format \subseteq AllFormats
ASSUME RetryAssumption == MaxRetries \in Nat

VARIABLES
  format,     \* SurveyFile.format
  job,        \* the ProcessingJob row: status, progress_percent, retry_count
  lease,      \* its lease_token, and whether lease_expires_at > now()
  published,  \* SurveyFile.preview_path and converted_path of a file that is "ready"
  objects,    \* object storage: prefix -> name -> the execution that wrote it
  pc,         \* where each execution is
  at,         \* the step of its plan it does next
  lost,       \* ProcessingHeartbeat._lost
  late        \* history: objects stored by an execution that owned nothing any more

vars == <<format, job, lease, published, objects, pc, at, lost, late>>

Name == {"tiles/0/0/0.png", "tiles/metadata.json", "preview.png", "cog.tif",
         "model-metadata.json", "preview.glb", "model.glb",
         "potree/hierarchy.bin", "potree/metadata.json"}

Prefix == Execution \cup {Root}

Get == [do |-> "get"]
Put(name) == [do |-> "put", name |-> name]
Progress(p) == [do |-> "progress", percent |-> p]

\* What _process_file does to one file, as far as the database and object
\* storage can tell: the downloads (the primary file, then its assets), the
\* progress it reports, the uploads, in this order.  All tiles stand for one.
Plan ==
  [f \in AllFormats |->
     CASE f = "GEOTIFF" ->
            <<Get, Progress(40), Progress(70), Put("tiles/0/0/0.png"), Progress(85),
              Put("preview.png"), Put("cog.tif"), Put("tiles/metadata.json")>>
       [] f = "OBJ" ->
            <<Get, Progress(40), Get, Progress(70), Put("model-metadata.json"),
              Put("preview.glb"), Put("model.glb")>>
       [] f = "GLTF_BUNDLE" ->
            <<Get, Progress(40), Get, Progress(70), Put("model-metadata.json"),
              Put("preview.glb"), Put("model.glb")>>
       [] f = "GLB" ->
            <<Get, Progress(40), Progress(70), Put("model-metadata.json"),
              Put("preview.glb")>>
       [] f = "LAS" ->
            <<Get, Progress(40), Progress(70), Put("potree/hierarchy.bin"),
              Put("potree/metadata.json"), Put("model-metadata.json")>>
       [] f = "PNG" -> <<Get, Progress(40), Progress(100)>>]

NoPath == [prefix |-> NoExecution, name |-> "none"]

\* A slip: outputs are stored under the file, as older releases did.
SharedPrefix(e) == Root

\* AttemptStorage.prefix
PrefixOf(e) == e

PathOf(p, name) == [prefix |-> p, name |-> name]

\* GeneratedArtefacts, below the prefix published_path gives them.
Artefacts(f, p) ==
  CASE f = "GEOTIFF" -> [preview |-> PathOf(p, "preview.png"), converted |-> PathOf(p, "cog.tif")]
    [] f \in {"OBJ", "GLTF_BUNDLE"} ->
         [preview |-> PathOf(p, "preview.glb"), converted |-> PathOf(p, "model.glb")]
    [] f = "GLB" -> [preview |-> PathOf(p, "preview.glb"), converted |-> NoPath]
    [] f = "LAS" -> [preview |-> PathOf(p, "potree/metadata.json"),
                     converted |-> PathOf(p, "potree/metadata.json")]
    [] f = "PNG" -> [preview |-> NoPath, converted |-> NoPath]

NotPublished == [preview |-> NoPath, converted |-> NoPath]

---------------------------------------------------------------------------
(* The readers *)

\* generated_object_root(published_path=preview_path or converted_path)
ReaderRoot(paths) ==
  LET path == IF paths.preview # NoPath THEN paths.preview ELSE paths.converted
  IN  IF path.prefix \in Execution THEN path.prefix ELSE Root

\* The generated objects get_survey_map_layers_for_user,
\* get_map_tile_redirect_for_user and get_survey_models_for_user read or
\* sign a URL for, all of them below the reader's root.
ReaderNames(f) ==
  CASE f = "GEOTIFF" -> {"tiles/metadata.json", "tiles/0/0/0.png"}
    [] f \in {"OBJ", "GLTF_BUNDLE"} -> {"model-metadata.json", "model.glb"}
    [] f = "GLB" -> {"model-metadata.json"}
    [] f = "LAS" -> {"model-metadata.json", "potree/metadata.json"}
    [] f = "PNG" -> {}

Ready == job.status = "completed"

ReaderView ==
  IF Ready THEN [k \in ReaderNames(format) |-> objects[ReaderRoot(published)][k]] ELSE <<>>

---------------------------------------------------------------------------
JobStatus == {"queued", "running", "completed", "failed"}

Phase == {"new", "ready", "moving", "moved", "completing", "raised", "refused", "done"}

Path == [prefix : Prefix \cup {NoExecution}, name : Name \cup {"none"}]

TypeOK ==
  /\ format \in Format
  /\ job \in [status : JobStatus, progress : 0 .. 100, retries : 0 .. MaxRetries]
  /\ lease \in [token : Execution \cup {NoExecution}, live : BOOLEAN]
  /\ published \in [preview : Path, converted : Path]
  /\ objects \in [Prefix -> [Name -> Prefix \cup {NoExecution}]]
  /\ pc \in [Execution -> Phase]
  /\ at \in [Execution -> Nat \ {0}]
  /\ lost \in [Execution -> BOOLEAN]
  /\ late \in [Execution -> Nat]

NoLease == [token |-> NoExecution, live |-> FALSE]

Nothing == [n \in Name |-> NoExecution]

\* A file that waits for its first execution, or one that an older release
\* processed: its outputs lie under the root of the file.
Init ==
  /\ format \in Format
  /\ \/ /\ job = [status |-> "queued", progress |-> 0, retries |-> 0]
        /\ published = NotPublished
        /\ objects = [p \in Prefix |-> Nothing]
     \/ /\ job = [status |-> "completed", progress |-> 100, retries |-> 0]
        /\ published = Artefacts(format, Root)
        /\ objects = [p \in Prefix |-> [n \in Name |-> IF p = Root THEN Root ELSE NoExecution]]
  /\ lease = NoLease
  /\ pc = [e \in Execution |-> "new"]
  /\ at = [e \in Execution |-> 1]
  /\ lost = [e \in Execution |-> FALSE]
  /\ late = [e \in Execution |-> 0]

\* The filter of refresh_processing_lease and of every write of a worker.
Owns(e) == job.status = "running" /\ lease = [token |-> e, live |-> TRUE]

\* A slip: the heartbeat is trusted although it has stopped.
ForgetfulCheck(e) == TRUE

\* ProcessingHeartbeat.check
CheckPasses(e) == ~ lost[e] /\ Owns(e)

\* A slip: a renewal that is refused is tried again.
RetryRenewal(e) == lost[e]

CheckRefuses(e) == ~ CheckPasses(e)

HasStep(e) == at[e] <= Len(Plan[format])

Step(e) == Plan[format][at[e]]

IsTransfer(e) == HasStep(e) /\ Step(e).do \in {"get", "put"}

Active(e) == pc[e] \notin {"new", "done"}

---------------------------------------------------------------------------
(* An execution *)

\* _mark_job_running
Claim(e) ==
  /\ pc[e] = "new"
  /\ job.status = "queued"
  /\ job' = [job EXCEPT !.status = "running", !.progress = 10]
  /\ lease' = [token |-> e, live |-> TRUE]
  /\ pc' = [pc EXCEPT ![e] = "ready"]
  /\ UNCHANGED <<format, published, objects, at, lost, late>>

\* The check before a download or an upload (the first one is also the one
\* on entry of the heartbeat).
StartTransfer(e) ==
  /\ pc[e] = "ready"
  /\ IsTransfer(e)
  /\ CheckPasses(e)
  /\ pc' = [pc EXCEPT ![e] = "moving"]
  /\ UNCHANGED <<format, job, lease, published, objects, at, lost, late>>

\* The transfer takes its time: anything may have happened meanwhile.
Transfer(e) ==
  /\ pc[e] = "moving"
  /\ IF Step(e).do = "put"
     THEN /\ objects' = [objects EXCEPT ![PrefixOf(e)][Step(e).name] = e]
          /\ late' = [late EXCEPT ![e] = IF Owns(e) THEN @ ELSE @ + 1]
     ELSE UNCHANGED <<objects, late>>
  /\ pc' = [pc EXCEPT ![e] = "moved"]
  /\ UNCHANGED <<format, job, lease, published, at, lost>>

\* The check after it.
EndTransfer(e) ==
  /\ pc[e] = "moved"
  /\ CheckPasses(e)
  /\ pc' = [pc EXCEPT ![e] = "ready"]
  /\ at' = [at EXCEPT ![e] = @ + 1]
  /\ UNCHANGED <<format, job, lease, published, objects, lost, late>>

\* A slip: the progress is written whoever owns the job.
AnyRunningJob(e) == job.status = "running"

\* The rows _set_job_progress updates.
ProgressRows(e) == Owns(e)

SetJobProgress(e) ==
  /\ pc[e] = "ready"
  /\ HasStep(e)
  /\ Step(e).do = "progress"
  /\ ProgressRows(e)
  /\ job' = [job EXCEPT !.progress = Step(e).percent]
  /\ at' = [at EXCEPT ![e] = @ + 1]
  /\ UNCHANGED <<format, lease, published, objects, pc, lost, late>>

\* The check that follows the last upload.
StartCompletion(e) ==
  /\ pc[e] = "ready"
  /\ ~ HasStep(e)
  /\ CheckPasses(e)
  /\ pc' = [pc EXCEPT ![e] = "completing"]
  /\ UNCHANGED <<format, job, lease, published, objects, at, lost, late>>

\* _mark_job_completed, by the worker that still owns the job.
Complete(e) ==
  /\ pc[e] = "completing"
  /\ Owns(e)
  /\ job' = [job EXCEPT !.status = "completed", !.progress = 100]
  /\ lease' = NoLease
  /\ published' = Artefacts(format, PrefixOf(e))
  /\ pc' = [pc EXCEPT ![e] = "done"]
  /\ UNCHANGED <<format, objects, at, lost, late>>

\* A worker that learns it owns nothing any more: ProcessingLeaseLost from a
\* check or a progress report, or a transaction that refuses its write.
Stop(e) ==
  /\ \/ pc[e] = "ready" /\ (IsTransfer(e) \/ ~ HasStep(e)) /\ CheckRefuses(e)
     \/ pc[e] = "ready" /\ HasStep(e) /\ Step(e).do = "progress" /\ ~ ProgressRows(e)
     \/ pc[e] = "moved" /\ CheckRefuses(e)
     \/ pc[e] \in {"completing", "refused"} /\ ~ Owns(e)
  /\ pc' = [pc EXCEPT ![e] = "done"]
  /\ UNCHANGED <<format, job, lease, published, objects, at, lost, late>>

\* The heartbeat thread finds the lease gone, or cannot tell because of an
\* error of the database, and ends.
LoseHeartbeat(e) ==
  /\ pc[e] \in {"ready", "moving", "moved"}
  /\ ~ lost[e]
  /\ lost' = [lost EXCEPT ![e] = TRUE]
  /\ UNCHANGED <<format, job, lease, published, objects, pc, at, late>>

\* A storage error, a checksum that does not match, content that is not
\* valid any more, a converter that fails.
Raise(e) ==
  /\ pc[e] \in {"ready", "moving", "moved"}
  /\ pc' = [pc EXCEPT ![e] = "raised"]
  /\ UNCHANGED <<format, job, lease, published, objects, at, lost, late>>

\* A slip: the count of the retries is off by one.
OneRetryMore == job.retries <= MaxRetries

RetriesLeft == job.retries < MaxRetries

\* schedule_processing_retry; the progress stays as it was.
ScheduleRetry(e) ==
  /\ pc[e] = "raised"
  /\ Owns(e)
  /\ RetriesLeft
  /\ job' = [job EXCEPT !.status = "queued", !.retries = @ + 1]
  /\ lease' = NoLease
  /\ pc' = [pc EXCEPT ![e] = "done"]
  /\ UNCHANGED <<format, published, objects, at, lost, late>>

RefuseRetry(e) ==
  /\ pc[e] = "raised"
  /\ ~ (Owns(e) /\ RetriesLeft)
  /\ pc' = [pc EXCEPT ![e] = "refused"]
  /\ UNCHANGED <<format, job, lease, published, objects, at, lost, late>>

\* The row of a job that is given up, by its worker or by the sweep.
GivenUp == [job EXCEPT !.status = "failed", !.progress = IF @ > 99 THEN 99 ELSE @]

\* mark_processing_failed_permanently
MarkFailed(e) ==
  /\ pc[e] = "refused"
  /\ Owns(e)
  /\ job' = GivenUp
  /\ lease' = NoLease
  /\ pc' = [pc EXCEPT ![e] = "done"]
  /\ UNCHANGED <<format, published, objects, at, lost, late>>

\* The process dies, or the database fails under it.
Die(e) ==
  /\ Active(e)
  /\ pc' = [pc EXCEPT ![e] = "done"]
  /\ UNCHANGED <<format, job, lease, published, objects, at, lost, late>>

---------------------------------------------------------------------------
(* Around it *)

LeaseExpires ==
  /\ lease.live
  /\ lease' = [lease EXCEPT !.live = FALSE]
  /\ UNCHANGED <<format, job, published, objects, pc, at, lost, late>>

\* reconcile_expired_running_processing_jobs
RecoverExpired ==
  /\ job.status = "running"
  /\ ~ lease.live
  /\ job' = IF RetriesLeft
            THEN [job EXCEPT !.status = "queued", !.retries = @ + 1]
            ELSE GivenUp
  /\ lease' = NoLease
  /\ UNCHANGED <<format, published, objects, pc, at, lost, late>>

\* manual_retry_processing_job
ManualRetry ==
  /\ job.status = "failed"
  /\ job' = [status |-> "queued", progress |-> 0, retries |-> 0]
  /\ lease' = NoLease
  /\ published' = NotPublished
  /\ UNCHANGED <<format, objects, pc, at, lost, late>>

\* What the code of the worker itself does next, when nothing goes wrong.
Work(e) ==
  \/ StartTransfer(e) \/ Transfer(e) \/ EndTransfer(e) \/ SetJobProgress(e)
  \/ StartCompletion(e) \/ Complete(e) \/ Stop(e)
  \/ ScheduleRetry(e) \/ RefuseRetry(e) \/ MarkFailed(e)

Next ==
  \/ \E e \in Execution : Claim(e) \/ Work(e) \/ LoseHeartbeat(e) \/ Raise(e) \/ Die(e)
  \/ LeaseExpires \/ RecoverExpired \/ ManualRetry

Spec == Init /\ [][Next]_vars

\* A converter that never returns is excluded: every step of a worker that
\* may be taken is taken.  Storage answers or fails within its timeouts.
Fairness == \A e \in Execution : WF_vars(Work(e))

FairSpec == Spec /\ Fairness

---------------------------------------------------------------------------
(* Properties *)

\* A file is shown as processed only when every generated object that a
\* reader will derive from the published paths exists, and all of them come
\* from the same execution (or, for an old file, from before executions had
\* prefixes): two workers of one job cannot mix their outputs.
ReadersFindEverything ==
  Ready => \E s \in Prefix :
             \A k \in ReaderNames(format) : objects[ReaderRoot(published)][k] = s

\* README: "Failed ownership checks stop further storage operations".  A
\* worker whose lease is gone stores at most the one object whose upload was
\* in flight.
OneObjectAfterLoss == \A e \in Execution : late[e] <= 1

\* While a worker owns the job the progress users poll does not go back:
\* no worker that lost the job earlier still writes to it.
ProgressGrows ==
  [][lease.live /\ lease'.token = lease.token => job'.progress >= job.progress]_vars

\* The outputs readers see, as PublishedOutputs promises them.
Promise == INSTANCE PublishedOutputs WITH
  Source <- Prefix, keys <- ReaderNames(format), ready <- Ready, content <- ReaderView

\* Outputs appear at once, are those of one execution and never change.
KeepsPromise == Promise!PromiseSpec

\* Who runs the task.
Running == {e \in Execution : Active(e)}

Ownership == INSTANCE JobOwnership WITH
  Worker <- Execution, Nobody <- NoExecution,
  status <- job.status, retries <- job.retries, active <- Running

\* The job is claimed, left and recovered as JobOwnership promises, whatever
\* the transfers and the heartbeat do in between: this is the interface to
\* Processing, which has all of it as one step.
KeepsOwnership == Ownership!Spec

\* A worker that lost its job ends.
StaleWorkersStop ==
  \A e \in Execution : Active(e) /\ ~ Owns(e) ~> pc[e] = "done"
============================================================================
