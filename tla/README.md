# Verification of the drone survey service

Engineers upload the files of a drone survey; the service stores them,
processes each with a background job, shows when the survey is ready, and takes
it through a review. This directory holds TLA+ specifications of that core, the
TLC configurations that check them and proofs that TLAPS checks. Paths such as
`processing/services/retry.py` are below `src/apps/`.

## The system

| Component | State it keeps | Operations | Hard behaviour |
|---|---|---|---|
| processing: dispatch (`processing/services/dispatch.py`, `tasks.py`) | `ProcessingJob.dispatch_*`, `celery_task_id`, the broker's queue | dispatch after commit, confirm, record a failure; beat sweeps of stale queued and expired running jobs | crash between commit, publish and confirm; ambiguous publish; late confirmation; two dispatchers of one job |
| processing: execution (`retry.py`, `execution.py`, `lease.py`) | `ProcessingJob.status`, `retry_count`, lease; `SurveyFile.status` | claim, heartbeat, complete, schedule a retry, give up, manual retry | redelivered messages, several workers on one job, lease expiry, two-transaction failure path |
| processing: converters (`raster.py`, `model_processing.py`, `artifacts.py`) | a temporary directory, objects in storage | tiles, previews, point clouds, bundles put together from their files | a converter may hang or lose its job between two uploads; tiles at the edges of a raster; files stored under cleaned names |
| surveys (`surveys/services.py`) | `Survey.status`, `processing_status`, `approved_by` | lock, processing state, workflow state, readiness, archive, metadata | two writers of one status column |
| approvals (`approvals/services.py`) | `Approval`, `ApprovalHistory` | submit, approve, reject | races with uploads, retries and late workers; one decision recorded in three rows |
| files: admission (`files/services.py`, `storage.py`) | `SurveyFile`, assets, staged and canonical objects | admit an upload, list, download | checks before and after a slow transfer; database and object store commit separately |
| files: validation (`files/validation/`) | a buffer of one chunk | parse and check a dozen formats | chunks end anywhere; a hand-written parser that must agree with a grammar; names compared before and after cleaning |
| projects (`projects/services.py`, `views.py`) | projects, members, sites | create, update, transfer, archive, membership | ownership changes between the look of a view and the transaction |
| access control (`access_control/`) | users, roles | token resolution, user administration, demo access | a role refreshed from a token while its user owns projects |
| audit (`audit/`) | append-only events | record, list | foreign keys of every entry lock rows |
| maps, models3d | measurements; reads of ready files | layers, tiles, models, measurements | keys derived from a published path; inclusive limits of tile ranges |
| config | settings | Celery policy, beat schedule, throttles, health | assumptions of the above |
| front end (`static/js`) | browser state | polling, upload progress, viewers | nothing the server trusts |

The components interact through the database and the broker. Every transaction
that changes the state of a survey, a file or a job first locks the project
row, then the survey row, then the job row (`lock_survey_for_workflow`,
`_load_job_context`); dispatching locks the job row alone and its other writes
are single conditional UPDATEs. After a commit a callback publishes a message,
outside any transaction, and it is not an outbox: the message may be missing,
doubled or late, and two beat sweeps repair what was lost. Workers are fenced by
a lease (a token and an expiry) in the job row, which each of their
transactions checks.

What makes the parts correct:

- *processing*: a completed job stays completed; a worker without its lease
  writes nothing; a job fails only after its automatic retries; a retry's delay
  is kept; the file, job and survey rows tell one story; a survey whose jobs
  are all over says how they ended; every job settles.
- *surveys and approvals*: a survey under review keeps its data set and its
  status; the three records of the review agree; the creator approves nothing.
- *execution and readers*: outputs appear complete and at once and come from one
  execution; a worker that lost its job stores one more object at most.
- *files*: a committed file has its objects; size and duplicate limits hold
  under concurrency; nothing is admitted into a closed survey.
- *validation*: what is accepted is well formed, whatever the chunks; the worker
  comes to the verdict of the admission and finds the files a bundle refers to.
- *tiles*: data are on a tile of every level, tiles nest, and the tiles that are
  stored are the ones served.
- *projects and access control*: every project has an active manager; rights
  are judged by the rows as they are when a transaction writes; an archived
  project is frozen; the audit log and the rows agree.
- *all transactions*: they do not wait for each other in a circle.

## Modules

| Module | What it is |
|---|---|
| `SurveyLifecycle` | the abstract specification: what becomes of each file and where the survey is, with no queues, leases or retries |
| `Processing` | jobs, files, the survey row, dispatch calls, the broker, workers, sweeps, time |
| `Workflow` | extends `Processing` with the review, its history and the archiving of surveys and projects |
| `PublishedOutputs` | the abstract specification of what readers of a processed file are promised |
| `JobOwnership` | the abstract specification of one job and who owns it, which `Processing` and `Execution` both implement |
| `Execution` | what `Processing` has as one step, "working": transfers, lease checks, heartbeat, progress, publication; and the readers; implements `PublishedOutputs` |
| `SurveyIntake` | the abstract specification of admission: what files a survey may get |
| `UploadAdmission` | concurrent upload requests, the object store and the file rows; implements `SurveyIntake` |
| `Bundle` | the names in an upload: related assets at the admission, and the directory of the worker |
| `JsonReader` | the incremental JSON reader with the glTF parser on it |
| `JsonText` | `JsonReader` compared with itself when the whole text is in its buffer |
| `Coordinates`, `GeoJson` | the summary that the GeoJSON validator keeps of coordinates; the validator |
| `TilePyramid` | the tiles of a raster and the requests for them |
| `ProjectAccess` | users, projects, members, sites, surveys and measurements under concurrent requests |
| `LockOrder` | the row locks of every transaction, in order |
| `ProcessingProofs` | theorems about `Processing` and `Workflow`, for all values of the constants; that both implement `SurveyLifecycle` |
| `AdmissionProofs`, `ExecutionProofs`, `ProjectAccessProofs`, `PyramidProofs`, `LockOrderProofs`, `BundleProofs` | theorems about the module of that name, the same way |
| `ContentProofs` | theorems about `JsonReader` and about `Coordinates` and `GeoJson` |
| `MC...` | symmetry sets, inputs and function values for TLC; the grammar that `JsonReader` and the types that `GeoJson` are compared with |

`Workflow` composes the pipeline with the review. `Processing` and `Execution` meet at `JobOwnership`: who may
move a job and when, which each is shown to keep; between a claim and its end
`Processing` has one step and `Execution` the transfers, and the broker is left to
`Processing` (in `Execution` a queued job may be claimed at any time). The other
modules meet at an interface that each states for itself:
`UploadAdmission` opens the step `AdmitUpload` of `Processing`; `Bundle`,
`JsonReader` and `GeoJson` open the verdict that `UploadAdmission` chooses;
`TilePyramid` opens the uploads that are one name in `Execution`; `LockOrder` has
of every transaction only its locks, which is what allows the others to have a
transaction as one step.

### Processing

| Variable | In the code |
|---|---|
| `job` | `ProcessingJob`: `status`, `retries` = `retry_count`, `dispatch` = `dispatch_status`, `hasTask` = `celery_task_id` is set, `available` and `overdue` for its timestamps |
| `lease` | `lease_token`, and whether `lease_expires_at` is in the future |
| `file`, `survey` | `SurveyFile.status`; `Survey.status` and `processing_status` |
| `dispatcher` | where each call of `dispatch_processing_job_safely` is: armed (about to run), sending (row claimed and committed), confirming (published) |
| `messages` | how many messages for the job the broker holds |
| `worker` | where each execution of a task is: working, givingUp (`schedule_processing_retry` returned None), retrying (the retry is committed but not published) |

A transaction is one action, because all of them take the same locks first, or
are one UPDATE; the program counters hold what a process does between two
transactions, and every other action may run there. `ClaimJob` is
`_mark_job_running`, `CompleteJob` is `_mark_job_completed` with its aggregate,
`ScheduleRetry`, `RefuseRetry`, `MarkFailed` and `RetryTask` are the exception
path of `_run_processing_task`, `RequeueExpired` and `FailExpired` the two
branches of the sweep of leases. `AbandonTask` stands for every way an execution
ends without a write: a lost lease, a database error, a refused completion, a
`task.retry` that Celery's own counter refuses.

What is abstracted:

- Clocks. `dispatch_available_at` is kept as null, future or past;
  `overdue` says whether the stale-queue sweep would select the row; the
  expiry of a lease is a flag. Time passes by actions of its own, so a sweep
  that works with the time of its start is covered: it only acts later than the
  flag was set, and it checks the row again under its lock.
- Heartbeats. A renewal keeps a live lease live and cannot revive another, so
  it changes nothing of this state; `LeaseExpires` may come at any time.
- The batch limit of the sweeps: a sweep may take any one job at any time,
  which is more behaviours than a bounded batch has.
- `progress_percent`, paths, error texts, audit events and timestamps for display.
- Refused requests (a wrong actor, a bad file, a duplicate) change no row here.

`Attempt` and `Dispatcher` are the executions and the calls that exist at once
for one job, not over its life: an identity is used again when no execution
holds it and no row names it, as for a fresh uuid. A dispatch call for which no
identity is free, and a message beyond `MaxMessages`, are dropped, which the
code's faults allow anyway.

Definitions introduced as "a slip" are not part of a specification. Each is a
mistake somebody could make in the code of the definition after it, and
PROJECT.json names the property that fails with it.

### Workflow

`approval`, `approvedBy` and `history` are the `Approval` row,
`Survey.approved_by` and the `ApprovalHistory` rows. Any project manager is
allowed to act as the owning one, because `update_project` may hand the project
over between two requests; this only adds behaviours. An engineer is one
assigned to the project. Archiving a project stops uploads but neither manual
retries nor the review, as in the code.

### UploadAdmission

| Variable | In the code |
|---|---|
| `request`, `done` | where each call of `admit_uploaded_file` is, and how many of its parts (the file, then its assets) the loop it is in has dealt with |
| `objects` | the objects the request has made: a staging key and a canonical key for each part |
| `todo` | the keys `_cleanup_storage_objects` has still to delete |
| `rows` | the committed `SurveyFile` rows with their assets, named by the request that made them |
| `lock` | who holds the project and survey rows (`lock_survey_for_workflow`) |
| `open` | the project is active and the survey in one of `ALLOWED_UPLOAD_SURVEY_STATUSES` |
| `impaired` | an observation, in no guard: uploads hit by a fault of which no handler learns or which a handler only logs |

The transaction is not one action here, because it calls the object store in
between: `CreateRows` takes the lock and inserts, `CopyPart` and `DeleteSource`
are the two calls of `promote_object`, `Commit` ends it. No other request
sees the uncommitted rows, so they are not in `rows`; the lock keeps other
requests out. Each storage call may fail with or without its effect
(`StagingFails`, `Abort`, `DropFails`, `CleanObject`), and a process may die
anywhere (`Crash`). `Refuse` and `RefuseLocked` are enabled always, since the
actor may be refused and a statement may fail; `Accepted` guards only the way on.
A staging key carries a fresh uuid and a canonical key the id of the row, so
requests share no key. `CloseSurvey` is one step for submission and the
archiving of the project; that a rejected survey stays closed and a project is
not reopened is the code's.

`CommitAnswerIsLost` says whether a COMMIT may be durable while its answer is
lost with the connection. PostgreSQL and the driver do not exclude it, so it is
TRUE in `admission_live` and in `admission_lost`, and `IntakeCorrect` and
`KeepsIntake` hold for both values by proof. `FilesAreStored` and
`AnswersAreTrue` need it to be FALSE.

### Execution

| Variable | In the code |
|---|---|
| `format` | `SurveyFile.format`, which decides the converter and so the plan: the downloads, reports of progress and uploads of `_process_file`, in order |
| `job`, `lease` | the row: `status`, `progress_percent`, `retry_count`; `lease_token`, `lease_expires_at > now()` |
| `published` | `preview_path` and `converted_path` |
| `objects` | object storage: prefix, name, and which execution wrote the object |
| `pc`, `at` | where each execution is, and the step of its plan |
| `lost` | `ProcessingHeartbeat._lost` |
| `late` | an observation, in no guard: the uploads that finished after the lease was gone |

`StartTransfer` is the check of the lease before a transfer, `Transfer` the
effect in the store, `EndTransfer` the check after it; the lease may pass to
another worker between any two. Readers keep no list of objects: `ReaderRoot`
and `ReaderNames` are `generated_object_root` and the names that the maps and
models services append to it. All tiles stand for one. A converter is one step
that succeeds or raises.

### ProjectAccess

| Variable | In the code |
|---|---|
| `user`, `project`, `member`, `site`, `survey`, `measurement` | the rows |
| `audit` | how often each addition, removal, archiving and so on was recorded |
| `pc`, `asked` | where a request is, and what it asks for |
| `actor` | `request.user`, as the authentication returned it |
| `seen` | the rows the view looked at before the service was called |
| `answer` | the kind of the response |

A request authenticates (`resolve_active_user_from_external_identity`, which may
write the role that the token has), its view looks at the rows, and one
transaction decides again under the lock of the project. These are three steps,
and the rows change in between. What the code does without a lock is a step of
its own: `CheckUser` and `ChangeUser` are the two halves of `update_local_user`,
`AnswerAdd` reads the list of members after the commit. A transaction is one
step: they all lock the project first. Two transactions that meet at a foreign
key, where one fails with an `IntegrityError`, are not modelled. The sets of
projects, sites, surveys and measurements bound how many are created. In the
runs tokens carry the role of the row (`TokenRole = {}`); the theorems hold for
any set.

### JsonReader and GeoJson

| Variable | In the code |
|---|---|
| `rest`, `partial`, `buffer`, `eof` | what is left of the upload, the bytes the UTF-8 decoder holds, `_buffer`, `_eof` |
| `stack` | Python's call stack: which object or array, and where in it |
| `token`, `uri`, `asset`, `references` | the string or number being read; what the glTF parser collects |

A step of `JsonReader` is one look at the next character, or one `_fill`. A byte
is a structural character, a key or a value written as one letter, a half of
`null`, or one byte of a character of two. Not modelled: `\u` escapes, the
bounds of 256 characters for a token and 4096 for a uri, the depth of the
recursion. "buffers" stands for buffers and images, which share their code.

What the chunks may change is stated in `JsonText`. Its `text` is what the reader
has not looked at yet: the buffer, and the characters that the decoder will make of
the bytes it holds and of the rest of the file. The abstract reader is an instance
of `JsonReader` that has `text` in its buffer and no file (`INSTANCE ... WITH`);
`ReadsAsWhole` says that every step on a well encoded upload is a step of that
reader or changes nothing of it. Uploads that are not well encoded are left out:
the chunk with the bad byte is refused before the characters in front of it are
read, so how far the reader comes there depends on the chunks.

`GeoJson` has one step, from an upload to the answer (`upload`, `answer`); what it
is about are functions. `Summary` is what the validator keeps instead of the
coordinates: depth, first and last position, smallest counts, all rings closed.
`ObjectType` is `_parse_geojson_object`, the type it leaves behind or "". They are
compared with definitions by types that read the whole tree (`IsCoordinates`,
`IsGeoJson`). Characters are `JsonReader`'s; here a value is a pair of a tag and
what it holds. The constants are the set of values in question, `Value`, and the
length of the text of each, `Length`; `ValueAssumption` says that the values
within a value are in the set and their texts are shorter, which is so of
any JSON text. All functions are recursive over `Value`.

### Bundle

| Variable | In the code |
|---|---|
| `upload`, `verdict` | the request, and what `validate_upload` and `_validate_related_assets` say of it |
| `file` | `SurveyFile` and its `SurveyFileAsset` rows: original and stored names, sizes left out |
| `phase`, `disk`, `staged` | the worker: its temporary directory, path by path |

A name is a stem and an extension; `Clean` and `Lower` are what
`sanitize_filename` does to them, so that two names can become one. What the
parsers of the binary formats accept is a constant, `Formats`. The admission is
one step, the worker writes its files one by one. `Convert` writes what is
generated (`Outputs`) into the same directory: `preview.glb` and `model.glb`, or
`cog.tif` and `preview.png`. It fails where a path of the manifest has made a
directory of such a name; an existing file is replaced. A raster named `cog.tif`
is copied onto itself, which may fail or not: that is GDAL's affair. Apart from
that GDAL, trimesh and PotreeConverter succeed here; that they may raise
on a content is in `Execution`.

### TilePyramid

| Variable | In the code |
|---|---|
| `raster` | the file: its bounds, its size, its pixels with data, whether it names a no-data value |
| `maxZoom`, `zoom`, `x`, `y`, `phase` | the loops of `_generate_xyz_tile_pyramid` |
| `ranges` | `tile_matrix_bounds` |
| `tiles` | the objects stored |
| `answer` | the answer to one request for a tile |

Positions are integers on the square of the Mercator projection, so the
arithmetic is exact and floating point is not modelled; pixels are points. That
the bounds of a raster across the antimeridian come with a west greater than the
east is how rasterio's `transform_bounds` documents them.

### LockOrder

`script` is the list of the row locks of a session's transaction and `done` how
many it holds. The scripts are read off the services: `select_for_update` is an
"update", an UPDATE a "write", and a foreign key that a statement sets is a
"share", taken at COMMIT because Django declares its constraints deferred, in the
order of the statements. Which of the modes exclude each other, and that locks
are kept to the end of the transaction, is PostgreSQL's. Early returns and errors
are `Rollback`, possible at any time.

## Runs

| Run | Instance | Shows |
|---|---|---|
| `processing_faults` | one file, 2 executions, 2 dispatch calls, 2 messages, 3 retries, no symmetry; 131,000 states | the inductive invariant (types, agreement of the tables, retry budget), ownership (a completed job stays completed), fencing, backoff; every job settles; the fair lifecycle is implemented |
| `workflow_review` | two files, one execution and one dispatch call each, no automatic retry, creator among the reviewers; 780,000 states | READY and the outcome of a survey; the records of the review agree and are not overwritten; the data set is frozen; the lifecycle is implemented |
| `admission_safety` | three uploads: a file with one asset, the same file alone, another file as large as the first; the limit admits the first two or the last two, not the first and the last; 980,000 states | rows and objects agree, nothing is left behind, answers are true, `SurveyIntake` is implemented |
| `admission_live` | the two with the same content, commits may go unconfirmed; 38,000 states | every request is answered |
| `admission_lost` | the three of `admission_safety`, commits may go unconfirmed | a violation of `FilesAreStored`, see *Findings* |
| `execution_lease` | two executions, one automatic retry, all six kinds of plan, no symmetry; 470,000 states | ownership as in `Processing`, one late object at most, progress is the owner's, `PublishedOutputs` is implemented, so that readers find everything; a worker that lost its job ends |
| `access_rows` | three requests of any kind; an administrator, two managers, an engineer, two projects (one to be created), two sites, two surveys (one to be created); 1.3 million states | rights are judged by the rows written; an archived project is frozen; the audit log agrees; nothing is left without its parent |
| `gltf_grammar` | every document one edit away from four base documents, or cut off; chunks of two, three and all bytes; 173,000 states | the reader agrees with a grammar stated without it, collects all references, keeps no more than a chunk and a word in its buffer, does at each step what it would do with the whole text before it, and ends |
| `geojson_shapes` | 16,000 objects, coordinate trees of every depth among them; 32,000 states | what the validator accepts is sound, and what GeoJSON is by the types is accepted |
| `bundle_gltf` | 42,000 uploads whose names differ in what cleaning removes, or whose manifests have directories named like files or outputs; 93,000 states | the admission is exact; the worker agrees with it, but for the clashes of paths that are named, and rebuilds what the manifest says |
| `tiles_levels` | 600 rasters on a square of 12 units, four levels, requests for every tile; 250,000 states | data are tiled, tiles nest and are served |
| `locks_tree` | three sessions, one project with two rows of each kind, every transaction; 500,000 states | a circle of waits within a project has a transaction of a measurement in it |

A run has one instance and all that it can show; where liveness is among it there
is no symmetry. Type invariants are proved for all values (*Proofs*) and only
checked where another property has them as a part: `InductiveInvariant`, and
`BufferIsBounded` in `JsonReader`. So is `CompletedIsFinal`: the run has the part
of it that `KeepsOwnership` says, `CompletionFinal` proves all of it.

*Why the bounds are enough.* A worker that lost its lease meets the one that has
it now: two executions at a time, and an identity that has ended is used again,
so any number of them one after the other. A stale dispatch call needs a second
to overtake it. Doubling needs two messages. The real retry budget, 3, is used
where the budget matters; where the interleaving of two files matters, manual
retries alone reach every status of both. Beyond two files the aggregate only
asks whether some file or all files are in a state; the proofs hold for every
number, and for automatic retries of several files. For uploads, two of the same
content, which fit together so that the second is found to be a duplicate, and a
third that competes for the size limit meet every branch of the locked checks;
two parts give every partial promotion.

In `Execution` two workers meet every mix of the outputs of both, for every format. In `ProjectAccess` a property is broken by a
request that overtakes another one, and two of them prepare the state for a
third. A document one edit from a valid one has every kind of first error, and
chunks of two bytes end at every place, within a character too. A square of 12
units has tiles whose edges fall between units at every level but the first, and
the rasters begin and end at, before and behind them. A circle of waits within a
project has at most three members that differ (project, one row, another row);
the theorem covers any number.

TLC's own deadlock check is off except in `locks_tree`: a
survey whose files are completed waits for users, and an archived one is at its
end; requests that are answered, documents that are read and rasters that are
tiled have nothing more to do.

*Fairness.* Time passes, beat runs its sweeps (both processes must run, as
the repository's README says), a dispatch call ends and is not refused for
ever by the database or the broker, a worker is up and messages are not lost
for ever, an execution ends. The lease of a worker that is gone expires; that of
a running one need not. That an execution ends is an assumption about the
converters: there is no task time limit, and the heartbeat of a hung
converter renews its lease for ever. Crashes, losses, redelivery and requests
have no fairness: they may happen at any time or never. An upload request that
has begun goes on or fails (`WF` of `RequestStep`): its storage and database
calls return or raise. Weak fairness suffices for the lock, because each request
takes it once and nobody asks again. In `execution_lease` a step a worker may
take is taken (`WF` of `Work`): a transfer returns or raises within its timeout;
nothing is assumed of claims, expiry or recovery. In `gltf_grammar` the validator is
a sequential program that runs (`WF` of `Next`).

## Findings

`admission_lost` violates `FilesAreStored`. `admit_uploaded_file` wraps its
transaction in `except Exception`, which deletes all objects of the upload. The
exception may be the COMMIT's own: the transaction is durable, the
connection breaks before the answer, the handler deletes the canonical
objects, and the survey keeps a file, and a queued job, without content. A
comment in `processing/services/dispatch.py`, at line 25, states the intent: a failure
after the commit "must never make the caller clean up objects that now have
durable SurveyFile/ProcessingJob rows". The dispatch callback respects it;
the COMMIT does not. The next upload of the same content is answered as a
duplicate of the row without content.

### What the code does not keep

Properties that documents, comments or tests state, that their modules define,
and that TLC refutes within two minutes when one is named in the configuration given
here. They have no run of their own.

`OwnersAreManagers` (`MCProjectAccess_rows.cfg`, as the next three): `update_local_user` checks that a user owns no project and then
writes the row, without a lock in between; `create_project`, or a transfer to the
user, may commit there. The project is left with a manager who is not one.

`ArchivedRowIsFrozen`: `update_project` does not look at the status, so an archived
project is renamed and transferred, although the documents call it frozen.

`AddedMemberIsAnswered`: the answer to an addition is searched with `next()` in a list
that is read after the commit. A removal in between makes it raise, and a
committed addition is answered with a server error.

`NullManagerIsRefused`: a transfer to null passes the serializer and fails on `None.pk`
instead of being refused with the message there is for it.

`ValidIsAccepted` (`MCJsonReader_grammar.cfg`): the parser looks at the character after `"asset":` without
skipping blanks, so the usual `"asset": {...}` is refused.

`NeverCrashes` (`MCJsonReader_grammar.cfg`): a last chunk that holds nothing but the first byte of a character
leaves the buffer empty while `_fill` reports data; the next look is an
`IndexError` that nobody catches.

`GeometriesAreGeometries` (`MCGeoJson_shapes.cfg`): a condition that always holds stands where the type of the
nested geometry should be checked; a feature is accepted as a geometry.

`AcceptedIsJson` (`MCGeoJson_shapes.cfg`): coordinates that are no array take the commas after them along,
so a text that is no JSON is accepted.

`ReferencedAssetsAreAvailable` (`MCBundle_gltf.cfg`): the assets of an OBJ file are put under their cleaned names, while
the file refers to the original ones.

`BundlesAreConverted` (`MCBundle_gltf.cfg`): the documents say that the worker converts
a glTF file with external files into `model.glb`. A manifest that refers to
`preview.glb/a.bin`, `model.glb/a.bin` or `a.gltf/a.bin` (in a file `a.gltf`) is admitted, and
then a directory has the name of a file: staging or the export raises, at
every attempt. `WorkerAgrees` says that these are the only ones.

`RedirectsReachTiles` (`MCTilePyramid_levels.cfg`): a tile without data is not stored but lies within the range that
requests are checked against; the redirect leads nowhere.

`AllDataIsTiled` (`MCTilePyramid_levels.cfg`): `min` and `max` put the bounds of a raster across the
antimeridian in order, and the columns of the other side of the world are tiled.

`TreeNeverDeadlocks` (`MCLockOrder_tree.cfg`): `create_measurement` and `delete_measurement` lock no project.
At COMMIT the foreign key of the measurement locks the survey and that of the
audit entry the project, against the order of everything else; a review, an upload
or a worker that holds the project and asks for the survey waits, and so does the
measurement, until PostgreSQL ends one of them. `DeadlocksMeasure`, which is proved, says that there
is no circle but those with such a measurement. A worker's transaction is repeated by
its retry, a request is answered with an error.

## Proofs

Theorems 1 to 8 are in `ProcessingProofs`. They hold for every set of files,
executions, dispatch calls and users and every `MaxRetries`, from the three named
assumptions of `Processing` and that of `Workflow`: `MaxRetries` is a natural
number, the bound on messages is positive, NULL is no token and no user, the
creator is a user.

1. `TypeCorrect`: `TypeOK` is inductive; the interesting case is the retry
   counter, which two components increment.
2. `OutcomeCorrect`: `RowsAgree`, `ReadyMeansProcessed`, `OutcomeIsRecorded` and
   `FailureIsReal` are inductive together with the types. The steps fall into
   six kinds plus the quiet ones, by what they do to the three tables
   (`StepKind`); one lemma per kind. The completion needs `RowsAgree`, because
   its aggregate reads the file table and the job table as if either could
   speak for both.
3. `BudgetCorrect`: `FailedAfterRetries` is not inductive. The worker that was
   refused a retry writes the failure in a later transaction, so
   `GivingUpIsJustified` carries the fact that the budget is used up as long as
   the lease is held. `WaitingIsScheduled` describes the rows with a delay. The
   run has them as parts of `InductiveInvariant`.
4. `InvariantCorrect`: the conjunction, `InductiveInvariant`, which
   `processing_faults` checks too.
5. `CompletionFinal`, `FencingCorrect`, `BackoffCorrect`: the action properties,
   from the invariant. `OwnershipCorrect`: each job, with its lease and its
   executions, implements `JobOwnership`, step by step. That a job is given up only
   with its retries used up needs `GivingUpIsJustified` for the worker's own way and
   the branch of the sweep for the other (`SweepGivesUpLast`).
6. `ImplementsLifecycle`: under `Stage` and `Phase` each kind of step is one
   action of `SurveyLifecycle` or a stutter.
7. `OutcomeCorrectUnderReview`, `ReadyCorrectUnderReview`, `FrozenCorrect`,
   `ReviewCorrect`, `WorkflowImplementsLifecycle`: the review writes neither
   jobs, leases nor files, so the pipeline's invariants survive it, and its
   decisions are actions of `SurveyLifecycle`. For the same reason the whole
   invariant (`InvariantUnderReview`), the action properties of 5
   (`FencesUnderReview`) and the ownership of jobs (`OwnershipUnderReview`) hold
   of the composition.
8. `HistoryCorrect`: `HistoryTellsTheReview` is inductive with the types; each
   of the four review actions appends one entry, and the pipeline appends
   none and leaves a survey under review alone.
9. `IntakeCorrect`: the invariant says who is inside the transaction: only the
   holder of the lock, and what it checked on entry (open, room, new content)
   still holds, because `rows` and `open` change only under the lock. The sum
   of sizes is not computed; the proof only needs that both specifications
   sum over the same rows.
10. `AnswersCorrect`, `StoredCorrect`, `AdmissionTypeCorrect`,
    `NothingLeftCorrect`: a row exists exactly for the requests answered with
    created; a request that promotes has the canonical objects of the parts it has
    done, and a request that cleans up has no row. `AdmissionTypeOK` needs that a
    part that is copied is not the one after the last (`TypesInv`), and
    `NothingIsLeftBehind` that the objects of a request are, at every place of its
    loops, exactly the parts before and after it, and within the keys to be
    deleted once it cleans up (`LeftOf`). `SuccessCorrect` is the half of
    `AnswersCorrect` that needs nothing of COMMIT's answer: who was answered with
    created has a row.
11. `OwnershipCorrect`, `ReadersAlwaysFindEverything`, `ExecutionKeepsPromise`, `AtMostOneLateObject`,
    `ProgressCorrect`, `ExecutionTypeCorrect` (`ExecutionProofs`): an
    execution writes under its own prefix alone, it has stored every upload of
    its plan before the step it is at, and a phase fits the plan. So what it
    publishes is complete, and nobody else can write there later. An execution that
    stored an object too late owns nothing and has no storage step left
    (`LateIsOver`), since only a claim gives the lease; and nothing the owner has
    left to report is less than its row shows (`ReportsAhead`). That an execution
    implements `JobOwnership` is the other side of 5: only its claim, its
    transactions and the end of its lease are steps there, and a transfer is none.
12. `OwnerAccess`, `ArchivedFrozen`, `AuditAgrees`, `ParentsStay`, `AccessTypes`
    (`ProjectAccessProofs`): the invariant adds to the properties only that a
    request knows its actor and its input, and that a project to be created has a
    manager; the rest follows from what each transaction reads under its lock.
13. `PyramidIsTyped`, `PyramidServesTiles`, `PyramidTilesData`, `PyramidIsWhole`,
    `NoTileIsMasked` (`PyramidProofs`): what the loops have passed is stored unless
    masked, and nothing else is. That the tile of a pixel is in the range of its
    level needs that the division is monotone, which is proved from the definition
    of `\div`. The pyramid has no holes because positions are rounded down: half
    of a tile's position is the position of the tile that covers it one level up,
    so the ranges of the levels nest, and a tile around one with data has data.
    That a stored tile is never one to be masked is `NoTileIsMasked`.
14. `CirclesMeasure`, `LocksAreTyped` (`LockOrderProofs`): every script but those of
    measurements is gated: a row of a project's tree is its first lock, or comes after that
    project's own, in no stronger mode. Two such members of a circle of waits within a
    tree would both hold the same project, one of them for update, which the
    lock modes exclude. The order among the rows below the project plays no part,
    which is why the cascade of `delete_site`, against that order, does no harm.
15. `WorkerComesToTheSame`, `BundleIsRebuilt`, `AdmissionIsRight` (`BundleProofs`):
    the invariant (`BundleInv`) says that the rows are those of an upload that
    passed, that until the conversion the directory of the worker holds the primary and what
    was staged and nothing else, and that what was staged is still there. It stays because
    stored names are injective: the admission refused two references of one
    cleaned name, so no later file is written over an earlier one, and because no file
    is written above or below another. Each format that the table of the admission
    accepts has a branch in the worker, so what was admitted fails only where a
    file, staged or generated, and a directory of the manifest have one path
    (`ClashNests`), and then it does fail: once everything is staged and generated
    there is no such pair (`ConvertedIsFlat`). A raster named like its copy is the one
    exception, because its conversion may end either way.
    The admission is exact because the manifest and the assets are each refused
    when two of their names are stored by one.
16. `BufferStaysBounded` (`ContentProofs`): a byte that the decoder holds
    back begins no character of its own, so a chunk decodes to at most as many
    characters as it has bytes (`DecodedIsShort`); and a chunk is read only when
    the buffer holds fewer characters than the reader wants, at most three.
17. `ChunksDoNotMatter`, `AcceptedIsText` (`ContentProofs`): the reader with a
    chunk in its buffer implements the reader with the whole text (`ReadsAsWhole`),
    step by step. The invariant (`TextInv`) says that the file is the bytes that were
    decoded, which are well encoded, the bytes that the decoder holds, and the rest.
    Decoding goes piece by piece (`Joins`), so `_fill` moves characters
    within the text and leaves the text as it is (`FillKeepsText`); it cannot leave
    a string with an empty buffer unless the file ends within a character. Where
    the code decides, it has as many characters as its answer depends on
    (`SeesTheText`): one, or for null the word and the character behind it; so the
    same characters fit (`FitsTheText`) and each disjunct of the grammar is the
    same disjunct there (`GrammarReadsText`). No character is empty, so an empty
    look is the end of the file, not of a chunk (`NoCharIsTheEnd`), and what is
    accepted was decoded to its last byte.
18. `SummaryIsExact`, `AcceptedCorrect`, `GeoJsonCorrect` (`ContentProofs`): for any
    coordinates whatever, the summary suits a type if and only if they are the
    type's coordinates; so what is accepted is sound and no GeoJSON is refused.
    A value has no bound on its depth, so these are proved by induction over the
    length of its text, in the form the provers can use: the natural numbers are
    well-founded, so if a statement failed somewhere there would be a shortest value
    of which it fails (`SomeNumberIsLeast`, `Shortest`). The same argument shows
    that `Summary`, `ObjectType` and `Parts`, which are defined by recursion, are
    defined at all: a function that is right on the values up to a length exists for
    every length (`Recursion`). The rest goes level by level: what a
    summary tells of an array of positions it tells of an array of such arrays
    (`LevelsAreTold`), with the counts and the flags of one level for all the arrays
    there, and the first and the last position for whether a ring is closed.
    `PartsAreRead` says that every part of an upload that is accepted was accepted
    itself; `GeoJsonIsRead` that an object whose parts are read is read.

9 and 10 hold for every set of uploads with any contents, parts, sizes and limit, from the named
assumptions of `UploadAdmission` (`Parts` is positive, sizes are natural
numbers, `Nobody` is no upload, the flag is a Boolean). 10, but for the types and `SuccessCorrect`,
assumes `~ CommitAnswerIsLost` in its statement.

Sums are written as recursive functions, because the provers take no operator
as an argument and so cannot use the library's folds.

Only model-checked: `JobsSettle`, `KeepsLifecycleFairly`, `RequestsEnd`,
`StaleWorkersStop` and `ReadEnds`, which are liveness under fairness and out of
the prover's reach (the safety part of `KeepsLifecycleFairly` is 6); and
`AcceptedIsRead` and `CompactIsAccepted` of the JSON reader, whose grammar is
written with RECURSIVE operators, about which nothing can be proved. Their proof
would need an invariant that relates the call stack of the reader to the
grammar's derivation of the text read so far; that the chunks have no part in it
is 17. 11 to 18 hold for any executions,
formats and retries, any users, projects and requests, any square and rasters, any
sessions and rows, any names and uploads, any documents and sizes of chunks, and
any JSON values, from the named assumptions of their modules; `PyramidTilesData`
leaves out rasters across the antimeridian.

## Not modelled

- What GDAL, trimesh and PotreeConverter compute, and the parsers of the formats
  other than glTF and GeoJSON: sequential computations on one file, whose outcome
  is a choice here.
- Escapes with `\u`, percent-encoded references, bounds on tokens, and the depth of
  recursion, in the JSON reader; floating point, in the tiles; the distances and
  areas of measurements.
- The listings of the audit log, of surveys and of users, serializers and most of
  the views: they carry data and decide nothing. E-mail addresses and the creation
  of users: a row that nothing refers to yet.
- Circles of waits with a row of a user in them. The code promises no order for
  users, and such circles exist: two managers that hand their projects to each
  other, two administrators that change each other's e-mail.
- The front end polls and displays. The demo seed commands are for an empty
  development database. Settings, throttles and health checks are assumptions of the
  other modules. Migrations, tests and vendored assets have no behaviour of the
  running service.

## Plan

Done: the pipeline, the review, the admission, the execution and its outputs,
access to projects, the JSON formats, bundles, tiles, and lock order, with the
proofs above. What is left:

1. The composition of `ProjectAccess` with `Workflow`: the owning manager
   instead of any manager in the review.
2. The binary validators (GLB, LAS, PLY headers), as readers of sizes and offsets.
3. The order of users' locks, when the code has one.
