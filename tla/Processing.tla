---------------------------- MODULE Processing ----------------------------
(***************************************************************************)
(* The processing pipeline of one survey: the ProcessingJob and SurveyFile *)
(* rows, the aggregate status of the Survey row, the callbacks and the     *)
(* Celery beat tasks that dispatch queued jobs, the broker, and the        *)
(* workers that claim, process, complete, retry or give up a job           *)
(* (apps/processing, with the parts of apps/files and apps/surveys that    *)
(* its transactions write).                                                *)
(*                                                                         *)
(* Every database transaction of the code is one action: they all lock the *)
(* project, the survey and the job row first (or are one UPDATE), so they  *)
(* are serialised.  What happens between two transactions of a process is  *)
(* its program counter, and any other action may run there.                *)
(*                                                                         *)
(* Clocks are abstracted: a timestamp is kept as the answer to the only    *)
(* question the code asks of it (is the job still delayed, is it overdue   *)
(* for the stale-queue sweep, is the lease live), and the passage of time  *)
(* is the actions RetryDelayElapses, BecomesOverdue and LeaseExpires.      *)
(*                                                                         *)
(* A definition introduced as "a slip" is not part of the specification:   *)
(* it is a likely mistake in the code of the definition after it, with     *)
(* which a run must fail.                                                  *)
(***************************************************************************)
EXTENDS Naturals

CONSTANTS
  Job,          \* the files that may be uploaded, each with its one job
  Attempt,      \* lease tokens in flight at once for a job (fresh uuids)
  Dispatcher,   \* dispatch_processing_job_safely calls in flight for a job
  MaxRetries,   \* MAX_AUTOMATIC_RETRIES
  MaxMessages,  \* bound: messages for one job the broker holds at once
  NoAttempt     \* lease_token = NULL

ASSUME RetriesAssumption == MaxRetries \in Nat
ASSUME MessagesAssumption == MaxMessages \in Nat \ {0}
ASSUME NoAttemptAssumption == NoAttempt \notin Attempt

VARIABLES
  job,         \* the ProcessingJob rows
  lease,       \* their lease_token, and whether lease_expires_at > now()
  file,        \* SurveyFile.status
  survey,      \* Survey.status and Survey.processing_status
  dispatcher,  \* where each dispatch call is
  messages,    \* how many messages for the job the broker will deliver
  worker       \* where each execution of process_2d_file/process_3d_file is

vars == <<job, lease, file, survey, dispatcher, messages, worker>>

JobStatus == {"absent", "queued", "running", "completed", "failed"}

DispatchStatus == {"pending", "dispatching", "dispatched", "recovering", "failed"}

\* dispatch_available_at compared with the clock.
Availability == {"null", "future", "past"}

FileStatus == {"absent", "uploading", "processing", "ready", "failed"}

\* The states a survey reaches by uploads and processing ...
OpenStatuses == {"DRAFT", "UPLOADING", "PROCESSING", "FAILED", "READY"}

\* ... and the ones the review of it leads to.
LockedStatuses == {"PENDING_APPROVAL", "APPROVED", "REJECTED", "ARCHIVED"}

ProcessingStatus == {"pending", "queued", "processing", "completed", "failed"}

\* A row of processing_job.
JobRow == [status    : JobStatus,
           retries   : 0 .. MaxRetries,
           dispatch  : DispatchStatus,
           hasTask   : BOOLEAN,        \* celery_task_id is set
           available : Availability,
           overdue   : BOOLEAN]        \* the stale-queue sweep selects it

LeaseColumns == [token : Attempt \cup {NoAttempt}, live : BOOLEAN]

SurveyRow == [status : OpenStatuses \cup LockedStatuses, processing : ProcessingStatus]

DispatcherState == {"idle", "armed", "sending", "confirming"}

WorkerState == {"idle", "working", "givingUp", "retrying"}

TypeOK ==
  /\ job \in [Job -> JobRow]
  /\ lease \in [Job -> LeaseColumns]
  /\ file \in [Job -> FileStatus]
  /\ survey \in SurveyRow
  /\ dispatcher \in [Job -> [Dispatcher -> DispatcherState]]
  /\ messages \in [Job -> 0 .. MaxMessages]
  /\ worker \in [Job -> [Attempt -> WorkerState]]

NoLease == [token |-> NoAttempt, live |-> FALSE]

\* The row create_queued_processing_job inserts: the model's defaults.
NewJob == [status |-> "queued", retries |-> 0, dispatch |-> "pending",
           hasTask |-> FALSE, available |-> "null", overdue |-> FALSE]

\* No row yet.
AbsentJob == [NewJob EXCEPT !.status = "absent"]

Init ==
  /\ job = [j \in Job |-> AbsentJob]
  /\ lease = [j \in Job |-> NoLease]
  /\ file = [j \in Job |-> "absent"]
  /\ survey = [status |-> "DRAFT", processing |-> "pending"]
  /\ dispatcher = [j \in Job |-> [d \in Dispatcher |-> "idle"]]
  /\ messages = [j \in Job |-> 0]
  /\ worker = [j \in Job |-> [a \in Attempt |-> "idle"]]

---------------------------------------------------------------------------
(* Dispatching a queued job *)

\* A call of dispatch_processing_job_safely is about to run: in the on_commit
\* callback of a request, or in the loop that ends a beat task.  When every
\* slot of Dispatcher is taken the call is dropped, as if its process had
\* crashed first.
ArmDispatcher(j) ==
  \/ \E d \in Dispatcher :
       /\ dispatcher[j][d] = "idle"
       /\ dispatcher' = [dispatcher EXCEPT ![j][d] = "armed"]
  \/ /\ \A d \in Dispatcher : dispatcher[j][d] # "idle"
     /\ UNCHANGED dispatcher

\* Publishing to the broker; a message beyond the bound is lost there.
Publish(j) ==
  messages' = [messages EXCEPT ![j] = IF @ < MaxMessages THEN @ + 1 ELSE @]

\* A slip: the delay of a retry is not looked at.
DispatchableAtOnce(j) ==
  /\ job[j].status = "queued"
  /\ ~ (job[j].dispatch = "dispatched" /\ job[j].hasTask)

\* A slip: a task id is taken for a message that will still arrive.
DispatchableOnce(j) ==
  /\ job[j].status = "queued"
  /\ job[j].available # "future"
  /\ ~ job[j].hasTask

Dispatchable(j) ==
  /\ job[j].status = "queued"
  /\ job[j].available # "future"
  /\ ~ (job[j].dispatch = "dispatched" /\ job[j].hasTask)

\* The locked part of dispatch_processing_job.  Saving the row touches
\* updated_at, which is what makes a row with no dispatch_available_at stale.
ClaimDispatch(j, d) ==
  /\ dispatcher[j][d] = "armed"
  /\ Dispatchable(j)
  /\ job' = [job EXCEPT ![j].dispatch = "dispatching",
                        ![j].overdue = @ /\ job[j].available # "null"]
  /\ dispatcher' = [dispatcher EXCEPT ![j][d] = "sending"]
  /\ UNCHANGED <<lease, file, survey, messages, worker>>

SkipDispatch(j, d) ==
  /\ dispatcher[j][d] = "armed"
  /\ ~ Dispatchable(j)
  /\ dispatcher' = [dispatcher EXCEPT ![j][d] = "idle"]
  /\ UNCHANGED <<job, lease, file, survey, messages, worker>>

\* apply_async, after the commit and outside any transaction.
SendTask(j, d) ==
  /\ dispatcher[j][d] = "sending"
  /\ Publish(j)
  /\ dispatcher' = [dispatcher EXCEPT ![j][d] = "confirming"]
  /\ UNCHANGED <<job, lease, file, survey, worker>>

\* A slip: the confirmation filters on the status alone.
StillQueued(j) == job[j].status = "queued"

\* The two UPDATEs that follow apply to the row only as it was claimed.
StillDispatching(j) ==
  job[j].status = "queued" /\ job[j].dispatch = "dispatching"

ConfirmDispatch(j, d) ==
  /\ dispatcher[j][d] = "confirming"
  /\ job' = IF StillDispatching(j)
            THEN [job EXCEPT ![j].dispatch = "dispatched", ![j].hasTask = TRUE,
                             ![j].available = "past", ![j].overdue = FALSE]
            ELSE job
  /\ dispatcher' = [dispatcher EXCEPT ![j][d] = "idle"]
  /\ UNCHANGED <<lease, file, survey, messages, worker>>

\* Any exception of the call: the row could not be claimed, the broker is
\* unreachable, the answer of the broker was lost after it took the message,
\* or the confirmation failed.
FailDispatch(j, d) ==
  /\ dispatcher[j][d] # "idle"
  /\ job' = IF StillDispatching(j)
            THEN [job EXCEPT ![j].dispatch = "failed",
                             ![j].available = "past", ![j].overdue = FALSE]
            ELSE job
  /\ dispatcher' = [dispatcher EXCEPT ![j][d] = "idle"]
  /\ UNCHANGED <<lease, file, survey, messages, worker>>

\* The process dies, or recording the failure fails as well.
CrashDispatcher(j, d) ==
  /\ dispatcher[j][d] # "idle"
  /\ dispatcher' = [dispatcher EXCEPT ![j][d] = "idle"]
  /\ UNCHANGED <<job, lease, file, survey, messages, worker>>

---------------------------------------------------------------------------
(* Requests *)

\* A slip: an upload in flight is accepted until the survey is archived.
AcceptsLateUploads == survey.status # "ARCHIVED"

\* _validate_survey_accepts_uploads, checked again under the lock.
AcceptsUploads == survey.status \in OpenStatuses

\* A slip: only one of the two columns is written.
KeepStatus == survey' = [survey EXCEPT !.processing = "queued"]

\* A file of the survey waits for processing.
ReopenSurvey == survey' = [status |-> "UPLOADING", processing |-> "queued"]

\* The transaction of admit_uploaded_file that creates a file and its job.
\* Its other outcomes (a refused actor, size or content, a duplicate
\* checksum, a storage error) leave these rows as they were.
AdmitUpload(j) ==
  /\ job[j].status = "absent"
  /\ AcceptsUploads
  /\ job' = [job EXCEPT ![j] = NewJob]
  /\ file' = [file EXCEPT ![j] = "uploading"]
  /\ ReopenSurvey
  /\ ArmDispatcher(j)
  /\ UNCHANGED <<lease, messages, worker>>

\* manual_retry_processing_job, by an actor it accepts.
ManualRetry(j) ==
  /\ job[j].status = "failed"
  /\ job' = [job EXCEPT ![j] = [NewJob EXCEPT !.available = "past"]]
  /\ lease' = [lease EXCEPT ![j] = NoLease]
  /\ file' = [file EXCEPT ![j] = "uploading"]
  /\ ReopenSurvey
  /\ ArmDispatcher(j)
  /\ UNCHANGED <<messages, worker>>

---------------------------------------------------------------------------
(* Workers *)

\* A slip: only a running job is protected from a second message.
ClaimableUnlessRunning(j) ==
  /\ job[j].status # "running"
  /\ job[j].available # "future"

Claimable(j) ==
  /\ job[j].status = "queued"
  /\ job[j].available # "future"

\* A token no execution holds and no row names: uuid.uuid4().
Fresh(j, a) ==
  /\ worker[j][a] = "idle"
  /\ lease[j].token # a

\* A worker takes a message and _mark_job_running claims the job.  The
\* message stays unacknowledged until the execution ends.
ClaimJob(j, a) ==
  /\ messages[j] > 0
  /\ Claimable(j)
  /\ Fresh(j, a)
  /\ messages' = [messages EXCEPT ![j] = @ - 1]
  /\ job' = [job EXCEPT ![j].status = "running", ![j].overdue = FALSE]
  /\ lease' = [lease EXCEPT ![j] = [token |-> a, live |-> TRUE]]
  /\ file' = [file EXCEPT ![j] = "processing"]
  /\ survey' = [status |-> "PROCESSING", processing |-> "processing"]
  /\ worker' = [worker EXCEPT ![j][a] = "working"]
  /\ UNCHANGED dispatcher

\* The message is acknowledged and nothing happens.
IgnoreMessage(j) ==
  /\ messages[j] > 0
  /\ ~ Claimable(j)
  /\ messages' = [messages EXCEPT ![j] = @ - 1]
  /\ UNCHANGED <<job, lease, file, survey, dispatcher, worker>>

\* A slip: the token is compared, the expiry is not.
OwnsRunningJob(j, a) ==
  /\ job[j].status = "running"
  /\ lease[j].token = a

OwnsRunningLease(j, a) ==
  /\ job[j].status = "running"
  /\ lease[j] = [token |-> a, live |-> TRUE]

\* A slip: the count of the retries is off by one.
OneRetryLess(j) == job[j].retries + 1 < MaxRetries

RetriesLeft(j) == job[j].retries < MaxRetries

\* A slip: a file that no worker has started yet does not count.
StartedFiles(rows) == {k \in Job : rows[k].status \notin {"absent", "queued"}}

SurveyFiles(rows) == {k \in Job : rows[k].status # "absent"}

\* A slip: a failure of another file is forgotten.
AggregateWithoutFailures(rows, files) ==
  IF \A k \in SurveyFiles(rows) : files[k] = "ready" /\ rows[k].status = "completed"
  THEN [status |-> "READY", processing |-> "completed"]
  ELSE [status |-> "PROCESSING", processing |-> "processing"]

\* The survey row after one more file is ready: `rows` and `files` are the
\* job and file tables as the transaction of _mark_job_completed sees them.
AggregateStatus(rows, files) ==
  IF \E k \in SurveyFiles(rows) : files[k] = "failed" \/ rows[k].status = "failed"
  THEN [status |-> "FAILED", processing |-> "failed"]
  ELSE IF \A k \in SurveyFiles(rows) : files[k] = "ready" /\ rows[k].status = "completed"
  THEN [status |-> "READY", processing |-> "completed"]
  ELSE [status |-> "PROCESSING", processing |-> "processing"]

\* _mark_job_completed when the worker still owns the job.
CompleteJob(j, a) ==
  /\ worker[j][a] = "working"
  /\ OwnsRunningLease(j, a)
  /\ job' = [job EXCEPT ![j].status = "completed"]
  /\ lease' = [lease EXCEPT ![j] = NoLease]
  /\ file' = [file EXCEPT ![j] = "ready"]
  /\ survey' = AggregateStatus(job', file')
  /\ worker' = [worker EXCEPT ![j][a] = "idle"]
  /\ UNCHANGED <<dispatcher, messages>>

\* Processing raised: schedule_processing_retry.  The file and the survey
\* keep the state the attempt gave them, and the row claims to be dispatched
\* although task.retry has not published the message yet.
ScheduleRetry(j, a) ==
  /\ worker[j][a] = "working"
  /\ OwnsRunningLease(j, a)
  /\ RetriesLeft(j)
  /\ job' = [job EXCEPT ![j].status = "queued", ![j].retries = @ + 1,
                        ![j].dispatch = "dispatched", ![j].available = "future"]
  /\ lease' = [lease EXCEPT ![j] = NoLease]
  /\ worker' = [worker EXCEPT ![j][a] = "retrying"]
  /\ UNCHANGED <<file, survey, dispatcher, messages>>

\* schedule_processing_retry returned None: the retries are used up, or the
\* job is no longer this worker's.  _run_processing_task then calls
\* mark_processing_failed_permanently in a second transaction.
RefuseRetry(j, a) ==
  /\ worker[j][a] = "working"
  /\ ~ (OwnsRunningLease(j, a) /\ RetriesLeft(j))
  /\ worker' = [worker EXCEPT ![j][a] = "givingUp"]
  /\ UNCHANGED <<job, lease, file, survey, dispatcher, messages>>

FailPermanently(j) ==
  /\ lease' = [lease EXCEPT ![j] = NoLease]
  /\ file' = [file EXCEPT ![j] = "failed"]
  /\ survey' = [status |-> "FAILED", processing |-> "failed"]

\* mark_processing_failed_permanently when the worker still owns the job.
MarkFailed(j, a) ==
  /\ worker[j][a] = "givingUp"
  /\ OwnsRunningLease(j, a)
  /\ job' = [job EXCEPT ![j].status = "failed"]
  /\ FailPermanently(j)
  /\ worker' = [worker EXCEPT ![j][a] = "idle"]
  /\ UNCHANGED <<dispatcher, messages>>

\* task.retry publishes the next message; Celery ends this execution.
RetryTask(j, a) ==
  /\ worker[j][a] = "retrying"
  /\ Publish(j)
  /\ worker' = [worker EXCEPT ![j][a] = "idle"]
  /\ UNCHANGED <<job, lease, file, survey, dispatcher>>

\* The execution ends without another write and its message is acknowledged:
\* a lost lease or a database error (ProcessingLeaseLost, also from the
\* heartbeat), a completion or failure the row refuses, or task.retry
\* refusing or failing to publish.
AbandonTask(j, a) ==
  /\ worker[j][a] # "idle"
  /\ worker' = [worker EXCEPT ![j][a] = "idle"]
  /\ UNCHANGED <<job, lease, file, survey, dispatcher, messages>>

\* The worker process dies: acks_late and reject_on_worker_lost requeue the
\* message.
CrashWorker(j, a) ==
  /\ worker[j][a] # "idle"
  /\ Publish(j)
  /\ worker' = [worker EXCEPT ![j][a] = "idle"]
  /\ UNCHANGED <<job, lease, file, survey, dispatcher>>

---------------------------------------------------------------------------
(* The broker and the clock *)

\* The broker delivers an unacknowledged message a second time.
RedeliverMessage(j, a) ==
  /\ worker[j][a] # "idle"
  /\ messages[j] < MaxMessages
  /\ Publish(j)
  /\ UNCHANGED <<job, lease, file, survey, dispatcher, worker>>

LoseMessage(j) ==
  /\ messages[j] > 0
  /\ messages' = [messages EXCEPT ![j] = @ - 1]
  /\ UNCHANGED <<job, lease, file, survey, dispatcher, worker>>

\* The delay that schedule_processing_retry set is over.
RetryDelayElapses(j) ==
  /\ job[j].available = "future"
  /\ job' = [job EXCEPT ![j].available = "past"]
  /\ UNCHANGED <<lease, file, survey, dispatcher, messages, worker>>

\* PROCESSING_QUEUED_DISPATCH_STALE_AFTER_SECONDS have passed over the row.
BecomesOverdue(j) ==
  /\ Claimable(j)
  /\ ~ job[j].overdue
  /\ job' = [job EXCEPT ![j].overdue = TRUE]
  /\ UNCHANGED <<lease, file, survey, dispatcher, messages, worker>>

\* PROCESSING_RUNNING_LEASE_SECONDS have passed since the last renewal.  A
\* renewal by refresh_processing_lease keeps a live lease live and revives no
\* other, so it is not a step of its own.
LeaseExpires(j) ==
  /\ lease[j].live
  /\ lease' = [lease EXCEPT ![j].live = FALSE]
  /\ UNCHANGED <<job, file, survey, dispatcher, messages, worker>>

---------------------------------------------------------------------------
(* Celery beat: the two recovery sweeps, one transaction per job *)

\* A slip: a row that was dispatched once is left alone.
StaleUndispatched(j) ==
  job[j].status = "queued" /\ job[j].overdue /\ job[j].dispatch # "dispatched"

Stale(j) == job[j].status = "queued" /\ job[j].overdue

ReconcileStaleQueued(j) ==
  /\ Stale(j)
  /\ job' = [job EXCEPT ![j].dispatch = "recovering",
                        ![j].available = "past", ![j].overdue = FALSE]
  /\ ArmDispatcher(j)
  /\ UNCHANGED <<lease, file, survey, messages, worker>>

RequeueExpired(j) ==
  /\ job[j].status = "running"
  /\ ~ lease[j].live
  /\ RetriesLeft(j)
  /\ job' = [job EXCEPT ![j].status = "queued", ![j].retries = @ + 1,
                        ![j].dispatch = "pending", ![j].available = "past"]
  /\ lease' = [lease EXCEPT ![j] = NoLease]
  /\ ArmDispatcher(j)
  /\ UNCHANGED <<file, survey, messages, worker>>

FailExpired(j) ==
  /\ job[j].status = "running"
  /\ ~ lease[j].live
  /\ ~ RetriesLeft(j)
  /\ job' = [job EXCEPT ![j].status = "failed", ![j].dispatch = "failed"]
  /\ FailPermanently(j)
  /\ UNCHANGED <<dispatcher, messages, worker>>

---------------------------------------------------------------------------
DispatchStep(j, d) ==
  \/ ClaimDispatch(j, d) \/ SkipDispatch(j, d) \/ SendTask(j, d)
  \/ ConfirmDispatch(j, d) \/ FailDispatch(j, d) \/ CrashDispatcher(j, d)

WorkerStep(j, a) ==
  \/ ClaimJob(j, a) \/ CompleteJob(j, a) \/ ScheduleRetry(j, a)
  \/ RefuseRetry(j, a) \/ MarkFailed(j, a) \/ RetryTask(j, a)
  \/ AbandonTask(j, a) \/ CrashWorker(j, a) \/ RedeliverMessage(j, a)

BeatStep(j) ==
  ReconcileStaleQueued(j) \/ RequeueExpired(j) \/ FailExpired(j)

EnvironmentStep(j) ==
  \/ IgnoreMessage(j) \/ LoseMessage(j)
  \/ RetryDelayElapses(j) \/ BecomesOverdue(j) \/ LeaseExpires(j)

\* Everything but the requests of users.
PipelineStep(j) ==
  \/ \E d \in Dispatcher : DispatchStep(j, d)
  \/ \E a \in Attempt : WorkerStep(j, a)
  \/ BeatStep(j)
  \/ EnvironmentStep(j)

Next == \E j \in Job : AdmitUpload(j) \/ ManualRetry(j) \/ PipelineStep(j)

Spec == Init /\ [][Next]_vars

---------------------------------------------------------------------------
(* Safety *)

Uploaded == {j \in Job : job[j].status # "absent"}

Settled == {"completed", "failed"}

\* The three tables tell one story about a file: it is ready, or failed,
\* exactly when its job is; a running job has a file in processing; and the
\* row names a lease exactly while it is running.  The tables are written by
\* different transactions of requests, workers and beat.
RowsAgree ==
  \A j \in Job :
    /\ job[j].status = "absent" <=> file[j] = "absent"
    /\ job[j].status = "completed" <=> file[j] = "ready"
    /\ job[j].status = "failed" <=> file[j] = "failed"
    /\ job[j].status = "running" => file[j] = "processing"
    /\ job[j].status = "running" <=> lease[j].token # NoAttempt
    /\ lease[j].live => job[j].status = "running"

\* A survey that can be submitted, or that was, has files, and every one of
\* them is processed: no upload, retry or late worker slips in behind the
\* READY that a completion wrote.
ReadyMeansProcessed ==
  survey.status \in {"READY"} \cup LockedStatuses =>
    /\ survey.processing = "completed"
    /\ Uploaded # {}
    /\ \A j \in Uploaded : job[j].status = "completed" /\ file[j] = "ready"

\* Once no job is queued or running the survey row tells how it ended: FAILED
\* if a job failed, READY (or a state of the review) if all completed.  Two
\* completions, or a completion and a failure, that each looked at the other
\* job too early would leave it in PROCESSING for ever.
OutcomeIsRecorded ==
  Uploaded # {} /\ (\A j \in Uploaded : job[j].status \in Settled) =>
    IF \E j \in Uploaded : job[j].status = "failed"
    THEN survey.status = "FAILED"
    ELSE survey.status \in {"READY"} \cup LockedStatuses

\* A survey shown as FAILED has a failed job to retry.
FailureIsReal ==
  survey.status = "FAILED" => \E j \in Uploaded : job[j].status = "failed"

\* A job fails only when its automatic retries are used up, whoever gives it
\* up: the worker, in the transaction after the one that refused the retry,
\* or the sweep of expired leases.
FailedAfterRetries ==
  \A j \in Job : job[j].status = "failed" => job[j].retries = MaxRetries

\* A worker that was refused a retry while it owned the job still finds the
\* retries used up when it gives the job up: nobody else touched the row.
GivingUpIsJustified ==
  \A j \in Job, a \in Attempt :
    worker[j][a] = "givingUp" /\ OwnsRunningLease(j, a) => job[j].retries = MaxRetries

\* Only a queued row is selected by the stale sweep, and a row that waits for
\* its delay is one schedule_processing_retry wrote and nothing changed since.
WaitingIsScheduled ==
  \A j \in Job :
    /\ job[j].overdue => job[j].status = "queued"
    /\ job[j].available = "future" =>
         job[j].status = "queued" /\ job[j].dispatch = "dispatched" /\ ~ job[j].overdue

\* Together these are inductive; ProcessingProofs proves it.
InductiveInvariant ==
  /\ TypeOK
  /\ RowsAgree
  /\ ReadyMeansProcessed
  /\ OutcomeIsRecorded
  /\ FailureIsReal
  /\ FailedAfterRetries
  /\ GivingUpIsJustified
  /\ WaitingIsScheduled

\* Completion is final: no redelivered message, late worker or sweep reopens
\* or fails a completed job, or takes back its file.
CompletedIsFinal ==
  [][\A j \in Job :
       job[j].status = "completed" =>
         job'[j] = job[j] /\ file'[j] = file[j]]_vars

\* A worker whose lease is gone ends without writing any row, whatever it
\* still runs: a replacement may already work on the job.
StaleWorkersAreFenced ==
  [][\A j \in Job, a \in Attempt :
       /\ worker[j][a] \in {"working", "givingUp"}
       /\ worker'[j][a] # worker[j][a]
       /\ lease[j] # [token |-> a, live |-> TRUE]
       => UNCHANGED <<job, lease, file, survey>>]_vars

\* The delay before an automatic retry ends by the passage of time alone: no
\* confirmation of an older dispatch, sweep or extra message shortens it.
BackoffIsKept ==
  [][\A j \in Job :
       job[j].available = "future" /\ job'[j] # job[j] =>
         job'[j] = [job[j] EXCEPT !.available = "past"]]_vars

---------------------------------------------------------------------------
(* Liveness *)

\* The owner of an expired-to-be lease is no longer running, so no heartbeat
\* renews it.
OwnerIsGone(j) == \A a \in Attempt : lease[j].token = a => worker[j][a] = "idle"

\* What the deployment must provide for a job to settle.
Fairness(j) ==
  \* Time passes, and the lease of a dead worker is not renewed.
  /\ WF_vars(RetryDelayElapses(j))
  /\ WF_vars(BecomesOverdue(j))
  /\ WF_vars(OwnerIsGone(j) /\ LeaseExpires(j))
  \* Beat runs both sweeps every minute.
  /\ WF_vars(BeatStep(j))
  \* A dispatch call ends, and neither the row nor the broker refuses for ever.
  /\ \A d \in Dispatcher :
       /\ WF_vars(DispatchStep(j, d))
       /\ SF_vars(ClaimDispatch(j, d))
       /\ SF_vars(SendTask(j, d))
  \* Messages are not lost for ever, some worker is up, and an execution ends.
  /\ SF_vars(\E a \in Attempt : ClaimJob(j, a))
  /\ \A a \in Attempt :
       WF_vars(CompleteJob(j, a) \/ ScheduleRetry(j, a) \/ RefuseRetry(j, a)
               \/ MarkFailed(j, a) \/ RetryTask(j, a) \/ AbandonTask(j, a))

FairSpec == Spec /\ \A j \in Job : Fairness(j)

\* A job that was admitted, or put back by a manual retry, is completed or
\* failed in the end, although dispatchers and workers may crash at any step
\* and messages may be lost.
JobsSettle ==
  \A j \in Job :
    job[j].status \in {"queued", "running"} ~> job[j].status \in Settled

---------------------------------------------------------------------------
(* What the rows promise: see SurveyLifecycle *)

Stage ==
  [j \in Job |-> CASE job[j].status = "absent"    -> "none"
                   [] job[j].status = "completed" -> "done"
                   [] job[j].status = "failed"    -> "failed"
                   [] OTHER                       -> "pending"]

Phase ==
  CASE survey.status = "READY"            -> "ready"
    [] survey.status = "PENDING_APPROVAL" -> "submitted"
    [] survey.status = "APPROVED"         -> "approved"
    [] survey.status = "REJECTED"         -> "rejected"
    [] survey.status = "ARCHIVED"         -> "archived"
    [] OTHER                              -> "open"

Lifecycle == INSTANCE SurveyLifecycle WITH stage <- Stage, phase <- Phase

\* Every step of the pipeline is a step of the promised lifecycle or none.
KeepsLifecycle == Lifecycle!Spec

\* ... and the promise that a pending file settles is kept as well.
KeepsLifecycleFairly == Lifecycle!FairSpec

\* Who runs the task of a job, and may still write its rows.
Running(j) == {a \in Attempt : worker[j][a] \in {"working", "givingUp"}}

Ownership(j) == INSTANCE JobOwnership WITH
  Worker <- Attempt, Nobody <- NoAttempt,
  status <- job[j].status, retries <- job[j].retries, lease <- lease[j], active <- Running(j)

\* Each job is claimed, left and recovered as JobOwnership promises, which is
\* what Execution relies on: its failure is written in the transaction after
\* the one that refused a retry, and still finds the retries used up.
KeepsOwnership ==
  /\ \A j \in Job : Ownership(j)!Init
  /\ [][\A j \in Job : [Ownership(j)!Next]_(Ownership(j)!ownership)]_vars
===========================================================================
