-------------------------- MODULE ProcessingProofs --------------------------
(***************************************************************************)
(* Proofs about Processing, alone and beside the review of Workflow, and   *)
(* that both implement SurveyLifecycle: for every number of files, workers *)
(* and dispatch calls, every retry budget and every bound on the messages. *)
(***************************************************************************)
EXTENDS Workflow, TLAPS

---------------------------------------------------------------------------
(* Lemmas about the helpers that several actions share *)

\* Arming a dispatch call keeps the type of dispatcher.
LEMMA ArmDispatcherType ==
  ASSUME dispatcher \in [Job -> [Dispatcher -> DispatcherState]],
         NEW j \in Job, ArmDispatcher(j)
  PROVE  dispatcher' \in [Job -> [Dispatcher -> DispatcherState]]
BY DEF ArmDispatcher, DispatcherState

\* Publishing stays within the bound on messages.
LEMMA PublishType ==
  ASSUME messages \in [Job -> 0 .. MaxMessages], NEW j \in Job, Publish(j)
  PROVE  messages' \in [Job -> 0 .. MaxMessages]
BY MessagesAssumption DEF Publish, MessagesAssumption

\* Taking a message off the broker stays within the bound as well.
LEMMA ConsumeType ==
  ASSUME messages \in [Job -> 0 .. MaxMessages], NEW j \in Job, messages[j] > 0
  PROVE  [messages EXCEPT ![j] = @ - 1] \in [Job -> 0 .. MaxMessages]
<1> messages[j] - 1 \in 0 .. MaxMessages
  BY MessagesAssumption DEF MessagesAssumption
<1> QED OBVIOUS

\* The rows the code inserts, or would have inserted, are rows.
LEMMA NewJobType == NewJob \in JobRow /\ AbsentJob \in JobRow
<1>1. 0 \in 0 .. MaxRetries
  BY RetriesAssumption DEF RetriesAssumption
<1>2. NewJob \in JobRow
  BY <1>1 DEF NewJob, JobRow, JobStatus, DispatchStatus, Availability
<1>3. AbsentJob \in JobRow
  BY <1>2 DEF AbsentJob, JobRow, JobStatus
<1> QED BY <1>2, <1>3

\* Saving one row keeps the table typed.
LEMMA RowUpdate ==
  ASSUME job \in [Job -> JobRow], NEW j \in Job, NEW r \in JobRow
  PROVE  [job EXCEPT ![j] = r] \in [Job -> JobRow]
OBVIOUS

\* The aggregate is a status an open survey may have.
LEMMA AggregateType ==
  ASSUME NEW rows, NEW files
  PROVE  AggregateStatus(rows, files) \in SurveyRow
BY DEF AggregateStatus, SurveyRow, OpenStatuses, ProcessingStatus

---------------------------------------------------------------------------
\* Every step keeps the types.
LEMMA NextKeepsType ==
  ASSUME TypeOK, [Next]_vars
  PROVE  TypeOK'
<1>1. ASSUME NEW j \in Job, AdmitUpload(j)
     PROVE  TypeOK'
  <2>1. job' \in [Job -> JobRow]
    BY <1>1, NewJobType, RowUpdate DEF AdmitUpload, TypeOK
  <2>2. file' \in [Job -> FileStatus]
    BY <1>1 DEF AdmitUpload, TypeOK, FileStatus
  <2>3. survey' \in SurveyRow
    BY <1>1 DEF AdmitUpload, ReopenSurvey, SurveyRow, OpenStatuses, ProcessingStatus
  <2>4. dispatcher' \in [Job -> [Dispatcher -> DispatcherState]]
    BY <1>1, ArmDispatcherType DEF AdmitUpload, TypeOK
  <2> QED BY <1>1, <2>1, <2>2, <2>3, <2>4 DEF AdmitUpload, TypeOK
<1>2. ASSUME NEW j \in Job, ManualRetry(j)
     PROVE  TypeOK'
  <2>1. job' \in [Job -> JobRow]
    <3> [NewJob EXCEPT !.available = "past"] \in JobRow
      BY NewJobType DEF JobRow, Availability
    <3> QED BY <1>2, RowUpdate DEF ManualRetry, TypeOK
  <2>2. lease' \in [Job -> LeaseColumns]
    BY <1>2 DEF ManualRetry, TypeOK, LeaseColumns, NoLease
  <2>3. file' \in [Job -> FileStatus]
    BY <1>2 DEF ManualRetry, TypeOK, FileStatus
  <2>4. survey' \in SurveyRow
    BY <1>2 DEF ManualRetry, ReopenSurvey, SurveyRow, OpenStatuses, ProcessingStatus
  <2>5. dispatcher' \in [Job -> [Dispatcher -> DispatcherState]]
    BY <1>2, ArmDispatcherType DEF ManualRetry, TypeOK
  <2> QED BY <1>2, <2>1, <2>2, <2>3, <2>4, <2>5 DEF ManualRetry, TypeOK
<1>3. ASSUME NEW j \in Job, NEW d \in Dispatcher, DispatchStep(j, d)
     PROVE  TypeOK'
  <2>1. CASE ClaimDispatch(j, d)
    <3>1. job' \in [Job -> JobRow]
      <4> [job[j] EXCEPT !.dispatch = "dispatching",
                         !.overdue = @ /\ job[j].available # "null"] \in JobRow
        BY DEF TypeOK, JobRow, DispatchStatus
      <4> QED BY <2>1, RowUpdate DEF ClaimDispatch, TypeOK
    <3>2. dispatcher' \in [Job -> [Dispatcher -> DispatcherState]]
      BY <2>1 DEF ClaimDispatch, TypeOK, DispatcherState
    <3> QED BY <2>1, <3>1, <3>2 DEF ClaimDispatch, TypeOK
  <2>2. CASE SkipDispatch(j, d)
    <3>1. dispatcher' \in [Job -> [Dispatcher -> DispatcherState]]
      BY <2>2 DEF SkipDispatch, TypeOK, DispatcherState
    <3> QED BY <2>2, <3>1 DEF SkipDispatch, TypeOK
  <2>3. CASE SendTask(j, d)
    <3>1. messages' \in [Job -> 0 .. MaxMessages]
      BY <2>3, PublishType DEF SendTask, TypeOK
    <3>2. dispatcher' \in [Job -> [Dispatcher -> DispatcherState]]
      BY <2>3 DEF SendTask, TypeOK, DispatcherState
    <3> QED BY <2>3, <3>1, <3>2 DEF SendTask, TypeOK
  <2>4. CASE ConfirmDispatch(j, d)
    <3>1. job' \in [Job -> JobRow]
      <4> [job[j] EXCEPT !.dispatch = "dispatched", !.hasTask = TRUE,
                         !.available = "past", !.overdue = FALSE] \in JobRow
        BY DEF TypeOK, JobRow, DispatchStatus, Availability
      <4> QED BY <2>4, RowUpdate DEF ConfirmDispatch, TypeOK
    <3>2. dispatcher' \in [Job -> [Dispatcher -> DispatcherState]]
      BY <2>4 DEF ConfirmDispatch, TypeOK, DispatcherState
    <3> QED BY <2>4, <3>1, <3>2 DEF ConfirmDispatch, TypeOK
  <2>5. CASE FailDispatch(j, d)
    <3>1. job' \in [Job -> JobRow]
      <4> [job[j] EXCEPT !.dispatch = "failed",
                         !.available = "past", !.overdue = FALSE] \in JobRow
        BY DEF TypeOK, JobRow, DispatchStatus, Availability
      <4> QED BY <2>5, RowUpdate DEF FailDispatch, TypeOK
    <3>2. dispatcher' \in [Job -> [Dispatcher -> DispatcherState]]
      BY <2>5 DEF FailDispatch, TypeOK, DispatcherState
    <3> QED BY <2>5, <3>1, <3>2 DEF FailDispatch, TypeOK
  <2>6. CASE CrashDispatcher(j, d)
    <3>1. dispatcher' \in [Job -> [Dispatcher -> DispatcherState]]
      BY <2>6 DEF CrashDispatcher, TypeOK, DispatcherState
    <3> QED BY <2>6, <3>1 DEF CrashDispatcher, TypeOK
  <2> QED
    BY <1>3, <2>1, <2>2, <2>3, <2>4, <2>5, <2>6 DEF DispatchStep
<1>4. ASSUME NEW j \in Job, NEW a \in Attempt, WorkerStep(j, a)
     PROVE  TypeOK'
  <2>1. CASE ClaimJob(j, a)
    <3>1. job' \in [Job -> JobRow]
      <4> [job[j] EXCEPT !.status = "running", !.overdue = FALSE] \in JobRow
        BY DEF TypeOK, JobRow, JobStatus
      <4> QED BY <2>1, RowUpdate DEF ClaimJob, TypeOK
    <3>2. lease' \in [Job -> LeaseColumns]
      BY <2>1 DEF ClaimJob, TypeOK, LeaseColumns
    <3>3. file' \in [Job -> FileStatus]
      BY <2>1 DEF ClaimJob, TypeOK, FileStatus
    <3>4. survey' \in SurveyRow
      BY <2>1 DEF ClaimJob, SurveyRow, OpenStatuses, ProcessingStatus
    <3>5. messages' \in [Job -> 0 .. MaxMessages]
      BY <2>1, ConsumeType DEF ClaimJob, TypeOK
    <3>6. worker' \in [Job -> [Attempt -> WorkerState]]
      BY <2>1 DEF ClaimJob, TypeOK, WorkerState
    <3> QED BY <2>1, <3>1, <3>2, <3>3, <3>4, <3>5, <3>6 DEF ClaimJob, TypeOK
  <2>2. CASE CompleteJob(j, a)
    <3>1. job' \in [Job -> JobRow]
      <4> [job[j] EXCEPT !.status = "completed"] \in JobRow
        BY DEF TypeOK, JobRow, JobStatus
      <4> QED BY <2>2, RowUpdate DEF CompleteJob, TypeOK
    <3>2. lease' \in [Job -> LeaseColumns]
      BY <2>2 DEF CompleteJob, TypeOK, LeaseColumns, NoLease
    <3>3. file' \in [Job -> FileStatus]
      BY <2>2 DEF CompleteJob, TypeOK, FileStatus
    <3>4. survey' \in SurveyRow
      BY <2>2, AggregateType DEF CompleteJob
    <3>5. worker' \in [Job -> [Attempt -> WorkerState]]
      BY <2>2 DEF CompleteJob, TypeOK, WorkerState
    <3> QED BY <2>2, <3>1, <3>2, <3>3, <3>4, <3>5 DEF CompleteJob, TypeOK
  <2>3. CASE ScheduleRetry(j, a)
    <3>1. job' \in [Job -> JobRow]
      <4>1. job[j].retries + 1 \in 0 .. MaxRetries
        BY <2>3, RetriesAssumption
           DEF ScheduleRetry, RetriesLeft, RetriesAssumption, TypeOK, JobRow
      <4>2. [job[j] EXCEPT !.status = "queued", !.retries = @ + 1,
                         !.dispatch = "dispatched", !.available = "future"] \in JobRow
        BY <4>1 DEF TypeOK, JobRow, JobStatus, DispatchStatus, Availability
      <4> QED BY <2>3, <4>2, RowUpdate DEF ScheduleRetry, TypeOK
    <3>2. lease' \in [Job -> LeaseColumns]
      BY <2>3 DEF ScheduleRetry, TypeOK, LeaseColumns, NoLease
    <3>3. worker' \in [Job -> [Attempt -> WorkerState]]
      BY <2>3 DEF ScheduleRetry, TypeOK, WorkerState
    <3> QED BY <2>3, <3>1, <3>2, <3>3 DEF ScheduleRetry, TypeOK
  <2>4. CASE RefuseRetry(j, a)
    <3>1. worker' \in [Job -> [Attempt -> WorkerState]]
      BY <2>4 DEF RefuseRetry, TypeOK, WorkerState
    <3> QED BY <2>4, <3>1 DEF RefuseRetry, TypeOK
  <2>5. CASE MarkFailed(j, a)
    <3>1. job' \in [Job -> JobRow]
      <4> [job[j] EXCEPT !.status = "failed"] \in JobRow
        BY DEF TypeOK, JobRow, JobStatus
      <4> QED BY <2>5, RowUpdate DEF MarkFailed, TypeOK
    <3>2. lease' \in [Job -> LeaseColumns]
      BY <2>5 DEF MarkFailed, FailPermanently, TypeOK, LeaseColumns, NoLease
    <3>3. file' \in [Job -> FileStatus]
      BY <2>5 DEF MarkFailed, FailPermanently, TypeOK, FileStatus
    <3>4. survey' \in SurveyRow
      BY <2>5 DEF MarkFailed, FailPermanently, SurveyRow, OpenStatuses, ProcessingStatus
    <3>5. worker' \in [Job -> [Attempt -> WorkerState]]
      BY <2>5 DEF MarkFailed, TypeOK, WorkerState
    <3> QED BY <2>5, <3>1, <3>2, <3>3, <3>4, <3>5 DEF MarkFailed, TypeOK, FailPermanently
  <2>6. CASE RetryTask(j, a)
    <3>1. messages' \in [Job -> 0 .. MaxMessages]
      BY <2>6, PublishType DEF RetryTask, TypeOK
    <3>2. worker' \in [Job -> [Attempt -> WorkerState]]
      BY <2>6 DEF RetryTask, TypeOK, WorkerState
    <3> QED BY <2>6, <3>1, <3>2 DEF RetryTask, TypeOK
  <2>7. CASE AbandonTask(j, a)
    <3>1. worker' \in [Job -> [Attempt -> WorkerState]]
      BY <2>7 DEF AbandonTask, TypeOK, WorkerState
    <3> QED BY <2>7, <3>1 DEF AbandonTask, TypeOK
  <2>8. CASE CrashWorker(j, a)
    <3>1. messages' \in [Job -> 0 .. MaxMessages]
      BY <2>8, PublishType DEF CrashWorker, TypeOK
    <3>2. worker' \in [Job -> [Attempt -> WorkerState]]
      BY <2>8 DEF CrashWorker, TypeOK, WorkerState
    <3> QED BY <2>8, <3>1, <3>2 DEF CrashWorker, TypeOK
  <2>9. CASE RedeliverMessage(j, a)
    <3>1. messages' \in [Job -> 0 .. MaxMessages]
      BY <2>9, PublishType DEF RedeliverMessage, TypeOK
    <3> QED BY <2>9, <3>1 DEF RedeliverMessage, TypeOK
  <2> QED
    BY <1>4, <2>1, <2>2, <2>3, <2>4, <2>5, <2>6, <2>7, <2>8, <2>9 DEF WorkerStep
<1>5. ASSUME NEW j \in Job, BeatStep(j)
     PROVE  TypeOK'
  <2>1. CASE ReconcileStaleQueued(j)
    <3>1. job' \in [Job -> JobRow]
      <4> [job[j] EXCEPT !.dispatch = "recovering",
                         !.available = "past", !.overdue = FALSE] \in JobRow
        BY DEF TypeOK, JobRow, DispatchStatus, Availability
      <4> QED BY <2>1, RowUpdate DEF ReconcileStaleQueued, TypeOK
    <3>2. dispatcher' \in [Job -> [Dispatcher -> DispatcherState]]
      BY <2>1, ArmDispatcherType DEF ReconcileStaleQueued, TypeOK
    <3> QED BY <2>1, <3>1, <3>2 DEF ReconcileStaleQueued, TypeOK
  <2>2. CASE RequeueExpired(j)
    <3>1. job' \in [Job -> JobRow]
      <4>1. job[j].retries + 1 \in 0 .. MaxRetries
        BY <2>2, RetriesAssumption
           DEF RequeueExpired, RetriesLeft, RetriesAssumption, TypeOK, JobRow
      <4>2. [job[j] EXCEPT !.status = "queued", !.retries = @ + 1,
                         !.dispatch = "pending", !.available = "past"] \in JobRow
        BY <4>1 DEF TypeOK, JobRow, JobStatus, DispatchStatus, Availability
      <4> QED BY <2>2, <4>2, RowUpdate DEF RequeueExpired, TypeOK
    <3>2. lease' \in [Job -> LeaseColumns]
      BY <2>2 DEF RequeueExpired, TypeOK, LeaseColumns, NoLease
    <3>3. dispatcher' \in [Job -> [Dispatcher -> DispatcherState]]
      BY <2>2, ArmDispatcherType DEF RequeueExpired, TypeOK
    <3> QED BY <2>2, <3>1, <3>2, <3>3 DEF RequeueExpired, TypeOK
  <2>3. CASE FailExpired(j)
    <3>1. job' \in [Job -> JobRow]
      <4> [job[j] EXCEPT !.status = "failed", !.dispatch = "failed"] \in JobRow
        BY DEF TypeOK, JobRow, JobStatus, DispatchStatus
      <4> QED BY <2>3, RowUpdate DEF FailExpired, TypeOK
    <3>2. lease' \in [Job -> LeaseColumns]
      BY <2>3 DEF FailExpired, FailPermanently, TypeOK, LeaseColumns, NoLease
    <3>3. file' \in [Job -> FileStatus]
      BY <2>3 DEF FailExpired, FailPermanently, TypeOK, FileStatus
    <3>4. survey' \in SurveyRow
      BY <2>3 DEF FailExpired, FailPermanently, SurveyRow, OpenStatuses, ProcessingStatus
    <3> QED BY <2>3, <3>1, <3>2, <3>3, <3>4 DEF FailExpired, TypeOK, FailPermanently
  <2> QED
    BY <1>5, <2>1, <2>2, <2>3 DEF BeatStep
<1>6. ASSUME NEW j \in Job, EnvironmentStep(j)
     PROVE  TypeOK'
  <2>1. CASE IgnoreMessage(j)
    <3>1. messages' \in [Job -> 0 .. MaxMessages]
      BY <2>1, ConsumeType DEF IgnoreMessage, TypeOK
    <3> QED BY <2>1, <3>1 DEF IgnoreMessage, TypeOK
  <2>2. CASE LoseMessage(j)
    <3>1. messages' \in [Job -> 0 .. MaxMessages]
      BY <2>2, ConsumeType DEF LoseMessage, TypeOK
    <3> QED BY <2>2, <3>1 DEF LoseMessage, TypeOK
  <2>3. CASE RetryDelayElapses(j)
    <3>1. job' \in [Job -> JobRow]
      BY <2>3 DEF RetryDelayElapses, TypeOK, JobRow, Availability
    <3> QED BY <2>3, <3>1 DEF RetryDelayElapses, TypeOK
  <2>4. CASE BecomesOverdue(j)
    <3>1. job' \in [Job -> JobRow]
      BY <2>4 DEF BecomesOverdue, TypeOK, JobRow
    <3> QED BY <2>4, <3>1 DEF BecomesOverdue, TypeOK
  <2>5. CASE LeaseExpires(j)
    <3>1. lease' \in [Job -> LeaseColumns]
      BY <2>5 DEF LeaseExpires, TypeOK, LeaseColumns
    <3> QED BY <2>5, <3>1 DEF LeaseExpires, TypeOK
  <2> QED
    BY <1>6, <2>1, <2>2, <2>3, <2>4, <2>5 DEF EnvironmentStep
<1>7. CASE UNCHANGED vars
  BY <1>7 DEF vars, TypeOK
<1> QED
  BY <1>1, <1>2, <1>3, <1>4, <1>5, <1>6, <1>7 DEF Next, PipelineStep

\* No row, message or running process is there at first.
LEMMA InitType == Init => TypeOK
<1> SUFFICES ASSUME Init
             PROVE  TypeOK
  OBVIOUS
<1>1. job \in [Job -> JobRow]
  BY NewJobType DEF Init
<1>2. lease \in [Job -> LeaseColumns] /\ file \in [Job -> FileStatus] /\ survey \in SurveyRow
  BY DEF Init, LeaseColumns, NoLease, FileStatus, SurveyRow, OpenStatuses, ProcessingStatus
<1>3. /\ dispatcher \in [Job -> [Dispatcher -> DispatcherState]]
      /\ messages \in [Job -> 0 .. MaxMessages]
      /\ worker \in [Job -> [Attempt -> WorkerState]]
  BY MessagesAssumption DEF MessagesAssumption, Init, DispatcherState, WorkerState
<1> QED BY <1>1, <1>2, <1>3 DEF TypeOK

\* Type correctness: no interleaving of requests, dispatch calls, workers,
\* sweeps and broker faults puts a row, a counter or a program counter
\* outside its type; in particular the retry counter never exceeds
\* MAX_AUTOMATIC_RETRIES.
THEOREM TypeCorrect == Spec => []TypeOK
<1>1. Init => TypeOK
  BY InitType
<1>2. TypeOK /\ [Next]_vars => TypeOK'
  BY NextKeepsType
<1> QED
  BY <1>1, <1>2, PTL DEF Spec

---------------------------------------------------------------------------
(* The outcome of a survey.  The steps of the pipeline fall into six kinds *)
(* by what they do to the rows that RowsAgree, ReadyMeansProcessed,        *)
(* OutcomeIsRecorded and FailureIsReal read; one lemma per kind shows that *)
(* it keeps the four, and each action is then of one kind.                 *)

OutcomeInv ==
  RowsAgree /\ ReadyMeansProcessed /\ OutcomeIsRecorded /\ FailureIsReal

\* The rows of the other files are left alone.
OthersKept(j) ==
  \A k \in Job \ {j} :
    job'[k].status = job[k].status /\ file'[k] = file[k] /\ lease'[k] = lease[k]

RowBecomes(j, status, fileStatus) ==
  /\ job'[j].status = status
  /\ file'[j] = fileStatus
  /\ status # "running" => lease'[j] = NoLease
  /\ OthersKept(j)

\* Dispatching, messages, time: no status changes and no lease is granted.
QuietStep ==
  /\ \A k \in Job : /\ job'[k].status = job[k].status
                    /\ lease'[k].token = lease[k].token
                    /\ lease'[k].live => lease[k].live
  /\ UNCHANGED <<file, survey>>

Reopened(j) ==
  /\ RowBecomes(j, "queued", "uploading")
  /\ survey' = [status |-> "UPLOADING", processing |-> "queued"]

Admitted(j) ==
  /\ job[j].status = "absent"
  /\ survey.status \in OpenStatuses
  /\ Reopened(j)

Retried(j) ==
  /\ job[j].status = "failed"
  /\ Reopened(j)

Started(j) ==
  /\ job[j].status = "queued"
  /\ RowBecomes(j, "running", "processing")
  /\ lease'[j].token # NoAttempt
  /\ survey' = [status |-> "PROCESSING", processing |-> "processing"]

Requeued(j) ==
  /\ job[j].status = "running"
  /\ RowBecomes(j, "queued", file[j])
  /\ UNCHANGED survey

Failed(j) ==
  /\ job[j].status = "running"
  /\ RowBecomes(j, "failed", "failed")
  /\ survey' = [status |-> "FAILED", processing |-> "failed"]

Completed(j) ==
  /\ job[j].status = "running"
  /\ RowBecomes(j, "completed", "ready")
  /\ survey' = AggregateStatus(job', file')

KindOfStep(j) ==
  Admitted(j) \/ Retried(j) \/ Started(j) \/ Requeued(j) \/ Failed(j) \/ Completed(j)

\* Dispatching, messages and time keep the four.
LEMMA QuietKeepsOutcome ==
  ASSUME OutcomeInv, QuietStep
  PROVE  OutcomeInv'
<1>1. RowsAgree'
  BY DEF OutcomeInv, RowsAgree, QuietStep
<1>2. Uploaded' = Uploaded
  BY DEF Uploaded, SurveyFiles, QuietStep
<1>3. ReadyMeansProcessed' /\ OutcomeIsRecorded' /\ FailureIsReal'
  BY <1>2 DEF OutcomeInv, ReadyMeansProcessed, OutcomeIsRecorded, FailureIsReal,
              Uploaded, SurveyFiles, QuietStep
<1> QED BY <1>1, <1>3 DEF OutcomeInv

\* An upload or a manual retry takes the survey back to UPLOADING.
LEMMA ReopenedKeepsOutcome ==
  ASSUME OutcomeInv, NEW j \in Job, Reopened(j)
  PROVE  OutcomeInv'
<1>1. RowsAgree'
  BY DEF OutcomeInv, RowsAgree, Reopened, RowBecomes, OthersKept, NoLease
<1>2. survey'.status = "UPLOADING"
  BY DEF Reopened
<1>3. j \in Uploaded' /\ job'[j].status \notin Settled
  BY DEF Reopened, RowBecomes, Uploaded, SurveyFiles, Settled
<1>4. ReadyMeansProcessed' /\ OutcomeIsRecorded' /\ FailureIsReal'
  BY <1>2, <1>3 DEF ReadyMeansProcessed, OutcomeIsRecorded, FailureIsReal, LockedStatuses
<1> QED BY <1>1, <1>4 DEF OutcomeInv

\* A claim takes the survey back to PROCESSING, also from FAILED.
LEMMA StartedKeepsOutcome ==
  ASSUME OutcomeInv, NEW j \in Job, Started(j)
  PROVE  OutcomeInv'
<1>1. RowsAgree'
  BY DEF OutcomeInv, RowsAgree, Started, RowBecomes, OthersKept
<1>2. survey'.status = "PROCESSING"
  BY DEF Started
<1>3. j \in Uploaded' /\ job'[j].status \notin Settled
  BY DEF Started, RowBecomes, Uploaded, SurveyFiles, Settled
<1>4. ReadyMeansProcessed' /\ OutcomeIsRecorded' /\ FailureIsReal'
  BY <1>2, <1>3 DEF ReadyMeansProcessed, OutcomeIsRecorded, FailureIsReal, LockedStatuses
<1> QED BY <1>1, <1>4 DEF OutcomeInv

\* The survey of a running job was not READY, and a failed job stays failed.
LEMMA RequeuedKeepsOutcome ==
  ASSUME OutcomeInv, NEW j \in Job, Requeued(j)
  PROVE  OutcomeInv'
<1>1. RowsAgree'
  BY DEF OutcomeInv, RowsAgree, Requeued, RowBecomes, OthersKept, NoLease
<1>2. j \in Uploaded' /\ job'[j].status \notin Settled
  BY DEF Requeued, RowBecomes, Uploaded, SurveyFiles, Settled
<1>3. survey.status \notin {"READY"} \cup LockedStatuses
  BY DEF OutcomeInv, ReadyMeansProcessed, Requeued, Uploaded, SurveyFiles
<1>4. FailureIsReal'
  BY DEF OutcomeInv, FailureIsReal, Requeued, RowBecomes, OthersKept, Uploaded, SurveyFiles
<1>5. ReadyMeansProcessed' /\ OutcomeIsRecorded'
  BY <1>2, <1>3 DEF ReadyMeansProcessed, OutcomeIsRecorded, Requeued
<1> QED BY <1>1, <1>4, <1>5 DEF OutcomeInv

\* Giving a job up makes the survey FAILED, and there is the job to retry.
LEMMA FailedKeepsOutcome ==
  ASSUME OutcomeInv, NEW j \in Job, Failed(j)
  PROVE  OutcomeInv'
<1>1. RowsAgree'
  BY DEF OutcomeInv, RowsAgree, Failed, RowBecomes, OthersKept, NoLease
<1>2. j \in Uploaded' /\ job'[j].status = "failed"
  BY DEF Failed, RowBecomes, Uploaded, SurveyFiles
<1>3. survey'.status = "FAILED"
  BY DEF Failed
<1>4. ReadyMeansProcessed' /\ OutcomeIsRecorded' /\ FailureIsReal'
  BY <1>2, <1>3 DEF ReadyMeansProcessed, OutcomeIsRecorded, FailureIsReal, LockedStatuses
<1> QED BY <1>1, <1>4 DEF OutcomeInv

\* The aggregate that a completion computes is right about every other file,
\* because RowsAgree lets either table speak for both.
LEMMA CompletedKeepsOutcome ==
  ASSUME OutcomeInv, NEW j \in Job, Completed(j)
  PROVE  OutcomeInv'
<1>1. RowsAgree'
  BY DEF OutcomeInv, RowsAgree, Completed, RowBecomes, OthersKept, NoLease
<1>2. j \in Uploaded'
  BY DEF Completed, RowBecomes, Uploaded, SurveyFiles
<1>3. CASE \E k \in Uploaded' : file'[k] = "failed" \/ job'[k].status = "failed"
  <2>1. survey' = [status |-> "FAILED", processing |-> "failed"]
    BY <1>3 DEF Completed, AggregateStatus, Uploaded, SurveyFiles
  <2>2. \E k \in Uploaded' : job'[k].status = "failed"
    BY <1>1, <1>3 DEF RowsAgree, Uploaded, SurveyFiles
  <2> QED
    BY <1>1, <2>1, <2>2
       DEF OutcomeInv, ReadyMeansProcessed, OutcomeIsRecorded, FailureIsReal, LockedStatuses
<1>4. CASE /\ ~ \E k \in Uploaded' : file'[k] = "failed" \/ job'[k].status = "failed"
           /\ \A k \in Uploaded' : file'[k] = "ready" /\ job'[k].status = "completed"
  <2>1. survey' = [status |-> "READY", processing |-> "completed"]
    BY <1>4 DEF Completed, AggregateStatus, Uploaded, SurveyFiles
  <2> QED
    BY <1>1, <1>2, <1>4, <2>1
       DEF OutcomeInv, ReadyMeansProcessed, OutcomeIsRecorded, FailureIsReal
<1>5. CASE /\ ~ \E k \in Uploaded' : file'[k] = "failed" \/ job'[k].status = "failed"
           /\ ~ \A k \in Uploaded' : file'[k] = "ready" /\ job'[k].status = "completed"
  <2>1. survey' = [status |-> "PROCESSING", processing |-> "processing"]
    BY <1>5 DEF Completed, AggregateStatus, Uploaded, SurveyFiles
  <2>2. PICK k \in Uploaded' : ~ (file'[k] = "ready" /\ job'[k].status = "completed")
    BY <1>5
  <2>3. job'[k].status \notin Settled
    BY <1>1, <1>5, <2>2 DEF RowsAgree, Settled, Uploaded, SurveyFiles
  <2> QED
    BY <1>1, <2>1, <2>3
       DEF OutcomeInv, ReadyMeansProcessed, OutcomeIsRecorded, FailureIsReal, LockedStatuses
<1> QED BY <1>3, <1>4, <1>5

---------------------------------------------------------------------------
(* The kind of every action *)

\* A dispatch call changes neither a status nor a lease.
LEMMA DispatchIsQuiet ==
  ASSUME TypeOK, NEW j \in Job, NEW d \in Dispatcher, DispatchStep(j, d)
  PROVE  QuietStep
<1>1. CASE ClaimDispatch(j, d)
  BY <1>1 DEF TypeOK, JobRow, ClaimDispatch, QuietStep
<1>2. CASE SkipDispatch(j, d) \/ SendTask(j, d) \/ CrashDispatcher(j, d)
  BY <1>2 DEF SkipDispatch, SendTask, CrashDispatcher, QuietStep
<1>3. CASE ConfirmDispatch(j, d)
  BY <1>3 DEF TypeOK, JobRow, ConfirmDispatch, QuietStep
<1>4. CASE FailDispatch(j, d)
  BY <1>4 DEF TypeOK, JobRow, FailDispatch, QuietStep
<1> QED BY <1>1, <1>2, <1>3, <1>4 DEF DispatchStep

\* Nor does the broker or the clock, except that a lease may expire.
LEMMA EnvironmentIsQuiet ==
  ASSUME TypeOK, NEW j \in Job, EnvironmentStep(j)
  PROVE  QuietStep
<1>1. CASE IgnoreMessage(j) \/ LoseMessage(j)
  BY <1>1 DEF IgnoreMessage, LoseMessage, QuietStep
<1>2. CASE RetryDelayElapses(j)
  BY <1>2 DEF TypeOK, JobRow, RetryDelayElapses, QuietStep
<1>3. CASE BecomesOverdue(j)
  BY <1>3 DEF TypeOK, JobRow, BecomesOverdue, QuietStep
<1>4. CASE LeaseExpires(j)
  BY <1>4 DEF TypeOK, LeaseColumns, LeaseExpires, QuietStep
<1> QED BY <1>1, <1>2, <1>3, <1>4 DEF EnvironmentStep

\* Every step of the specification is quiet or of one of the other kinds.
LEMMA StepKind ==
  ASSUME TypeOK, RowsAgree, [Next]_vars
  PROVE  QuietStep \/ \E j \in Job : KindOfStep(j)
<1>1. ASSUME NEW j \in Job, AdmitUpload(j) PROVE Admitted(j)
  <2>1. lease[j] = NoLease
    BY <1>1 DEF AdmitUpload, RowsAgree, TypeOK, LeaseColumns, NoLease
  <2> QED
    BY <1>1, <2>1
       DEF AdmitUpload, AcceptsUploads, ReopenSurvey, TypeOK, NewJob, Admitted, Reopened,
           RowBecomes, OthersKept
<1>2. ASSUME NEW j \in Job, ManualRetry(j) PROVE Retried(j)
  BY <1>2 DEF ManualRetry, ReopenSurvey, TypeOK, NewJob, Retried, Reopened, RowBecomes, OthersKept
<1>3. ASSUME NEW j \in Job, NEW a \in Attempt, WorkerStep(j, a) PROVE QuietStep \/ KindOfStep(j)
  <2>1. CASE ClaimJob(j, a)
    <3>1. Started(j)
      BY <2>1, NoAttemptAssumption
         DEF ClaimJob, Claimable, NoAttemptAssumption, TypeOK, JobRow, Started, RowBecomes,
             OthersKept
    <3> QED BY <3>1 DEF KindOfStep
  <2>2. CASE CompleteJob(j, a)
    <3>1. Completed(j)
      BY <2>2 DEF CompleteJob, OwnsRunningLease, TypeOK, JobRow, Completed, RowBecomes, OthersKept
    <3> QED BY <3>1 DEF KindOfStep
  <2>3. CASE ScheduleRetry(j, a)
    <3>1. Requeued(j)
      BY <2>3
         DEF ScheduleRetry, OwnsRunningLease, TypeOK, JobRow, Requeued, RowBecomes,
             OthersKept
    <3> QED BY <3>1 DEF KindOfStep
  <2>4. CASE MarkFailed(j, a)
    <3>1. Failed(j)
      BY <2>4 DEF MarkFailed, OwnsRunningLease, FailPermanently, TypeOK, JobRow, Failed,
                  RowBecomes, OthersKept
    <3> QED BY <3>1 DEF KindOfStep
  <2>5. CASE \/ RefuseRetry(j, a) \/ RetryTask(j, a) \/ AbandonTask(j, a)
             \/ CrashWorker(j, a) \/ RedeliverMessage(j, a)
    BY <2>5 DEF RefuseRetry, RetryTask, AbandonTask, CrashWorker, RedeliverMessage, QuietStep
  <2> QED BY <1>3, <2>1, <2>2, <2>3, <2>4, <2>5 DEF WorkerStep
<1>4. ASSUME NEW j \in Job, BeatStep(j) PROVE QuietStep \/ KindOfStep(j)
  <2>1. CASE ReconcileStaleQueued(j)
    BY <2>1 DEF ReconcileStaleQueued, TypeOK, JobRow, QuietStep
  <2>2. CASE RequeueExpired(j)
    <3>1. Requeued(j)
      BY <2>2 DEF RequeueExpired, TypeOK, JobRow, Requeued, RowBecomes, OthersKept
    <3> QED BY <3>1 DEF KindOfStep
  <2>3. CASE FailExpired(j)
    <3>1. Failed(j)
      BY <2>3 DEF FailExpired, FailPermanently, TypeOK, JobRow, Failed, RowBecomes, OthersKept
    <3> QED BY <3>1 DEF KindOfStep
  <2> QED BY <1>4, <2>1, <2>2, <2>3 DEF BeatStep
<1>5. CASE UNCHANGED vars
  BY <1>5 DEF vars, QuietStep
<1> QED
  BY <1>1, <1>2, <1>3, <1>4, <1>5, DispatchIsQuiet, EnvironmentIsQuiet
     DEF Next, PipelineStep, KindOfStep

\* Requests and the pipeline keep the four outcome invariants.
LEMMA NextKeepsOutcome ==
  ASSUME TypeOK, OutcomeInv, [Next]_vars
  PROVE  OutcomeInv'
<1>1. QuietStep \/ \E j \in Job : KindOfStep(j)
  BY StepKind DEF OutcomeInv
<1>2. ASSUME NEW j \in Job, KindOfStep(j) PROVE OutcomeInv'
  BY <1>2, ReopenedKeepsOutcome, StartedKeepsOutcome, RequeuedKeepsOutcome,
     FailedKeepsOutcome, CompletedKeepsOutcome
     DEF KindOfStep, Admitted, Retried
<1> QED BY <1>1, <1>2, QuietKeepsOutcome

\* An empty survey is a draft and has no rows.
LEMMA InitOutcome == Init => OutcomeInv
BY DEF Init, OutcomeInv, RowsAgree, ReadyMeansProcessed, OutcomeIsRecorded, FailureIsReal,
       Uploaded, SurveyFiles, LockedStatuses, AbsentJob, NewJob, NoLease

\* The rows of the three tables agree, a survey is READY or under review only
\* when all its files are processed, and a survey at rest shows its outcome:
\* whatever uploads, retries, crashes, sweeps and late or repeated messages
\* interleave, and however many files the survey has.
THEOREM OutcomeCorrect ==
  Spec => [](RowsAgree /\ ReadyMeansProcessed /\ OutcomeIsRecorded /\ FailureIsReal)
<1>1. OutcomeInv => RowsAgree /\ ReadyMeansProcessed /\ OutcomeIsRecorded /\ FailureIsReal
  BY DEF OutcomeInv
<1>2. TypeOK /\ OutcomeInv /\ [Next]_vars => OutcomeInv'
  BY NextKeepsOutcome
<1> QED
  BY InitOutcome, TypeCorrect, <1>1, <1>2, PTL DEF Spec

---------------------------------------------------------------------------
(* The retry budget and the backoff *)

BudgetInv == FailedAfterRetries /\ GivingUpIsJustified /\ WaitingIsScheduled

\* What the properties of this section read of the other files and of the
\* executions on them stays as it is.
OthersIdle(j) ==
  \A k \in Job \ {j} :
    job'[k] = job[k] /\ lease'[k] = lease[k] /\ worker'[k] = worker[k]

\* What BudgetInv says of one file.
BudgetOf(j) ==
  /\ job[j].status = "failed" => job[j].retries = MaxRetries
  /\ \A a \in Attempt :
       worker[j][a] = "givingUp" /\ OwnsRunningLease(j, a) => job[j].retries = MaxRetries
  /\ job[j].overdue => job[j].status = "queued"
  /\ job[j].available = "future" =>
       job[j].status = "queued" /\ job[j].dispatch = "dispatched" /\ ~ job[j].overdue

\* BudgetInv is a statement about every file on its own.
LEMMA BudgetByFile == BudgetInv <=> \A j \in Job : BudgetOf(j)
BY DEF BudgetInv, BudgetOf, FailedAfterRetries, GivingUpIsJustified, WaitingIsScheduled

\* So a step on one file only has to keep what is said of that file.
LEMMA BudgetOfOneFile ==
  ASSUME BudgetInv, NEW j \in Job, OthersIdle(j), BudgetOf(j)'
  PROVE  BudgetInv'
<1>1. \A k \in Job : BudgetOf(k)
  BY BudgetByFile
<1>2. ASSUME NEW k \in Job \ {j} PROVE BudgetOf(k)'
  BY <1>1 DEF OthersIdle, BudgetOf, OwnsRunningLease
<1>3. \A k \in Job : BudgetOf(k)'
  BY <1>2
<1>4. BudgetInv' <=> \A k \in Job : BudgetOf(k)'
  BY DEF BudgetInv, BudgetOf, FailedAfterRetries, GivingUpIsJustified, WaitingIsScheduled
<1> QED BY <1>3, <1>4

\* Requests start a new cycle of retries.
LEMMA RequestKeepsBudget ==
  ASSUME TypeOK, BudgetInv, NEW j \in Job, AdmitUpload(j) \/ ManualRetry(j)
  PROVE  OthersIdle(j) /\ BudgetOf(j)'
<1>1. OthersIdle(j)
  BY DEF AdmitUpload, ManualRetry, OthersIdle, TypeOK
<1>2. job'[j].status = "queued" /\ job'[j].available # "future"
  BY DEF AdmitUpload, ManualRetry, NewJob, TypeOK
<1> QED BY <1>1, <1>2 DEF BudgetOf, OwnsRunningLease

\* A dispatch call never touches a row whose delay is running.
LEMMA DispatchKeepsBudget ==
  ASSUME TypeOK, BudgetInv, NEW j \in Job, NEW d \in Dispatcher, DispatchStep(j, d)
  PROVE  OthersIdle(j) /\ BudgetOf(j)'
<1>1. BudgetOf(j)
  BY BudgetByFile
<1>2. CASE ClaimDispatch(j, d)
  BY <1>1, <1>2
     DEF ClaimDispatch, Dispatchable, OthersIdle, BudgetOf, OwnsRunningLease, TypeOK,
         JobRow
<1>3. CASE SkipDispatch(j, d) \/ SendTask(j, d) \/ CrashDispatcher(j, d)
  BY <1>1, <1>3
     DEF SkipDispatch, SendTask, CrashDispatcher, OthersIdle, BudgetOf, OwnsRunningLease
<1>4. CASE ConfirmDispatch(j, d)
  BY <1>1, <1>4
     DEF ConfirmDispatch, StillDispatching, OthersIdle, BudgetOf, OwnsRunningLease, TypeOK,
         JobRow
<1>5. CASE FailDispatch(j, d)
  BY <1>1, <1>5
     DEF FailDispatch, StillDispatching, OthersIdle, BudgetOf, OwnsRunningLease, TypeOK,
         JobRow
<1> QED BY <1>2, <1>3, <1>4, <1>5 DEF DispatchStep

\* The owner of a lease is refused a retry only when none is left, and until
\* it gives the job up nobody else changes the retry counter of that lease.
LEMMA WorkerKeepsBudget ==
  ASSUME TypeOK, BudgetInv, NEW j \in Job, NEW a \in Attempt, WorkerStep(j, a)
  PROVE  OthersIdle(j) /\ BudgetOf(j)'
<1>1. BudgetOf(j)
  BY BudgetByFile
<1>2. job[j].retries \in 0 .. MaxRetries /\ MaxRetries \in Nat
  BY RetriesAssumption DEF TypeOK, JobRow, RetriesAssumption
<1>3. CASE ClaimJob(j, a)
  <2>1. /\ job'[j].status = "running"
        /\ ~ job'[j].overdue
        /\ job'[j].available # "future"
        /\ lease'[j].token = a
        /\ worker'[j][a] = "working"
    BY <1>3 DEF ClaimJob, Claimable, TypeOK, JobRow
  <2>2. OthersIdle(j)
    BY <1>3 DEF ClaimJob, OthersIdle, TypeOK
  <2> QED BY <2>1, <2>2 DEF BudgetOf, OwnsRunningLease
<1>4. CASE CompleteJob(j, a)
  <2>1. /\ job'[j].status = "completed"
        /\ job'[j].overdue = job[j].overdue
        /\ job'[j].available = job[j].available
    BY <1>4 DEF CompleteJob, TypeOK, JobRow
  <2>2. OthersIdle(j)
    BY <1>4 DEF CompleteJob, OthersIdle, TypeOK
  <2> QED BY <1>1, <1>4, <2>1, <2>2 DEF CompleteJob, BudgetOf, OwnsRunningLease
<1>5. CASE ScheduleRetry(j, a)
  <2>1. /\ job'[j].status = "queued"
        /\ job'[j].dispatch = "dispatched"
        /\ job'[j].overdue = job[j].overdue
    BY <1>5 DEF ScheduleRetry, TypeOK, JobRow
  <2>2. OthersIdle(j)
    BY <1>5 DEF ScheduleRetry, OthersIdle, TypeOK
  <2> QED BY <1>1, <1>5, <2>1, <2>2 DEF ScheduleRetry, BudgetOf, OwnsRunningLease
<1>6. CASE RefuseRetry(j, a)
  <2>1. OwnsRunningLease(j, a) => job[j].retries = MaxRetries
    BY <1>2, <1>6 DEF RefuseRetry, RetriesLeft
  <2>2. \A b \in Attempt : worker'[j][b] = "givingUp" => b = a \/ worker[j][b] = "givingUp"
    BY <1>6 DEF RefuseRetry, TypeOK
  <2>3. OthersIdle(j) /\ UNCHANGED <<job, lease>>
    BY <1>6 DEF RefuseRetry, OthersIdle, TypeOK
  <2> QED BY <1>1, <2>1, <2>2, <2>3 DEF BudgetOf, OwnsRunningLease
<1>7. CASE MarkFailed(j, a)
  <2>1. job[j].retries = MaxRetries
    BY <1>1, <1>7 DEF MarkFailed, BudgetOf
  <2>2. /\ job'[j].status = "failed"
        /\ job'[j].retries = job[j].retries
        /\ job'[j].overdue = job[j].overdue
        /\ job'[j].available = job[j].available
    BY <1>7 DEF MarkFailed, TypeOK, JobRow
  <2>3. OthersIdle(j)
    BY <1>7 DEF MarkFailed, FailPermanently, OthersIdle, TypeOK
  <2> QED BY <1>1, <1>7, <2>1, <2>2, <2>3 DEF MarkFailed, BudgetOf, OwnsRunningLease
<1>8. CASE \/ RetryTask(j, a) \/ AbandonTask(j, a) \/ CrashWorker(j, a)
           \/ RedeliverMessage(j, a)
  <2>1. OthersIdle(j) /\ UNCHANGED <<job, lease>>
    BY <1>8 DEF RetryTask, AbandonTask, CrashWorker, RedeliverMessage, OthersIdle, TypeOK
  <2>2. \A b \in Attempt : worker'[j][b] = "givingUp" => worker[j][b] = "givingUp"
    BY <1>8 DEF RetryTask, AbandonTask, CrashWorker, RedeliverMessage, TypeOK
  <2> QED BY <1>1, <2>1, <2>2 DEF BudgetOf, OwnsRunningLease
<1> QED BY <1>3, <1>4, <1>5, <1>6, <1>7, <1>8 DEF WorkerStep

\* The sweep of expired leases finds the retries of what it fails used up.
LEMMA SweepGivesUpLast ==
  ASSUME TypeOK, NEW j \in Job, FailExpired(j)
  PROVE  job[j].retries = MaxRetries
<1>1. job[j].retries \in 0 .. MaxRetries /\ MaxRetries \in Nat
  BY RetriesAssumption DEF TypeOK, JobRow, RetriesAssumption
<1> QED BY <1>1 DEF FailExpired, RetriesLeft

\* The sweeps keep the budget and start no delay.
LEMMA BeatKeepsBudget ==
  ASSUME TypeOK, BudgetInv, NEW j \in Job, BeatStep(j)
  PROVE  OthersIdle(j) /\ BudgetOf(j)'
<1>1. BudgetOf(j)
  BY BudgetByFile
<1>2. CASE ReconcileStaleQueued(j)
  BY <1>1, <1>2 DEF ReconcileStaleQueued, OthersIdle, BudgetOf, OwnsRunningLease, TypeOK, JobRow
<1>3. CASE RequeueExpired(j)
  <2>1. /\ job'[j].status = "queued"
        /\ job'[j].available = "past"
    BY <1>3 DEF RequeueExpired, TypeOK, JobRow
  <2>2. OthersIdle(j)
    BY <1>3 DEF RequeueExpired, OthersIdle, TypeOK
  <2> QED BY <2>1, <2>2 DEF BudgetOf, OwnsRunningLease
<1>4. CASE FailExpired(j)
  <2>1. job[j].retries = MaxRetries
    BY <1>4, SweepGivesUpLast
  <2>2. /\ job'[j].status = "failed"
        /\ job'[j].retries = job[j].retries
        /\ job'[j].overdue = job[j].overdue
        /\ job'[j].available = job[j].available
    BY <1>4 DEF FailExpired, TypeOK, JobRow
  <2>3. OthersIdle(j)
    BY <1>4 DEF FailExpired, FailPermanently, OthersIdle, TypeOK
  <2> QED BY <1>1, <1>4, <2>1, <2>2, <2>3 DEF FailExpired, BudgetOf, OwnsRunningLease
<1> QED BY <1>2, <1>3, <1>4 DEF BeatStep

\* Time ends a delay, and a row becomes overdue only after it.
LEMMA EnvironmentKeepsBudget ==
  ASSUME TypeOK, BudgetInv, NEW j \in Job, EnvironmentStep(j)
  PROVE  OthersIdle(j) /\ BudgetOf(j)'
<1>1. BudgetOf(j)
  BY BudgetByFile
<1>2. CASE IgnoreMessage(j) \/ LoseMessage(j)
  BY <1>1, <1>2 DEF IgnoreMessage, LoseMessage, OthersIdle, BudgetOf, OwnsRunningLease
<1>3. CASE RetryDelayElapses(j)
  BY <1>1, <1>3 DEF RetryDelayElapses, OthersIdle, BudgetOf, OwnsRunningLease, TypeOK, JobRow
<1>4. CASE BecomesOverdue(j)
  BY <1>1, <1>4
     DEF BecomesOverdue, Claimable, OthersIdle, BudgetOf, OwnsRunningLease, TypeOK, JobRow
<1>5. CASE LeaseExpires(j)
  BY <1>1, <1>5 DEF LeaseExpires, OthersIdle, BudgetOf, OwnsRunningLease, TypeOK, LeaseColumns
<1> QED BY <1>2, <1>3, <1>4, <1>5 DEF EnvironmentStep

\* Every step keeps the retry budget.
LEMMA NextKeepsBudget ==
  ASSUME TypeOK, BudgetInv, [Next]_vars
  PROVE  BudgetInv'
<1>1. ASSUME NEW j \in Job, AdmitUpload(j) \/ ManualRetry(j) \/ PipelineStep(j)
      PROVE  OthersIdle(j) /\ BudgetOf(j)'
  BY <1>1, RequestKeepsBudget, DispatchKeepsBudget, WorkerKeepsBudget, BeatKeepsBudget,
     EnvironmentKeepsBudget
     DEF PipelineStep
<1>2. CASE Next
  BY <1>1, <1>2, BudgetOfOneFile DEF Next
<1>3. CASE UNCHANGED vars
  BY <1>3 DEF vars, BudgetInv, FailedAfterRetries, GivingUpIsJustified, WaitingIsScheduled,
              OwnsRunningLease
<1> QED BY <1>2, <1>3

\* No row has failed, waits or is owned before the first upload.
LEMMA InitBudget == Init => BudgetInv
<1> SUFFICES ASSUME Init PROVE BudgetInv
  OBVIOUS
<1>1. \A j \in Job : job[j].status = "absent" /\ job[j].available = "null" /\ ~ job[j].overdue
  BY DEF Init, AbsentJob, NewJob
<1>2. \A j \in Job, a \in Attempt : worker[j][a] = "idle"
  BY DEF Init
<1> QED
  BY <1>1, <1>2 DEF BudgetInv, FailedAfterRetries, GivingUpIsJustified, WaitingIsScheduled

\* A job fails only with its automatic retries used up, although the refusal
\* of the last one and the failure are two transactions and the sweep of
\* expired leases spends retries as well; and only a row that
\* schedule_processing_retry wrote waits for a delay.
THEOREM BudgetCorrect ==
  Spec => [](FailedAfterRetries /\ GivingUpIsJustified /\ WaitingIsScheduled)
<1>1. BudgetInv => FailedAfterRetries /\ GivingUpIsJustified /\ WaitingIsScheduled
  BY DEF BudgetInv
<1>2. TypeOK /\ BudgetInv /\ [Next]_vars => BudgetInv'
  BY NextKeepsBudget
<1> QED
  BY InitBudget, TypeCorrect, <1>1, <1>2, PTL DEF Spec

\* All the invariants together, the conjunction that the runs check.
THEOREM InvariantCorrect == Spec => []InductiveInvariant
<1>1. /\ TypeOK
      /\ RowsAgree /\ ReadyMeansProcessed /\ OutcomeIsRecorded /\ FailureIsReal
      /\ FailedAfterRetries /\ GivingUpIsJustified /\ WaitingIsScheduled
      => InductiveInvariant
  BY DEF InductiveInvariant
<1> QED
  BY TypeCorrect, OutcomeCorrect, BudgetCorrect, <1>1, PTL

---------------------------------------------------------------------------
(* Action properties *)

\* No step touches the row or the file of a completed job.
LEMMA CompletedIsKept ==
  ASSUME InductiveInvariant, [Next]_vars,
         NEW k \in Job, job[k].status = "completed"
  PROVE  job'[k] = job[k] /\ file'[k] = file[k]
<1> USE DEF InductiveInvariant
<1>1. file'[k] = file[k]
  <2>1. CASE QuietStep
    BY <2>1 DEF QuietStep
  <2>2. ASSUME NEW j \in Job, KindOfStep(j) PROVE file'[k] = file[k]
    BY <2>2 DEF KindOfStep, Admitted, Retried, Reopened, Started, Requeued, Failed, Completed,
                RowBecomes, OthersKept
  <2> QED BY <2>1, <2>2, StepKind
<1>2. job'[k] = job[k]
  <2>1. ASSUME NEW j \in Job, AdmitUpload(j) \/ ManualRetry(j) PROVE job'[k] = job[k]
    BY <2>1 DEF AdmitUpload, ManualRetry, TypeOK
  <2>2. ASSUME NEW j \in Job, NEW d \in Dispatcher, DispatchStep(j, d) PROVE job'[k] = job[k]
    BY <2>2 DEF DispatchStep, ClaimDispatch, SkipDispatch, SendTask, ConfirmDispatch,
                FailDispatch, CrashDispatcher, Dispatchable, StillDispatching, TypeOK
  <2>3. ASSUME NEW j \in Job, NEW a \in Attempt, WorkerStep(j, a) PROVE job'[k] = job[k]
    BY <2>3 DEF WorkerStep, ClaimJob, CompleteJob, ScheduleRetry, RefuseRetry, MarkFailed,
                RetryTask, AbandonTask, CrashWorker, RedeliverMessage, Claimable,
                OwnsRunningLease, TypeOK
  <2>4. ASSUME NEW j \in Job, BeatStep(j) PROVE job'[k] = job[k]
    BY <2>4 DEF BeatStep, ReconcileStaleQueued, Stale, RequeueExpired, FailExpired, TypeOK
  <2>5. ASSUME NEW j \in Job, EnvironmentStep(j) PROVE job'[k] = job[k]
    BY <2>5 DEF EnvironmentStep, IgnoreMessage, LoseMessage, RetryDelayElapses, BecomesOverdue,
                LeaseExpires, Claimable, WaitingIsScheduled, TypeOK
  <2>6. CASE UNCHANGED vars
    BY <2>6 DEF vars
  <2> QED BY <2>1, <2>2, <2>3, <2>4, <2>5, <2>6 DEF Next, PipelineStep
<1> QED BY <1>1, <1>2

\* Completion is final for every number of late workers, repeated messages
\* and sweeps.
THEOREM CompletionFinal == Spec => CompletedIsFinal
<1>1. InductiveInvariant /\ [Next]_vars =>
        [\A j \in Job : job[j].status = "completed" =>
           job'[j] = job[j] /\ file'[j] = file[j]]_vars
  BY CompletedIsKept
<1> QED
  BY InvariantCorrect, <1>1, PTL DEF Spec, CompletedIsFinal

\* Of the steps that move an execution on, those of an execution without the
\* lease write no row.
LEMMA StaleStepIsQuiet ==
  ASSUME TypeOK, Next,
         NEW j \in Job, NEW a \in Attempt,
         worker[j][a] \in {"working", "givingUp"},
         worker'[j][a] # worker[j][a],
         lease[j] # [token |-> a, live |-> TRUE]
  PROVE  UNCHANGED <<job, lease, file, survey>>
<1>1. PICK i \in Job : AdmitUpload(i) \/ ManualRetry(i) \/ PipelineStep(i)
  BY DEF Next
<1>2. CASE AdmitUpload(i) \/ ManualRetry(i) \/ (\E d \in Dispatcher : DispatchStep(i, d))
           \/ BeatStep(i) \/ EnvironmentStep(i)
  <2>1. UNCHANGED worker
    BY <1>2 DEF AdmitUpload, ManualRetry, DispatchStep, ClaimDispatch, SkipDispatch, SendTask,
                ConfirmDispatch, FailDispatch, CrashDispatcher, BeatStep, ReconcileStaleQueued,
                RequeueExpired, FailExpired, EnvironmentStep, IgnoreMessage, LoseMessage,
                RetryDelayElapses, BecomesOverdue, LeaseExpires
  <2> QED BY <2>1
<1>3. ASSUME NEW b \in Attempt, WorkerStep(i, b)
      PROVE  UNCHANGED <<job, lease, file, survey>>
  <2>1. CASE ClaimJob(i, b) \/ CompleteJob(i, b) \/ ScheduleRetry(i, b) \/ MarkFailed(i, b)
    <3>1. \E w \in WorkerState : worker' = [worker EXCEPT ![i][b] = w]
      BY <2>1 DEF ClaimJob, CompleteJob, ScheduleRetry, MarkFailed, WorkerState
    <3>2. i = j /\ b = a
      BY <3>1 DEF TypeOK
    <3> QED
      BY <2>1, <3>2 DEF ClaimJob, Fresh, CompleteJob, ScheduleRetry, MarkFailed, OwnsRunningLease
  <2>2. CASE \/ RefuseRetry(i, b) \/ RetryTask(i, b) \/ AbandonTask(i, b)
             \/ CrashWorker(i, b) \/ RedeliverMessage(i, b)
    BY <2>2 DEF RefuseRetry, RetryTask, AbandonTask, CrashWorker, RedeliverMessage
  <2> QED BY <1>3, <2>1, <2>2 DEF WorkerStep
<1> QED BY <1>1, <1>2, <1>3 DEF PipelineStep

\* A worker that lost its lease ends without a write, however many other
\* executions of the same job there are.
THEOREM FencingCorrect == Spec => StaleWorkersAreFenced
<1>1. TypeOK /\ [Next]_vars =>
        [\A j \in Job, a \in Attempt :
           /\ worker[j][a] \in {"working", "givingUp"}
           /\ worker'[j][a] # worker[j][a]
           /\ lease[j] # [token |-> a, live |-> TRUE]
           => UNCHANGED <<job, lease, file, survey>>]_vars
  BY StaleStepIsQuiet
<1> QED
  BY TypeCorrect, <1>1, PTL DEF Spec, StaleWorkersAreFenced

\* A row whose delay is running changes only by the end of the delay.
LEMMA DelayIsKept ==
  ASSUME TypeOK, WaitingIsScheduled, Next,
         NEW k \in Job, job[k].available = "future", job'[k] # job[k]
  PROVE  job'[k] = [job[k] EXCEPT !.available = "past"]
<1>1. job[k].status = "queued" /\ job[k].dispatch = "dispatched" /\ ~ job[k].overdue
  BY DEF WaitingIsScheduled
<1>2. PICK j \in Job : AdmitUpload(j) \/ ManualRetry(j) \/ PipelineStep(j)
  BY DEF Next
<1>3. ASSUME AdmitUpload(j) \/ ManualRetry(j) PROVE job'[k] = job[k]
  BY <1>1, <1>3 DEF AdmitUpload, ManualRetry, TypeOK
<1>4. ASSUME NEW d \in Dispatcher, DispatchStep(j, d) PROVE job'[k] = job[k]
  BY <1>1, <1>4 DEF DispatchStep, ClaimDispatch, SkipDispatch, SendTask, ConfirmDispatch,
                    FailDispatch, CrashDispatcher, Dispatchable, StillDispatching, TypeOK
<1>5. ASSUME NEW a \in Attempt, WorkerStep(j, a) PROVE job'[k] = job[k]
  BY <1>1, <1>5 DEF WorkerStep, ClaimJob, CompleteJob, ScheduleRetry, RefuseRetry, MarkFailed,
                    RetryTask, AbandonTask, CrashWorker, RedeliverMessage, Claimable,
                    OwnsRunningLease, TypeOK
<1>6. ASSUME BeatStep(j) PROVE job'[k] = job[k]
  BY <1>1, <1>6 DEF BeatStep, ReconcileStaleQueued, Stale, RequeueExpired, FailExpired, TypeOK
<1>7. ASSUME EnvironmentStep(j) PROVE job'[k] = [job[k] EXCEPT !.available = "past"]
  <2>1. CASE RetryDelayElapses(j)
    BY <2>1 DEF RetryDelayElapses, TypeOK
  <2>2. CASE IgnoreMessage(j) \/ LoseMessage(j) \/ BecomesOverdue(j) \/ LeaseExpires(j)
    BY <2>2 DEF IgnoreMessage, LoseMessage, BecomesOverdue, LeaseExpires, Claimable, TypeOK
  <2> QED BY <1>7, <2>1, <2>2 DEF EnvironmentStep
<1> QED BY <1>2, <1>3, <1>4, <1>5, <1>6, <1>7 DEF PipelineStep

\* The delay before an automatic retry is kept against every number of late
\* dispatch confirmations, sweeps and messages.
THEOREM BackoffCorrect == Spec => BackoffIsKept
<1>1. TypeOK /\ WaitingIsScheduled /\ [Next]_vars =>
        [\A j \in Job :
           job[j].available = "future" /\ job'[j] # job[j] =>
             job'[j] = [job[j] EXCEPT !.available = "past"]]_vars
  BY DelayIsKept
<1> QED
  BY TypeCorrect, BudgetCorrect, <1>1, PTL DEF Spec, BackoffIsKept

---------------------------------------------------------------------------
(* The pipeline implements JobOwnership for every job: whoever moves a     *)
(* job on held its lease or found it over, and a step on one job is none   *)
(* of another.                                                             *)

\* What JobOwnership allows to happen to a job.
OwnershipStep(j) == [Ownership(j)!Next]_(Ownership(j)!ownership)

\* The executions of a job after one of them moved on.
LEMMA RunningNext ==
  ASSUME TypeOK, NEW j \in Job, NEW a \in Attempt, NEW w \in WorkerState,
         worker' = [worker EXCEPT ![j][a] = w]
  PROVE  Running(j)' = IF w \in {"working", "givingUp"} THEN Running(j) \cup {a}
                                                        ELSE Running(j) \ {a}
<1>1. \A b \in Attempt : worker'[j][b] = IF b = a THEN w ELSE worker[j][b]
  BY DEF TypeOK
<1> QED BY <1>1 DEF Running

\* A job stutters when its row, its lease and its executions stay.
LEMMA OwnershipStutters ==
  ASSUME NEW j \in Job,
         job'[j].status = job[j].status, job'[j].retries = job[j].retries,
         lease'[j] = lease[j], Running(j)' = Running(j)
  PROVE  OwnershipStep(j)
BY DEF OwnershipStep, Ownership!ownership

\* So do the jobs that a step is not about.
LEMMA OwnershipOfOthers ==
  ASSUME NEW j \in Job, OthersIdle(j), NEW k \in Job \ {j}
  PROVE  OwnershipStep(k)
<1>1. job'[k] = job[k] /\ lease'[k] = lease[k] /\ worker'[k] = worker[k]
  BY DEF OthersIdle
<1> QED BY <1>1, OwnershipStutters DEF Running

\* No lease is left on a row that does not run.
LEMMA NoLeaseAtRest ==
  ASSUME TypeOK, RowsAgree, NEW j \in Job, job[j].status # "running"
  PROVE  lease[j] = NoLease
<1>1. lease[j] \in LeaseColumns
  BY DEF TypeOK
<1>2. lease[j].token = NoAttempt /\ ~ lease[j].live
  BY DEF RowsAgree
<1> QED BY <1>1, <1>2 DEF LeaseColumns, NoLease

\* An upload and a retry by hand queue a job that nobody owns.
LEMMA RequestOwnership ==
  ASSUME TypeOK, RowsAgree, NEW j \in Job, AdmitUpload(j) \/ ManualRetry(j)
  PROVE  OwnershipStep(j)
<1>1. /\ job[j].status \in {"absent", "failed"}
      /\ job'[j].status = "queued" /\ job'[j].retries = 0
  BY DEF AdmitUpload, ManualRetry, NewJob, TypeOK
<1>2. lease'[j] = NoLease
  BY NoLeaseAtRest DEF AdmitUpload, ManualRetry, TypeOK
<1>3. Running(j)' = Running(j)
  BY DEF AdmitUpload, ManualRetry, Running
<1>4. Ownership(j)!Enqueue
  BY <1>1, <1>2, <1>3 DEF Ownership!Enqueue, Ownership!Free, NoLease
<1> QED BY <1>4 DEF OwnershipStep, Ownership!Next

\* A dispatch call takes part in nothing of this.
LEMMA DispatchOwnership ==
  ASSUME TypeOK, NEW j \in Job, NEW d \in Dispatcher, DispatchStep(j, d)
  PROVE  OwnershipStep(j)
<1>1. job'[j].status = job[j].status /\ job'[j].retries = job[j].retries
  BY DEF DispatchStep, ClaimDispatch, SkipDispatch, SendTask, ConfirmDispatch, FailDispatch,
         CrashDispatcher, TypeOK, JobRow
<1>2. UNCHANGED <<lease, worker>>
  BY DEF DispatchStep, ClaimDispatch, SkipDispatch, SendTask, ConfirmDispatch, FailDispatch,
         CrashDispatcher
<1> QED BY <1>1, <1>2, OwnershipStutters DEF Running

\* A worker claims the job, lets it go, or stops without a write.
LEMMA WorkerOwnership ==
  ASSUME TypeOK, RowsAgree, BudgetInv, NEW j \in Job, NEW a \in Attempt, WorkerStep(j, a)
  PROVE  OwnershipStep(j)
<1>1. OwnsRunningLease(j, a) /\ worker[j][a] \in {"working", "givingUp"} => Ownership(j)!Owns(a)
  BY DEF OwnsRunningLease, Ownership!Owns, Running
<1>2. CASE ClaimJob(j, a)
  <2>1. a \notin Running(j) /\ Running(j)' = Running(j) \cup {a}
    BY <1>2, RunningNext DEF ClaimJob, Fresh, Running, WorkerState
  <2>2. /\ job[j].status = "queued" /\ job'[j].status = "running"
        /\ job'[j].retries = job[j].retries
        /\ lease'[j] = [token |-> a, live |-> TRUE]
    BY <1>2 DEF ClaimJob, Claimable, TypeOK, JobRow
  <2>3. Ownership(j)!Claim(a)
    BY <2>1, <2>2 DEF Ownership!Claim
  <2> QED BY <2>3 DEF OwnershipStep, Ownership!Next
<1>3. CASE CompleteJob(j, a)
  <2>1. Running(j)' = Running(j) \ {a}
    BY <1>3, RunningNext DEF CompleteJob, WorkerState
  <2>2. /\ job'[j].status = "completed" /\ job'[j].retries = job[j].retries
        /\ lease'[j] = NoLease
    BY <1>3 DEF CompleteJob, TypeOK, JobRow
  <2>3. Ownership(j)!Complete(a)
    BY <1>1, <1>3, <2>1, <2>2
       DEF CompleteJob, Ownership!Complete, Ownership!Free, NoLease
  <2> QED BY <2>3 DEF OwnershipStep, Ownership!Next
<1>4. CASE ScheduleRetry(j, a)
  <2>1. Running(j)' = Running(j) \ {a}
    BY <1>4, RunningNext DEF ScheduleRetry, WorkerState
  <2>2. /\ job'[j].status = "queued" /\ job'[j].retries = job[j].retries + 1
        /\ job[j].retries < MaxRetries
        /\ lease'[j] = NoLease
    BY <1>4 DEF ScheduleRetry, RetriesLeft, TypeOK, JobRow
  <2>3. Ownership(j)!PutBack
    BY <1>1, <1>4, <2>1, <2>2
       DEF ScheduleRetry, Ownership!PutBack, Ownership!LetGo, Ownership!Free, NoLease
  <2> QED BY <2>3 DEF OwnershipStep, Ownership!Next
<1>5. CASE RefuseRetry(j, a)
  <2>1. Running(j)' = Running(j)
    BY <1>5, RunningNext DEF RefuseRetry, WorkerState, Running
  <2> QED BY <1>5, <2>1, OwnershipStutters DEF RefuseRetry
<1>6. CASE MarkFailed(j, a)
  <2>1. Running(j)' = Running(j) \ {a}
    BY <1>6, RunningNext DEF MarkFailed, WorkerState
  <2>2. /\ job'[j].status = "failed" /\ job'[j].retries = job[j].retries
        /\ lease'[j] = NoLease
    BY <1>6 DEF MarkFailed, FailPermanently, TypeOK, JobRow
  <2>3. job[j].retries = MaxRetries
    BY <1>6 DEF MarkFailed, BudgetInv, GivingUpIsJustified
  <2>4. Ownership(j)!GiveUp
    BY <1>1, <1>6, <2>1, <2>2, <2>3
       DEF MarkFailed, Ownership!GiveUp, Ownership!LetGo, Ownership!Free, NoLease
  <2> QED BY <2>4 DEF OwnershipStep, Ownership!Next
<1>7. CASE RetryTask(j, a) \/ AbandonTask(j, a) \/ CrashWorker(j, a)
  <2>1. Running(j)' = Running(j) \ {a} /\ UNCHANGED <<job, lease>>
    BY <1>7, RunningNext DEF RetryTask, AbandonTask, CrashWorker, WorkerState
  <2>2. CASE a \in Running(j)
    <3>1. Ownership(j)!Leave(a)
      BY <2>1, <2>2 DEF Ownership!Leave
    <3> QED BY <3>1 DEF OwnershipStep, Ownership!Next
  <2>3. CASE a \notin Running(j)
    BY <2>1, <2>3, OwnershipStutters
  <2> QED BY <2>2, <2>3
<1>8. CASE RedeliverMessage(j, a)
  BY <1>8, OwnershipStutters DEF RedeliverMessage, Running
<1> QED BY <1>2, <1>3, <1>4, <1>5, <1>6, <1>7, <1>8 DEF WorkerStep

\* The sweep takes a job only from an owner whose lease is over.
LEMMA BeatOwnership ==
  ASSUME TypeOK, NEW j \in Job, BeatStep(j)
  PROVE  OwnershipStep(j)
<1>1. Running(j)' = Running(j)
  BY DEF BeatStep, ReconcileStaleQueued, RequeueExpired, FailExpired, Running
<1>2. CASE ReconcileStaleQueued(j)
  <2>1. job'[j].status = job[j].status /\ job'[j].retries = job[j].retries
    BY <1>2 DEF ReconcileStaleQueued, TypeOK, JobRow
  <2> QED BY <1>1, <1>2, <2>1, OwnershipStutters DEF ReconcileStaleQueued
<1>3. CASE RequeueExpired(j)
  <2>1. /\ job'[j].status = "queued" /\ job'[j].retries = job[j].retries + 1
        /\ job[j].retries < MaxRetries
        /\ lease'[j] = NoLease
    BY <1>3 DEF RequeueExpired, RetriesLeft, TypeOK, JobRow
  <2>2. Ownership(j)!PutBack
    BY <1>1, <1>3, <2>1
       DEF RequeueExpired, Ownership!PutBack, Ownership!LetGo, Ownership!IsLeft,
           Ownership!Free, NoLease
  <2> QED BY <2>2 DEF OwnershipStep, Ownership!Next
<1>4. CASE FailExpired(j)
  <2>1. /\ job'[j].status = "failed" /\ job'[j].retries = job[j].retries
        /\ lease'[j] = NoLease
    BY <1>4 DEF FailExpired, FailPermanently, TypeOK, JobRow
  <2>2. job[j].retries = MaxRetries
    BY <1>4, SweepGivesUpLast
  <2>3. Ownership(j)!GiveUp
    BY <1>1, <1>4, <2>1, <2>2
       DEF FailExpired, Ownership!GiveUp, Ownership!LetGo, Ownership!IsLeft,
           Ownership!Free, NoLease
  <2> QED BY <2>3 DEF OwnershipStep, Ownership!Next
<1> QED BY <1>2, <1>3, <1>4 DEF BeatStep

\* Of the clock and the broker only the end of a lease matters.
LEMMA EnvironmentOwnership ==
  ASSUME TypeOK, NEW j \in Job, EnvironmentStep(j)
  PROVE  OwnershipStep(j)
<1>1. Running(j)' = Running(j)
  BY DEF EnvironmentStep, IgnoreMessage, LoseMessage, RetryDelayElapses, BecomesOverdue,
         LeaseExpires, Running
<1>2. CASE IgnoreMessage(j) \/ LoseMessage(j)
  BY <1>1, <1>2, OwnershipStutters DEF IgnoreMessage, LoseMessage
<1>3. CASE RetryDelayElapses(j) \/ BecomesOverdue(j)
  <2>1. job'[j].status = job[j].status /\ job'[j].retries = job[j].retries /\ UNCHANGED lease
    BY <1>3 DEF RetryDelayElapses, BecomesOverdue, TypeOK, JobRow
  <2> QED BY <1>1, <2>1, OwnershipStutters
<1>4. CASE LeaseExpires(j)
  <2>1. Ownership(j)!Expire
    BY <1>1, <1>4 DEF LeaseExpires, Ownership!Expire, TypeOK
  <2> QED BY <2>1 DEF OwnershipStep, Ownership!Next
<1> QED BY <1>2, <1>3, <1>4 DEF EnvironmentStep

\* So every step of the pipeline is, for every job, one that was promised.
LEMMA EveryOwnershipStep ==
  ASSUME TypeOK, RowsAgree, BudgetInv, Next, NEW k \in Job
  PROVE  OwnershipStep(k)
<1>1. PICK j \in Job : AdmitUpload(j) \/ ManualRetry(j) \/ PipelineStep(j)
  BY DEF Next
<1>2. CASE k # j
  <2>1. OthersIdle(j)
    BY <1>1, RequestKeepsBudget, DispatchKeepsBudget, WorkerKeepsBudget, BeatKeepsBudget,
       EnvironmentKeepsBudget
       DEF PipelineStep
  <2> QED BY <1>2, <2>1, OwnershipOfOthers
<1>3. CASE k = j
  BY <1>1, <1>3, RequestOwnership, DispatchOwnership, WorkerOwnership, BeatOwnership,
     EnvironmentOwnership
     DEF PipelineStep
<1> QED BY <1>2, <1>3

\* Before the first upload no job is owned.
LEMMA InitOwnership == Init => \A j \in Job : Ownership(j)!Init
<1> SUFFICES ASSUME Init, NEW j \in Job PROVE Ownership(j)!Init
  OBVIOUS
<1>1. job[j].status = "absent" /\ job[j].retries = 0 /\ lease[j] = NoLease
  BY DEF Init, AbsentJob, NewJob
<1>2. Running(j) = {}
  BY DEF Init, Running
<1> QED BY <1>1, <1>2 DEF Ownership!Init, Ownership!Free, NoLease

\* The pipeline keeps what it promises of a job, and what Execution builds
\* on, for every number of files, executions, sweeps and messages: a job is
\* moved by the one owner of its lease or after its lease is over, put back
\* MAX_AUTOMATIC_RETRIES times and given up only then.
THEOREM OwnershipCorrect == Spec => KeepsOwnership
<1>1. InductiveInvariant /\ [Next]_vars =>
        [\A j \in Job : [Ownership(j)!Next]_(Ownership(j)!ownership)]_vars
  BY EveryOwnershipStep DEF OwnershipStep, InductiveInvariant, BudgetInv
<1>2. Init => \A j \in Job : Ownership(j)!Init
  BY InitOwnership
<1> QED
  BY InvariantCorrect, <1>1, <1>2, PTL DEF Spec, KeepsOwnership

---------------------------------------------------------------------------
(* The pipeline implements the safety part of SurveyLifecycle: under the   *)
(* mapping Stage and Phase each kind of step is one action of the          *)
(* lifecycle, or none.                                                     *)

\* What Stage is for one file.
LEMMA StageOf ==
  ASSUME NEW j \in Job
  PROVE  /\ job[j].status = "absent" => Stage[j] = "none"
         /\ job[j].status = "completed" => Stage[j] = "done"
         /\ job[j].status = "failed" => Stage[j] = "failed"
         /\ job[j].status \in {"queued", "running"} => Stage[j] = "pending"
BY DEF Stage

\* The same after a step.
LEMMA StageOfNext ==
  ASSUME NEW j \in Job
  PROVE  /\ job'[j].status = "absent" => Stage'[j] = "none"
         /\ job'[j].status = "completed" => Stage'[j] = "done"
         /\ job'[j].status = "failed" => Stage'[j] = "failed"
         /\ job'[j].status \in {"queued", "running"} => Stage'[j] = "pending"
BY DEF Stage

\* A step on one file moves the stage of that file only.
LEMMA StageMoves ==
  ASSUME NEW j \in Job, OthersKept(j)
  PROVE  Stage' = [Stage EXCEPT ![j] = Stage'[j]]
<1>1. Stage \in [Job -> {"none", "done", "failed", "pending"}]
  BY DEF Stage
<1>2. Stage' = [k \in Job |-> Stage'[k]]
  BY DEF Stage
<1>3. \A k \in Job \ {j} : Stage'[k] = Stage[k]
  BY DEF Stage, OthersKept
<1> QED BY <1>1, <1>2, <1>3

\* A survey with a file that is not done is open, so it is not under review.
LEMMA UnfinishedIsOpen ==
  ASSUME ReadyMeansProcessed, NEW j \in Job,
         job[j].status \in {"queued", "running", "failed"}
  PROVE  Phase = "open"
BY DEF ReadyMeansProcessed, Uploaded, SurveyFiles, LockedStatuses, Phase

\* Nothing happens to the lifecycle when no status changes.
LEMMA QuietStutters ==
  ASSUME QuietStep
  PROVE  UNCHANGED <<Stage, Phase>>
BY DEF QuietStep, Stage, Phase

\* A completion is the Finish of the lifecycle: the aggregate is READY
\* exactly when no other file is pending or failed.
LEMMA CompletedIsFinish ==
  ASSUME TypeOK, OutcomeInv, NEW j \in Job, Completed(j)
  PROVE  Lifecycle!Finish(j)
<1>1. Phase = "open" /\ Stage[j] = "pending"
  BY UnfinishedIsOpen, StageOf DEF Completed, OutcomeInv
<1>2. Stage' = [Stage EXCEPT ![j] = "done"]
  BY StageMoves, StageOfNext DEF Completed, RowBecomes
<1>3. \A k \in Job \ {j} : job'[k].status = job[k].status /\ file'[k] = file[k]
  BY DEF Completed, RowBecomes, OthersKept
<1>4. job'[j].status = "completed" /\ file'[j] = "ready"
  BY DEF Completed, RowBecomes
<1>5. CASE \A k \in Job \ {j} : Stage[k] \in {"none", "done"}
  <2>1. \A k \in Job \ {j} : job[k].status \in {"absent", "completed"}
    BY <1>5, StageOf DEF TypeOK, JobRow, JobStatus
  <2>2. \A k \in Job : job'[k].status # "absent" =>
          job'[k].status = "completed" /\ file'[k] = "ready"
    BY <1>3, <1>4, <2>1 DEF OutcomeInv, RowsAgree
  <2>3. survey'.status = "READY"
    BY <2>2 DEF Completed, AggregateStatus, SurveyFiles
  <2>4. Phase' = "ready"
    BY <2>3 DEF Phase
  <2> QED BY <1>1, <1>2, <1>5, <2>4 DEF Lifecycle!Finish
<1>6. CASE ~ \A k \in Job \ {j} : Stage[k] \in {"none", "done"}
  <2>1. PICK k \in Job \ {j} : Stage[k] \notin {"none", "done"}
    BY <1>6
  <2>2. job[k].status \notin {"absent", "completed"}
    BY <2>1, StageOf
  <2>3. job'[k].status \notin {"absent", "completed"}
    BY <1>3, <2>2
  <2>4. survey'.status \in {"FAILED", "PROCESSING"}
    BY <2>3 DEF Completed, AggregateStatus, SurveyFiles
  <2>5. Phase' = "open"
    BY <2>4 DEF Phase
  <2> QED BY <1>1, <1>2, <1>6, <2>5 DEF Lifecycle!Finish
<1> QED BY <1>5, <1>6

\* The other kinds of steps.
LEMMA KindIsLifecycleStep ==
  ASSUME TypeOK, OutcomeInv, NEW j \in Job, KindOfStep(j)
  PROVE  Lifecycle!Next \/ UNCHANGED <<Stage, Phase>>
<1>1. CASE Admitted(j)
  <2>1. Phase \in {"open", "ready"} /\ Phase' = "open"
    BY <1>1 DEF Admitted, Reopened, Phase, OpenStatuses
  <2>2. Stage[j] = "none" /\ Stage' = [Stage EXCEPT ![j] = "pending"]
    BY <1>1, StageOf, StageOfNext, StageMoves DEF Admitted, Reopened, RowBecomes
  <2> QED BY <2>1, <2>2 DEF Lifecycle!Next, Lifecycle!Add
<1>2. CASE Retried(j)
  <2>1. Phase = "open" /\ Phase' = "open"
    <3>1. Phase = "open"
      BY <1>2, UnfinishedIsOpen DEF Retried, OutcomeInv
    <3> QED BY <1>2, <3>1 DEF Retried, Reopened, Phase
  <2>2. Stage[j] = "failed" /\ Stage' = [Stage EXCEPT ![j] = "pending"]
    BY <1>2, StageOf, StageOfNext, StageMoves DEF Retried, Reopened, RowBecomes
  <2> QED BY <2>1, <2>2 DEF Lifecycle!Next, Lifecycle!Retry
<1>3. CASE Started(j)
  <2>1. Phase = "open" /\ Phase' = "open"
    <3>1. Phase = "open"
      BY <1>3, UnfinishedIsOpen DEF Started, OutcomeInv
    <3> QED BY <1>3, <3>1 DEF Started, Phase
  <2>2. Stage[j] = "pending" /\ Stage' = [Stage EXCEPT ![j] = "pending"]
    BY <1>3, StageOf, StageOfNext, StageMoves DEF Started, RowBecomes
  <2>3. Stage' = Stage
    BY <2>2 DEF Stage
  <2> QED BY <2>1, <2>3
<1>4. CASE Requeued(j)
  <2>1. Phase' = Phase
    BY <1>4 DEF Requeued, Phase
  <2>2. Stage[j] = "pending" /\ Stage' = [Stage EXCEPT ![j] = "pending"]
    BY <1>4, StageOf, StageOfNext, StageMoves DEF Requeued, RowBecomes
  <2>3. Stage' = Stage
    BY <2>2 DEF Stage
  <2> QED BY <2>1, <2>3
<1>5. CASE Failed(j)
  <2>1. Phase = "open" /\ Phase' = "open"
    <3>1. Phase = "open"
      BY <1>5, UnfinishedIsOpen DEF Failed, OutcomeInv
    <3> QED BY <1>5, <3>1 DEF Failed, Phase
  <2>2. Stage[j] = "pending" /\ Stage' = [Stage EXCEPT ![j] = "failed"]
    BY <1>5, StageOf, StageOfNext, StageMoves DEF Failed, RowBecomes
  <2> QED BY <2>1, <2>2 DEF Lifecycle!Next, Lifecycle!Fail
<1>6. CASE Completed(j)
  BY <1>6, CompletedIsFinish DEF Lifecycle!Next
<1> QED BY <1>1, <1>2, <1>3, <1>4, <1>5, <1>6 DEF KindOfStep

\* A new survey is where the lifecycle starts.
LEMMA InitIsLifecycleInit == Init => Lifecycle!Init
<1> SUFFICES ASSUME Init PROVE Lifecycle!Init
  OBVIOUS
<1>1. \A j \in Job : job[j].status = "absent"
  BY DEF Init, AbsentJob, NewJob
<1>2. Stage = [j \in Job |-> "none"]
  BY <1>1 DEF Stage
<1>3. Phase = "open"
  BY DEF Init, Phase
<1> QED BY <1>2, <1>3 DEF Lifecycle!Init

\* Each kind of step put together.
LEMMA StepIsLifecycleStep ==
  ASSUME TypeOK, OutcomeInv, [Next]_vars
  PROVE  [Lifecycle!Next]_<<Stage, Phase>>
BY StepKind, QuietStutters, KindIsLifecycleStep DEF OutcomeInv

\* The pipeline implements the lifecycle: whatever dispatchers, workers,
\* sweeps and the broker do to the rows, a survey's files are added, done,
\* given up and put back as SurveyLifecycle says, and the survey is ready
\* exactly from the completion of its last file on.
THEOREM ImplementsLifecycle == Spec => KeepsLifecycle
<1>1. Init => Lifecycle!Init
  BY InitIsLifecycleInit
<1>2. TypeOK /\ OutcomeInv /\ [Next]_vars => [Lifecycle!Next]_<<Stage, Phase>>
  BY StepIsLifecycleStep
<1>3. RowsAgree /\ ReadyMeansProcessed /\ OutcomeIsRecorded /\ FailureIsReal => OutcomeInv
  BY DEF OutcomeInv
<1> QED
  BY TypeCorrect, OutcomeCorrect, <1>1, <1>2, <1>3, PTL
     DEF Spec, KeepsLifecycle, Lifecycle!Spec, Lifecycle!vars

---------------------------------------------------------------------------
(* The composition with the review: what holds of the pipeline still holds *)
(* beside it, and the pipeline leaves a survey under review alone.  Every  *)
(* step is a step of Processing, a move of the review, or the archiving of *)
(* the project.                                                            *)

\* What the proofs below need to know of the rows.
PipelineInv == TypeOK /\ OutcomeInv

\* The review moves the survey from one of the given statuses to the next.
Moved(expected, status) ==
  /\ survey.status \in expected
  /\ survey' = [survey EXCEPT !.status = status]
  /\ UNCHANGED <<job, lease, file, dispatcher, messages, worker>>

ReviewMoved ==
  \/ Moved({"READY"}, "PENDING_APPROVAL")
  \/ Moved({"PENDING_APPROVAL"}, "APPROVED")
  \/ Moved({"PENDING_APPROVAL"}, "REJECTED")
  \/ Moved({"APPROVED", "REJECTED"}, "ARCHIVED")

\* Every step of the composition is one of these.
LEMMA WorkflowStep ==
  ASSUME [WorkflowNext]_workflowVars
  PROVE  [Next]_vars \/ ReviewMoved
<1>1. CASE ProcessingStep
  BY <1>1 DEF ProcessingStep, Next
<1>2. ASSUME NEW u \in User, SubmitSurvey(u) PROVE ReviewMoved
  BY <1>2 DEF SubmitSurvey, MoveSurvey, ReviewMoved, Moved
<1>3. ASSUME NEW u \in User, ApproveSurvey(u) PROVE ReviewMoved
  BY <1>3 DEF ApproveSurvey, MoveSurvey, ReviewMoved, Moved
<1>4. ASSUME NEW u \in User, RejectSurvey(u) PROVE ReviewMoved
  BY <1>4 DEF RejectSurvey, MoveSurvey, ReviewMoved, Moved
<1>5. ASSUME NEW u \in User, ArchiveSurvey(u) PROVE ReviewMoved
  BY <1>5 DEF ArchiveSurvey, MoveSurvey, ReviewMoved, Moved
<1>6. CASE ArchiveProject
  BY <1>6 DEF ArchiveProject
<1>7. CASE UNCHANGED workflowVars
  BY <1>7 DEF workflowVars
<1> QED BY <1>1, <1>2, <1>3, <1>4, <1>5, <1>6, <1>7 DEF WorkflowNext, ReviewStep

\* A move of the review keeps what is known of the rows.
LEMMA ReviewKeepsPipeline ==
  ASSUME PipelineInv, ReviewMoved
  PROVE  PipelineInv'
<1>1. /\ survey.status \in {"READY"} \cup LockedStatuses
      /\ survey'.status \in LockedStatuses
      /\ survey'.processing = survey.processing
      /\ UNCHANGED <<job, lease, file, dispatcher, messages, worker>>
  BY DEF PipelineInv, TypeOK, SurveyRow, ReviewMoved, Moved, LockedStatuses
<1>2. TypeOK'
  BY <1>1 DEF PipelineInv, TypeOK, SurveyRow, ReviewMoved, Moved, LockedStatuses
<1>3. RowsAgree' /\ Uploaded' = Uploaded
  BY <1>1 DEF PipelineInv, OutcomeInv, RowsAgree, Uploaded
<1>4. ReadyMeansProcessed' /\ FailureIsReal'
  BY <1>1, <1>3 DEF PipelineInv, OutcomeInv, ReadyMeansProcessed, FailureIsReal, LockedStatuses
<1>5. OutcomeIsRecorded'
  BY <1>1, <1>3, <1>4 DEF OutcomeIsRecorded, ReadyMeansProcessed, LockedStatuses
<1> QED BY <1>2, <1>3, <1>4, <1>5 DEF PipelineInv, OutcomeInv

\* The pipeline leaves the status and the data set of a survey under review
\* alone, and puts no survey under review.
LEMMA PipelineKeepsReview ==
  ASSUME PipelineInv, [Next]_vars
  PROVE  /\ survey.status \in LockedStatuses =>
              UNCHANGED <<survey, file, lease>> /\ \A k \in Job : job'[k].status = job[k].status
         /\ survey.status \in OpenStatuses => survey'.status \in OpenStatuses
<1>1. TypeOK' /\ OutcomeInv'
  BY NextKeepsType, NextKeepsOutcome DEF PipelineInv
<1>2. CASE QuietStep
  <2>1. UNCHANGED <<survey, file>> /\ \A k \in Job : job'[k].status = job[k].status
    BY <1>2 DEF QuietStep
  <2>2. ASSUME survey.status \in LockedStatuses, NEW k \in Job
        PROVE  lease'[k] = lease[k]
    <3>1. job[k].status # "running" /\ job'[k].status # "running"
      BY <2>1, <2>2 DEF PipelineInv, OutcomeInv, ReadyMeansProcessed, Uploaded
    <3>2. ~ lease[k].live /\ ~ lease'[k].live
      BY <1>1, <3>1 DEF PipelineInv, OutcomeInv, RowsAgree
    <3>3. lease[k] \in LeaseColumns /\ lease'[k] \in LeaseColumns
      BY <1>1 DEF PipelineInv, TypeOK
    <3>4. lease'[k].token = lease[k].token
      BY <1>2 DEF QuietStep
    <3> QED BY <3>2, <3>3, <3>4 DEF LeaseColumns
  <2>3. survey.status \in LockedStatuses => lease' = lease
    BY <1>1, <2>2 DEF PipelineInv, TypeOK
  <2> QED BY <2>1, <2>3
<1>3. ASSUME NEW j \in Job, KindOfStep(j)
      PROVE  survey.status \notin LockedStatuses /\ survey'.status \in OpenStatuses
  <2>1. CASE Admitted(j)
    BY <2>1 DEF Admitted, Reopened, OpenStatuses, LockedStatuses
  <2>2. CASE ~ Admitted(j)
    <3>1. job[j].status \in {"queued", "running", "failed"}
      BY <1>3, <2>2 DEF KindOfStep, Retried, Started, Requeued, Failed, Completed
    <3>2. survey.status \notin LockedStatuses
      BY <3>1 DEF PipelineInv, OutcomeInv, ReadyMeansProcessed, Uploaded
    <3>3. survey.status \in OpenStatuses
      BY <3>2 DEF PipelineInv, TypeOK, SurveyRow
    <3>4. survey'.status \in OpenStatuses
      BY <1>3, <2>2, <3>3
         DEF KindOfStep, Retried, Reopened, Started, Requeued, Failed, Completed,
             AggregateStatus, OpenStatuses
    <3> QED BY <3>2, <3>4
  <2> QED BY <2>1, <2>2
<1> QED BY <1>2, <1>3, StepKind DEF PipelineInv, OutcomeInv

\* So every step keeps the invariant.
LEMMA WorkflowKeepsPipeline ==
  ASSUME PipelineInv, [WorkflowNext]_workflowVars
  PROVE  PipelineInv'
BY WorkflowStep, ReviewKeepsPipeline, NextKeepsType, NextKeepsOutcome DEF PipelineInv

\* A new survey satisfies it ...
LEMMA InitPipeline == Init => PipelineInv
BY InitType, InitOutcome DEF PipelineInv

\* ... and so does every state of the composition.
LEMMA PipelineInvariant == WorkflowSpec => []PipelineInv
<1>1. WorkflowInit => PipelineInv
  BY InitPipeline DEF WorkflowInit
<1> QED
  BY <1>1, WorkflowKeepsPipeline, PTL DEF WorkflowSpec

\* What holds of the pipeline alone still holds with the review beside it:
\* readiness, outcomes and the agreement of the tables survive submissions,
\* decisions and archiving between any two transactions of the pipeline.
THEOREM OutcomeCorrectUnderReview ==
  WorkflowSpec =>
    [](RowsAgree /\ ReadyMeansProcessed /\ OutcomeIsRecorded /\ FailureIsReal)
<1>1. PipelineInv => RowsAgree /\ ReadyMeansProcessed /\ OutcomeIsRecorded /\ FailureIsReal
  BY DEF PipelineInv, OutcomeInv
<1> QED
  BY PipelineInvariant, <1>1, PTL

\* A survey that is READY, or under review, has files and all are processed,
\* whatever the review and the pipeline did to it in between.
THEOREM ReadyCorrectUnderReview == WorkflowSpec => []ReadyMeansProcessed
<1>1. PipelineInv => ReadyMeansProcessed
  BY DEF PipelineInv, OutcomeInv
<1> QED
  BY PipelineInvariant, <1>1, PTL

\* A move of the review keeps the retry budget as well.
LEMMA ReviewKeepsBudget ==
  ASSUME BudgetInv, ReviewMoved
  PROVE  BudgetInv'
<1>1. UNCHANGED <<job, lease, worker>>
  BY DEF ReviewMoved, Moved
<1> QED
  BY <1>1 DEF BudgetInv, FailedAfterRetries, GivingUpIsJustified, WaitingIsScheduled,
              OwnsRunningLease

\* So the whole invariant of the pipeline holds beside the review: retries
\* and failures too are accounted for whatever is decided in between.
THEOREM InvariantUnderReview == WorkflowSpec => []InductiveInvariant
<1>1. WorkflowInit => BudgetInv
  BY InitBudget DEF WorkflowInit
<1>2. PipelineInv /\ BudgetInv /\ [WorkflowNext]_workflowVars => BudgetInv'
  BY WorkflowStep, ReviewKeepsBudget, NextKeepsBudget DEF PipelineInv
<1>3. PipelineInv /\ BudgetInv => InductiveInvariant
  BY DEF PipelineInv, OutcomeInv, BudgetInv, InductiveInvariant
<1> QED
  BY PipelineInvariant, <1>1, <1>2, <1>3, PTL DEF WorkflowSpec

\* A move of the review changes no job, file, lease or execution, so the
\* fences of the pipeline stand beside it: completion is final, a worker
\* without its lease writes nothing, and a delay is not shortened.
THEOREM FencesUnderReview ==
  WorkflowSpec => CompletedIsFinal /\ StaleWorkersAreFenced /\ BackoffIsKept
<1>1. ReviewMoved => UNCHANGED <<job, lease, file, worker>>
  BY DEF ReviewMoved, Moved
<1>2. InductiveInvariant /\ [WorkflowNext]_workflowVars =>
        [\A j \in Job : job[j].status = "completed" =>
           job'[j] = job[j] /\ file'[j] = file[j]]_vars
  BY <1>1, WorkflowStep, CompletedIsKept
<1>3. InductiveInvariant /\ [WorkflowNext]_workflowVars =>
        [\A j \in Job, a \in Attempt :
           /\ worker[j][a] \in {"working", "givingUp"}
           /\ worker'[j][a] # worker[j][a]
           /\ lease[j] # [token |-> a, live |-> TRUE]
           => UNCHANGED <<job, lease, file, survey>>]_vars
  BY <1>1, WorkflowStep, StaleStepIsQuiet DEF InductiveInvariant
<1>4. InductiveInvariant /\ [WorkflowNext]_workflowVars =>
        [\A j \in Job :
           job[j].available = "future" /\ job'[j] # job[j] =>
             job'[j] = [job[j] EXCEPT !.available = "past"]]_vars
  BY <1>1, WorkflowStep, DelayIsKept DEF InductiveInvariant
<1> QED
  BY InvariantUnderReview, <1>2, <1>3, <1>4, PTL
     DEF WorkflowSpec, CompletedIsFinal, StaleWorkersAreFenced, BackoffIsKept

\* Nor does the review take a job from its owner.
THEOREM OwnershipUnderReview == WorkflowSpec => KeepsOwnership
<1>1. InductiveInvariant /\ [WorkflowNext]_workflowVars =>
        [\A j \in Job : [Ownership(j)!Next]_(Ownership(j)!ownership)]_vars
  <2>1. ASSUME ReviewMoved, NEW j \in Job PROVE OwnershipStep(j)
    BY <2>1, OwnershipStutters DEF ReviewMoved, Moved, Running
  <2>2. ASSUME InductiveInvariant, Next, NEW j \in Job PROVE OwnershipStep(j)
    BY <2>2, EveryOwnershipStep DEF InductiveInvariant, BudgetInv
  <2> QED BY <2>1, <2>2, WorkflowStep DEF OwnershipStep
<1>2. WorkflowInit => \A j \in Job : Ownership(j)!Init
  BY InitOwnership DEF WorkflowInit
<1> QED
  BY InvariantUnderReview, <1>1, <1>2, PTL DEF WorkflowSpec, KeepsOwnership

\* The data set of a survey under review is frozen, however many files,
\* workers, dispatch calls and sweeps are still busy with it.
THEOREM FrozenCorrect == WorkflowSpec => DatasetIsFrozen
<1>1. PipelineInv /\ [WorkflowNext]_workflowVars =>
        [survey.status \in LockedStatuses =>
           /\ UNCHANGED <<file, lease>>
           /\ \A j \in Job : job'[j].status = job[j].status]_workflowVars
  <2> SUFFICES ASSUME PipelineInv, [WorkflowNext]_workflowVars, survey.status \in LockedStatuses
               PROVE  UNCHANGED <<file, lease>> /\ \A j \in Job : job'[j].status = job[j].status
    OBVIOUS
  <2>1. CASE [Next]_vars
    BY <2>1, PipelineKeepsReview
  <2>2. CASE ReviewMoved
    BY <2>2 DEF ReviewMoved, Moved
  <2> QED BY <2>1, <2>2, WorkflowStep
<1> QED
  BY PipelineInvariant, <1>1, PTL DEF WorkflowSpec, DatasetIsFrozen

\* Nothing but a decision of the review, and only a legal one, changes the
\* status of a survey under review.
THEOREM ReviewCorrect == WorkflowSpec => ReviewIsNotOverwritten
<1>1. PipelineInv /\ [WorkflowNext]_workflowVars =>
        [survey.status \in LockedStatuses /\ survey' # survey =>
           <<survey.status, survey'.status>> \in
             {<<"PENDING_APPROVAL", "APPROVED">>, <<"PENDING_APPROVAL", "REJECTED">>,
              <<"APPROVED", "ARCHIVED">>, <<"REJECTED", "ARCHIVED">>}]_workflowVars
  <2> SUFFICES ASSUME PipelineInv, [WorkflowNext]_workflowVars,
                      survey.status \in LockedStatuses, survey' # survey
               PROVE  <<survey.status, survey'.status>> \in
                        {<<"PENDING_APPROVAL", "APPROVED">>, <<"PENDING_APPROVAL", "REJECTED">>,
                         <<"APPROVED", "ARCHIVED">>, <<"REJECTED", "ARCHIVED">>}
    OBVIOUS
  <2>1. ReviewMoved
    BY PipelineKeepsReview, WorkflowStep
  <2>2. survey'.status \in {"PENDING_APPROVAL", "APPROVED", "REJECTED", "ARCHIVED"}
    BY <2>1 DEF ReviewMoved, Moved, PipelineInv, TypeOK, SurveyRow
  <2> QED BY <2>1, <2>2 DEF ReviewMoved, Moved, PipelineInv, TypeOK, SurveyRow, LockedStatuses
<1> QED
  BY PipelineInvariant, <1>1, PTL DEF WorkflowSpec, ReviewIsNotOverwritten

---------------------------------------------------------------------------
(* The records of the review *)

\* The columns of the review keep their types.
LEMMA NextKeepsReviewType ==
  ASSUME WorkflowTypeOK, PipelineInv, [WorkflowNext]_workflowVars
  PROVE  WorkflowTypeOK'
<1>1. TypeOK'
  BY WorkflowKeepsPipeline DEF PipelineInv
<1>2. CASE UNCHANGED reviewVars /\ projectActive' \in BOOLEAN
  BY <1>1, <1>2 DEF WorkflowTypeOK, reviewVars
<1>3. ASSUME NEW u \in User, NEW action \in {"submitted", "approved", "rejected", "archived"},
             Record(action, u), UNCHANGED projectActive,
             approval' \in [submittedBy : User \cup {NoUser}, approvedBy : User \cup {NoUser},
                            rejected : BOOLEAN],
             approvedBy' \in User \cup {NoUser}
      PROVE  WorkflowTypeOK'
  <2>1. [action |-> action, actor |-> u] \in HistoryEntry
    BY DEF HistoryEntry
  <2>2. history' \in Seq(HistoryEntry)
    BY <1>3, <2>1 DEF Record, WorkflowTypeOK
  <2> QED BY <1>1, <1>3, <2>2 DEF WorkflowTypeOK
<1>4. ASSUME NEW u \in User, SubmitSurvey(u) PROVE WorkflowTypeOK'
  BY <1>3, <1>4 DEF SubmitSurvey, MoveSurvey, NoApproval, WorkflowTypeOK
<1>5. ASSUME NEW u \in User, ApproveSurvey(u) PROVE WorkflowTypeOK'
  BY <1>3, <1>5 DEF ApproveSurvey, MoveSurvey, WorkflowTypeOK
<1>6. ASSUME NEW u \in User, RejectSurvey(u) PROVE WorkflowTypeOK'
  BY <1>3, <1>6 DEF RejectSurvey, MoveSurvey, WorkflowTypeOK
<1>7. ASSUME NEW u \in User, ArchiveSurvey(u) PROVE WorkflowTypeOK'
  BY <1>3, <1>7 DEF ArchiveSurvey, MoveSurvey, WorkflowTypeOK
<1>8. CASE ProcessingStep \/ ArchiveProject \/ UNCHANGED workflowVars
  BY <1>2, <1>8 DEF ProcessingStep, ArchiveProject, workflowVars, WorkflowTypeOK, reviewVars
<1> QED BY <1>4, <1>5, <1>6, <1>7, <1>8 DEF WorkflowNext, ReviewStep

\* Type correctness of the composition.
THEOREM WorkflowTypeCorrect == WorkflowSpec => []WorkflowTypeOK
<1>1. WorkflowInit => WorkflowTypeOK
  <2> SUFFICES ASSUME WorkflowInit PROVE WorkflowTypeOK
    OBVIOUS
  <2>1. history \in Seq(HistoryEntry)
    BY DEF WorkflowInit
  <2> QED BY <2>1, InitType DEF WorkflowInit, WorkflowTypeOK, NoApproval
<1>2. WorkflowTypeOK /\ PipelineInv /\ [WorkflowNext]_workflowVars => WorkflowTypeOK'
  BY NextKeepsReviewType
<1> QED
  BY <1>1, <1>2, PipelineInvariant, PTL DEF WorkflowSpec

\* The pipeline keeps the account: it moves a survey among the open statuses
\* and touches none of the records.
LEMMA PipelineKeepsHistory ==
  ASSUME WorkflowTypeOK, PipelineInv, HistoryTellsTheReview,
         [Next]_vars, UNCHANGED reviewVars
  PROVE  HistoryTellsTheReview'
<1>1. survey.status \in OpenStatuses \cup LockedStatuses
  BY DEF WorkflowTypeOK, TypeOK, SurveyRow
<1>2. Actions' = Actions
  BY DEF Actions, reviewVars
<1>3. CASE survey.status \in LockedStatuses
  <2>1. UNCHANGED survey
    BY <1>3, PipelineKeepsReview
  <2> QED BY <1>2, <2>1 DEF HistoryTellsTheReview, reviewVars
<1>4. CASE survey.status \in OpenStatuses
  <2>1. survey'.status \in OpenStatuses
    BY <1>4, PipelineKeepsReview
  <2>2. survey'.status \notin LockedStatuses
    BY <2>1 DEF OpenStatuses, LockedStatuses
  <2> QED BY <1>2, <1>4, <2>1, <2>2 DEF HistoryTellsTheReview, reviewVars, LockedStatuses
<1> QED BY <1>1, <1>3, <1>4

\* What a new history row does to the account.
LEMMA RecordAppends ==
  ASSUME WorkflowTypeOK, NEW u \in User, NEW action, Record(action, u)
  PROVE  /\ history' # <<>>
         /\ Len(history') = Len(history) + 1
         /\ Len(history) \in Nat
         /\ \A i \in 1 .. Len(history) : history'[i] = history[i]
         /\ history'[Len(history) + 1] = [action |-> action, actor |-> u]
BY DEF WorkflowTypeOK, Record

\* Two intervals from 1 are the same only if they end alike.
LEMMA SameInterval ==
  ASSUME NEW m \in Nat, NEW n \in Nat, 1 .. m = 1 .. n
  PROVE  m = n
<1>1. CASE m < n
  <2>1. n \in 1 .. n /\ n \notin 1 .. m
    BY <1>1
  <2> QED BY <2>1
<1>2. CASE n < m
  <2>1. m \in 1 .. m /\ m \notin 1 .. n
    BY <1>2
  <2> QED BY <2>1
<1> QED BY <1>1, <1>2

\* The account of one, two or three rows, row by row.
LEMMA ActionsOf ==
  ASSUME NEW h, Len(h) \in Nat, NEW a, NEW b, NEW c
  PROVE  LET actions == [i \in 1 .. Len(h) |-> h[i].action]
         IN  /\ actions = <<a>> <=> Len(h) = 1 /\ h[1].action = a
             /\ actions = <<a, b>> <=> Len(h) = 2 /\ h[1].action = a /\ h[2].action = b
             /\ actions = <<a, b, c>> <=>
                  Len(h) = 3 /\ h[1].action = a /\ h[2].action = b /\ h[3].action = c
<1> DEFINE actions == [i \in 1 .. Len(h) |-> h[i].action]
<1>1. actions = <<a>> <=> Len(h) = 1 /\ h[1].action = a
  <2>1. ASSUME actions = <<a>> PROVE Len(h) = 1 /\ h[1].action = a
    <3>1. DOMAIN actions = 1 .. 1
      BY <2>1
    <3>2. 1 .. Len(h) = 1 .. 1
      BY <3>1
    <3>3. Len(h) = 1
      BY <3>2, SameInterval
    <3>4. actions[1] = a
      BY <2>1
    <3> QED BY <3>3, <3>4
  <2>2. ASSUME Len(h) = 1, h[1].action = a PROVE actions = <<a>>
    BY <2>2
  <2> QED BY <2>1, <2>2
<1>2. actions = <<a, b>> <=> Len(h) = 2 /\ h[1].action = a /\ h[2].action = b
  <2>1. ASSUME actions = <<a, b>> PROVE Len(h) = 2 /\ h[1].action = a /\ h[2].action = b
    <3>1. DOMAIN actions = 1 .. 2
      BY <2>1
    <3>2. 1 .. Len(h) = 1 .. 2
      BY <3>1
    <3>3. Len(h) = 2
      BY <3>2, SameInterval
    <3>4. actions[1] = a /\ actions[2] = b
      BY <2>1
    <3> QED BY <3>3, <3>4
  <2>2. ASSUME Len(h) = 2, h[1].action = a, h[2].action = b PROVE actions = <<a, b>>
    BY <2>2
  <2> QED BY <2>1, <2>2
<1>3. actions = <<a, b, c>> <=>
        Len(h) = 3 /\ h[1].action = a /\ h[2].action = b /\ h[3].action = c
  <2>1. ASSUME actions = <<a, b, c>>
        PROVE  Len(h) = 3 /\ h[1].action = a /\ h[2].action = b /\ h[3].action = c
    <3>1. DOMAIN actions = 1 .. 3
      BY <2>1
    <3>2. 1 .. Len(h) = 1 .. 3
      BY <3>1
    <3>3. Len(h) = 3
      BY <3>2, SameInterval
    <3>4. actions[1] = a /\ actions[2] = b /\ actions[3] = c
      BY <2>1
    <3> QED BY <3>3, <3>4
  <2>2. ASSUME Len(h) = 3, h[1].action = a, h[2].action = b, h[3].action = c
        PROVE  actions = <<a, b, c>>
    BY <2>2
  <2> QED BY <2>1, <2>2
<1> QED BY <1>1, <1>2, <1>3

\* The states the review may be in, row by row: what HistoryTellsTheReview
\* says, in a form the provers can use.
Account(h) ==
  /\ survey.status \in OpenStatuses <=> h = <<>>
  /\ survey.status = "PENDING_APPROVAL" => Len(h) = 1 /\ h[1].action = "submitted"
  /\ survey.status = "APPROVED" =>
       Len(h) = 2 /\ h[1].action = "submitted" /\ h[2].action = "approved"
  /\ survey.status = "REJECTED" =>
       Len(h) = 2 /\ h[1].action = "submitted" /\ h[2].action = "rejected"
  /\ survey.status = "ARCHIVED" =>
       /\ Len(h) = 3 /\ h[1].action = "submitted" /\ h[3].action = "archived"
       /\ h[2].action \in {"approved", "rejected"}

Records ==
  /\ history = <<>> <=> approval = NoApproval
  /\ approvedBy = approval.approvedBy
  /\ approvedBy # NoUser <=> \E i \in 1 .. Len(history) : history[i].action = "approved"
  /\ \A i \in 1 .. Len(history) :
       history[i].action = "approved" =>
         history[i].actor = approvedBy /\ approvedBy # Creator

\* The two forms agree ...
LEMMA AccountIsHistory ==
  ASSUME Len(history) \in Nat
  PROVE  HistoryTellsTheReview <=> Account(history) /\ Records
<1>1. Actions = [i \in 1 .. Len(history) |-> history[i].action]
  BY DEF Actions
<1>2. Actions = <<"submitted">> <=> Len(history) = 1 /\ history[1].action = "submitted"
  BY <1>1, ActionsOf
<1>3. Actions = <<"submitted", "approved">> <=>
        Len(history) = 2 /\ history[1].action = "submitted" /\ history[2].action = "approved"
  BY <1>1, ActionsOf
<1>4. Actions = <<"submitted", "rejected">> <=>
        Len(history) = 2 /\ history[1].action = "submitted" /\ history[2].action = "rejected"
  BY <1>1, ActionsOf
<1>5. Actions = <<"submitted", "approved", "archived">> <=>
        /\ Len(history) = 3 /\ history[1].action = "submitted"
        /\ history[2].action = "approved" /\ history[3].action = "archived"
  BY <1>1, ActionsOf, Z3T(30)
<1>6. Actions = <<"submitted", "rejected", "archived">> <=>
        /\ Len(history) = 3 /\ history[1].action = "submitted"
        /\ history[2].action = "rejected" /\ history[3].action = "archived"
  BY <1>1, ActionsOf, Z3T(30)
<1> QED
  BY <1>2, <1>3, <1>4, <1>5, <1>6 DEF HistoryTellsTheReview, Account, Records

\* ... and agree after a step.
LEMMA AccountIsHistoryNext ==
  ASSUME Len(history') \in Nat
  PROVE  HistoryTellsTheReview' <=> Account(history)' /\ Records'
<1>1. Actions' = [i \in 1 .. Len(history') |-> history'[i].action]
  BY DEF Actions
<1>2. Actions' = <<"submitted">> <=> Len(history') = 1 /\ history'[1].action = "submitted"
  BY <1>1, ActionsOf
<1>3. Actions' = <<"submitted", "approved">> <=>
        Len(history') = 2 /\ history'[1].action = "submitted" /\ history'[2].action = "approved"
  BY <1>1, ActionsOf
<1>4. Actions' = <<"submitted", "rejected">> <=>
        Len(history') = 2 /\ history'[1].action = "submitted" /\ history'[2].action = "rejected"
  BY <1>1, ActionsOf
<1>5. Actions' = <<"submitted", "approved", "archived">> <=>
        /\ Len(history') = 3 /\ history'[1].action = "submitted"
        /\ history'[2].action = "approved" /\ history'[3].action = "archived"
  BY <1>1, ActionsOf, Z3T(30)
<1>6. Actions' = <<"submitted", "rejected", "archived">> <=>
        /\ Len(history') = 3 /\ history'[1].action = "submitted"
        /\ history'[2].action = "rejected" /\ history'[3].action = "archived"
  BY <1>1, ActionsOf, Z3T(30)
<1> QED
  BY <1>2, <1>3, <1>4, <1>5, <1>6 DEF HistoryTellsTheReview, Account, Records

\* The three records say the same after a step of the review.
LEMMA ReviewKeepsHistory ==
  ASSUME WorkflowTypeOK, PipelineInv, HistoryTellsTheReview, NEW u \in User,
         SubmitSurvey(u) \/ ApproveSurvey(u) \/ RejectSurvey(u) \/ ArchiveSurvey(u)
  PROVE  HistoryTellsTheReview'
<1>1. Len(history) \in Nat /\ Len(history') \in Nat
  <2>1. PICK action : Record(action, u)
    BY DEF SubmitSurvey, ApproveSurvey, RejectSurvey, ArchiveSurvey
  <2> QED BY <2>1, RecordAppends
<1>2. Account(history) /\ Records
  BY <1>1, AccountIsHistory
<1>3. u # NoUser
  BY UserAssumption DEF UserAssumption
<1>4. survey \in SurveyRow
  BY DEF PipelineInv, TypeOK
<1>5. approval \in [submittedBy : User \cup {NoUser}, approvedBy : User \cup {NoUser},
                    rejected : BOOLEAN]
  BY DEF WorkflowTypeOK
<1>6. CASE SubmitSurvey(u)
  <2>1. survey.status = "READY" /\ survey'.status = "PENDING_APPROVAL"
    BY <1>4, <1>6 DEF SubmitSurvey, MoveSurvey, SurveyRow
  <2>2. Len(history) = 0
    BY <1>2, <2>1 DEF Account, OpenStatuses
  <2>3. history' # <<>> /\ Len(history') = 1
        /\ history'[1] = [action |-> "submitted", actor |-> u]
    BY <1>6, <2>2, RecordAppends DEF SubmitSurvey
  <2>4. Account(history)'
    BY <2>1, <2>3 DEF Account, OpenStatuses
  <2>5. approval' # NoApproval /\ approval'.approvedBy = NoUser /\ approvedBy' = NoUser
    BY <1>2, <1>3, <1>6 DEF SubmitSurvey, NoApproval, Records
  <2>6. Records'
    BY <2>3, <2>5 DEF Records
  <2> QED BY <1>1, <2>4, <2>6, AccountIsHistoryNext
<1>7. CASE ApproveSurvey(u)
  <2>1. survey.status = "PENDING_APPROVAL" /\ survey'.status = "APPROVED"
    BY <1>4, <1>7 DEF ApproveSurvey, MoveSurvey, SurveyRow
  <2>2. Len(history) = 1 /\ history[1].action = "submitted"
    BY <1>2, <2>1 DEF Account
  <2>3. history' # <<>> /\ Len(history') = 2 /\ history'[1].action = "submitted"
        /\ history'[2] = [action |-> "approved", actor |-> u]
    BY <1>7, <2>2, RecordAppends DEF ApproveSurvey
  <2>4. Account(history)'
    BY <2>1, <2>3 DEF Account, OpenStatuses
  <2>5. approval' # NoApproval /\ approval'.approvedBy = u /\ approvedBy' = u /\ u # Creator
    BY <1>3, <1>5, <1>7 DEF ApproveSurvey, MayReview, NoApproval
  <2>6. Records'
    BY <1>3, <2>3, <2>5 DEF Records
  <2> QED BY <1>1, <2>4, <2>6, AccountIsHistoryNext
<1>8. CASE RejectSurvey(u)
  <2>1. survey.status = "PENDING_APPROVAL" /\ survey'.status = "REJECTED"
    BY <1>4, <1>8 DEF RejectSurvey, MoveSurvey, SurveyRow
  <2>2. Len(history) = 1 /\ history[1].action = "submitted"
    BY <1>2, <2>1 DEF Account
  <2>3. history' # <<>> /\ Len(history') = 2 /\ history'[1].action = "submitted"
        /\ history'[2] = [action |-> "rejected", actor |-> u]
    BY <1>8, <2>2, RecordAppends DEF RejectSurvey
  <2>4. Account(history)'
    BY <2>1, <2>3 DEF Account, OpenStatuses
  <2>5. approval' # NoApproval /\ approval'.approvedBy = NoUser /\ approvedBy' = NoUser
    BY <1>5, <1>8 DEF RejectSurvey, NoApproval
  <2>6. Records'
    BY <2>3, <2>5 DEF Records
  <2> QED BY <1>1, <2>4, <2>6, AccountIsHistoryNext
<1>9. CASE ArchiveSurvey(u)
  <2>1. survey.status \in {"APPROVED", "REJECTED"} /\ survey'.status = "ARCHIVED"
    BY <1>4, <1>9 DEF ArchiveSurvey, MoveSurvey, SurveyRow
  <2>2. /\ Len(history) = 2 /\ history[1].action = "submitted"
        /\ history[2].action \in {"approved", "rejected"}
    BY <1>2, <2>1 DEF Account
  <2>3. /\ history' # <<>> /\ Len(history') = 3
        /\ history'[1] = history[1] /\ history'[2] = history[2]
        /\ history'[3] = [action |-> "archived", actor |-> u]
    BY <1>9, <2>2, RecordAppends DEF ArchiveSurvey
  <2>4. Account(history)'
    BY <2>1, <2>2, <2>3 DEF Account, OpenStatuses
  <2>5. UNCHANGED <<approval, approvedBy>> /\ approval # NoApproval
    BY <1>9 DEF ArchiveSurvey
  <2>6. Records'
    BY <1>2, <2>2, <2>3, <2>5 DEF Records
  <2> QED BY <1>1, <2>4, <2>6, AccountIsHistoryNext
<1> QED BY <1>6, <1>7, <1>8, <1>9

\* The history is a complete account of the review, and the three records of
\* it name one approver, who is not the creator: for all users, whoever
\* decides and however the requests interleave with the pipeline.
THEOREM HistoryCorrect == WorkflowSpec => []HistoryTellsTheReview
<1>1. WorkflowInit => HistoryTellsTheReview
  <2> SUFFICES ASSUME WorkflowInit PROVE HistoryTellsTheReview
    OBVIOUS
  <2>1. survey.status = "DRAFT" /\ history = <<>> /\ Len(history) = 0
    BY DEF WorkflowInit, Init
  <2>2. Account(history) /\ Records
    BY <2>1 DEF Account, Records, OpenStatuses, WorkflowInit, NoApproval
  <2> QED BY <2>1, <2>2, AccountIsHistory
<1>2. WorkflowTypeOK /\ PipelineInv /\ HistoryTellsTheReview /\ [WorkflowNext]_workflowVars =>
        HistoryTellsTheReview'
  <2> SUFFICES ASSUME WorkflowTypeOK, PipelineInv, HistoryTellsTheReview,
                      [WorkflowNext]_workflowVars
               PROVE  HistoryTellsTheReview'
    OBVIOUS
  <2>1. CASE ReviewStep
    BY <2>1, ReviewKeepsHistory DEF ReviewStep
  <2>2. CASE ProcessingStep \/ ArchiveProject \/ UNCHANGED workflowVars
    <3>1. [Next]_vars /\ UNCHANGED reviewVars
      BY <2>2 DEF ProcessingStep, Next, ArchiveProject, workflowVars
    <3> QED BY <3>1, PipelineKeepsHistory
  <2> QED BY <2>1, <2>2 DEF WorkflowNext
<1> QED
  BY <1>1, <1>2, PipelineInvariant, WorkflowTypeCorrect, PTL DEF WorkflowSpec

---------------------------------------------------------------------------
(* Refinement *)

\* With the review the pipeline implements the whole of SurveyLifecycle: a
\* move of the review is a Review of the lifecycle, and no step of the
\* pipeline is mistaken for one.
THEOREM WorkflowImplementsLifecycle == WorkflowSpec => KeepsLifecycle
<1>1. WorkflowInit => Lifecycle!Init
  BY InitIsLifecycleInit DEF WorkflowInit
<1>2. PipelineInv /\ [WorkflowNext]_workflowVars => [Lifecycle!Next]_<<Stage, Phase>>
  <2> SUFFICES ASSUME PipelineInv, [WorkflowNext]_workflowVars
               PROVE  [Lifecycle!Next]_<<Stage, Phase>>
    OBVIOUS
  <2>1. CASE [Next]_vars
    BY <2>1, StepIsLifecycleStep DEF PipelineInv
  <2>2. CASE ReviewMoved
    <3>1. survey \in SurveyRow
      BY DEF PipelineInv, TypeOK
    <3>2. Stage' = Stage
      BY <2>2 DEF ReviewMoved, Moved, Stage
    <3>3. Lifecycle!Review
      BY <2>2, <3>1, <3>2
         DEF ReviewMoved, Moved, SurveyRow, Lifecycle!Review, Lifecycle!Move, Phase
    <3> QED BY <3>3 DEF Lifecycle!Next
  <2> QED BY <2>1, <2>2, WorkflowStep
<1> QED
  BY <1>1, <1>2, PipelineInvariant, PTL
     DEF WorkflowSpec, KeepsLifecycle, Lifecycle!Spec, Lifecycle!vars
===========================================================================
