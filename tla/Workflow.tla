----------------------------- MODULE Workflow -----------------------------
(***************************************************************************)
(* The review of a survey (apps/approvals, and the archive operations of   *)
(* apps/surveys and apps/projects) composed with the processing pipeline   *)
(* that keeps running beside it: engineers upload, retry and submit,       *)
(* reviewers decide, while dispatchers, workers and beat sweeps go on.     *)
(***************************************************************************)
EXTENDS Processing, Sequences

CONSTANTS
  Administrator,   \* the active users by role; an engineer is one assigned
  ProjectManager,  \* to the project
  SurveyEngineer,
  Creator,         \* Survey.created_by
  NoUser           \* NULL

User == Administrator \cup ProjectManager \cup SurveyEngineer

ASSUME UserAssumption == Creator \in User /\ NoUser \notin User

VARIABLES
  projectActive,  \* Project.status = "active"
  approval,       \* the Approval row of the survey
  approvedBy,     \* Survey.approved_by
  history         \* its ApprovalHistory rows, oldest first

reviewVars == <<approval, approvedBy, history>>

workflowVars == <<vars, projectActive, reviewVars>>

\* No row yet: submitted_by is set by every row the code creates.
NoApproval == [submittedBy |-> NoUser, approvedBy |-> NoUser, rejected |-> FALSE]

HistoryEntry == [action : {"submitted", "approved", "rejected", "archived"}, actor : User]

WorkflowTypeOK ==
  /\ TypeOK
  /\ projectActive \in BOOLEAN
  /\ approval \in [submittedBy : User \cup {NoUser},
                   approvedBy  : User \cup {NoUser},
                   rejected    : BOOLEAN]
  /\ approvedBy \in User \cup {NoUser}
  /\ history \in Seq(HistoryEntry)

WorkflowInit ==
  /\ Init
  /\ projectActive = TRUE
  /\ approval = NoApproval
  /\ approvedBy = NoUser
  /\ history = <<>>

---------------------------------------------------------------------------
(* Who may do what.  update_project moves a project to any manager, so any *)
(* of them may be the owning one when a transaction checks it.             *)

\* A slip (see Processing): the creator may review.
MayReviewOwn(u) == u \in Administrator \cup ProjectManager

MayReview(u) == u \in Administrator \cup ProjectManager /\ u # Creator

MayArchive(u) == u \in Administrator \cup ProjectManager

\* validate_survey_readiness
ReadyForReview ==
  /\ survey.processing = "completed"
  /\ Uploaded # {}
  /\ \A j \in Uploaded : file[j] = "ready" /\ job[j].status = "completed"

RequirePendingApproval == survey.status = "PENDING_APPROVAL" /\ approval # NoApproval

\* update_locked_survey_workflow_state without approved_by
MoveSurvey(expected, status) ==
  /\ survey.status \in expected
  /\ survey' = [survey EXCEPT !.status = status]
  /\ UNCHANGED <<job, lease, file, dispatcher, messages, worker, projectActive>>

Record(action, u) == history' = Append(history, [action |-> action, actor |-> u])

SubmitSurvey(u) ==
  /\ u \in SurveyEngineer
  /\ ReadyForReview
  /\ approval = NoApproval
  /\ approval' = [NoApproval EXCEPT !.submittedBy = u]
  /\ MoveSurvey({"READY"}, "PENDING_APPROVAL")
  /\ Record("submitted", u)
  /\ UNCHANGED approvedBy

ApproveSurvey(u) ==
  /\ MayReview(u)
  /\ RequirePendingApproval
  /\ ReadyForReview
  /\ MoveSurvey({"PENDING_APPROVAL"}, "APPROVED")
  /\ approvedBy' = u
  /\ approval' = [approval EXCEPT !.approvedBy = u, !.rejected = FALSE]
  /\ Record("approved", u)

RejectSurvey(u) ==
  /\ MayReview(u)
  /\ RequirePendingApproval
  /\ MoveSurvey({"PENDING_APPROVAL"}, "REJECTED")
  /\ approvedBy' = NoUser
  /\ approval' = [approval EXCEPT !.approvedBy = NoUser, !.rejected = TRUE]
  /\ Record("rejected", u)

\* archive_survey_after_review
ArchiveSurvey(u) ==
  /\ MayArchive(u)
  /\ approval # NoApproval
  /\ MoveSurvey({"APPROVED", "REJECTED"}, "ARCHIVED")
  /\ Record("archived", u)
  /\ UNCHANGED <<approval, approvedBy>>

ArchiveProject ==
  /\ projectActive
  /\ projectActive' = FALSE
  /\ UNCHANGED <<vars, reviewVars>>

\* Uploads need an active project; a manual retry and the pipeline do not.
ProcessingStep ==
  /\ \E j \in Job : \/ projectActive /\ AdmitUpload(j)
                    \/ ManualRetry(j)
                    \/ PipelineStep(j)
  /\ UNCHANGED <<projectActive, reviewVars>>

ReviewStep ==
  \E u \in User : SubmitSurvey(u) \/ ApproveSurvey(u) \/ RejectSurvey(u) \/ ArchiveSurvey(u)

WorkflowNext == ProcessingStep \/ ReviewStep \/ ArchiveProject

WorkflowSpec == WorkflowInit /\ [][WorkflowNext]_workflowVars

---------------------------------------------------------------------------
(* Properties *)

\* From its submission on the data set a reviewer looks at is the one that is
\* approved and archived: the pipeline that still runs beside the review
\* changes no file, no job outcome and no lease of it.
DatasetIsFrozen ==
  [][survey.status \in LockedStatuses =>
       /\ UNCHANGED <<file, lease>>
       /\ \A j \in Job : job'[j].status = job[j].status]_workflowVars

\* The pipeline never writes the status of a survey under review, and the
\* review itself only moves it forward.
ReviewIsNotOverwritten ==
  [][survey.status \in LockedStatuses /\ survey' # survey =>
       <<survey.status, survey'.status>> \in
         {<<"PENDING_APPROVAL", "APPROVED">>, <<"PENDING_APPROVAL", "REJECTED">>,
          <<"APPROVED", "ARCHIVED">>, <<"REJECTED", "ARCHIVED">>}]_workflowVars

Actions == [i \in 1 .. Len(history) |-> history[i].action]

\* The history rows are a complete account of how the survey got its status,
\* and the approval row and Survey.approved_by name the same approver, who
\* is the one the history names and not the creator.
HistoryTellsTheReview ==
  /\ survey.status \in OpenStatuses <=> history = <<>>
  /\ history = <<>> <=> approval = NoApproval
  /\ survey.status = "PENDING_APPROVAL" => Actions = <<"submitted">>
  /\ survey.status = "APPROVED" => Actions = <<"submitted", "approved">>
  /\ survey.status = "REJECTED" => Actions = <<"submitted", "rejected">>
  /\ survey.status = "ARCHIVED" =>
       Actions \in {<<"submitted", "approved", "archived">>,
                    <<"submitted", "rejected", "archived">>}
  /\ approvedBy = approval.approvedBy
  /\ approvedBy # NoUser <=> \E i \in 1 .. Len(history) : history[i].action = "approved"
  /\ \A i \in 1 .. Len(history) :
       history[i].action = "approved" =>
         history[i].actor = approvedBy /\ approvedBy # Creator
===========================================================================
