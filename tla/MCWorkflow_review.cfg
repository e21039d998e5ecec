\* Two files, of which one may arrive or be processed late, and every review of
\* them, by reviewers of whom one is the creator.
CONSTANTS
  Job = {j1, j2}
  Attempt = {a1}
  Dispatcher = {d1}
  MaxRetries = 0
  MaxMessages = 1
  NoAttempt = NoAttempt
  Administrator = {admin}
  ProjectManager = {pm}
  SurveyEngineer = {engineer}
  Creator = pm
  NoUser = NoUser
SPECIFICATION WorkflowSpec
SYMMETRY Symmetric
\* An archived survey is at its end.
CHECK_DEADLOCK FALSE
INVARIANTS
  ReadyMeansProcessed
  OutcomeIsRecorded
  HistoryTellsTheReview
PROPERTIES
  ReviewIsNotOverwritten
  DatasetIsFrozen
  KeepsLifecycle
