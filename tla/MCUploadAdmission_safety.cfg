\* Three requests that compete for a limit and of which two have the same content.
CONSTANTS
  bundle = bundle
  single = single
  other = other
  Upload = {bundle, single, other}
  Content <- MCContent
  Parts <- MCParts
  Size <- MCSize
  SizeLimit = 3
  CommitAnswerIsLost = FALSE
  Nobody = Nobody
SPECIFICATION AdmissionSpec
\* Answered requests have nothing more to do.
CHECK_DEADLOCK FALSE
INVARIANTS
  FilesAreStored
  NothingIsLeftBehind
  AnswersAreTrue
PROPERTY KeepsIntake
