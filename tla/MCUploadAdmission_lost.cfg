\* The answer to a COMMIT may be lost.
CONSTANTS
  bundle = bundle
  single = single
  other = other
  Upload = {bundle, single, other}
  Content <- MCContent
  Parts <- MCParts
  Size <- MCSize
  SizeLimit = 3
  CommitAnswerIsLost = TRUE
  Nobody = Nobody
SPECIFICATION AdmissionSpec
\* Answered requests have nothing more to do.
CHECK_DEADLOCK FALSE
INVARIANTS
  FilesAreStored
