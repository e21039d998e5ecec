\* Two requests with the same content, with fairness; a COMMIT may go unconfirmed.
CONSTANTS
  bundle = bundle
  single = single
  other = other
  Upload = {bundle, single}
  Content <- MCContent
  Parts <- MCParts
  Size <- MCSize
  SizeLimit = 3
  CommitAnswerIsLost = TRUE
  Nobody = Nobody
SPECIFICATION FairAdmissionSpec
\* Answered requests have nothing more to do.
CHECK_DEADLOCK FALSE
PROPERTIES
  RequestsEnd
