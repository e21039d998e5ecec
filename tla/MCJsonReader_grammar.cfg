SPECIFICATION Spec
CONSTANTS
  Bases <- BaseDocuments
  Edits <- AllEdits
  Document <- Documents
  ChunkSize = {2, 3, 100}
CHECK_DEADLOCK FALSE
INVARIANTS
  AcceptedIsRead
  CompactIsAccepted
  BufferIsBounded
PROPERTIES
  ReadsAsWhole
  ReadEnds
