SPECIFICATION Spec
CONSTANTS
  Stem <- Stems
  Extension <- Extensions
  Clean <- CleanStem
  Lower <- Small
  Content <- Contents
  Formats <- FormatsOf
  Upload <- AllUploads
CHECK_DEADLOCK FALSE
INVARIANTS
  WorkerAgrees
  ManifestIsRebuilt
  AdmissionIsExact
