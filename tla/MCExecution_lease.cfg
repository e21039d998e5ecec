\* Two executions at once, every format, one automatic retry.
CONSTANTS
  Execution = {e1, e2}
  NoExecution = none
  Root = root
  MaxRetries = 1
  Format = {"GEOTIFF", "OBJ", "GLTF_BUNDLE", "GLB", "LAS", "PNG"}
SPECIFICATION FairSpec
CHECK_DEADLOCK FALSE
INVARIANT
  OneObjectAfterLoss
PROPERTIES
  KeepsOwnership
  ProgressGrows
  KeepsPromise
  StaleWorkersStop
