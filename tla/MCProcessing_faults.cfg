\* One file with every retry of MAX_AUTOMATIC_RETRIES: two executions, two dispatch
\* calls and two messages of the same job at once, every fault of the pipeline,
\* and the fairness of FairSpec.  No symmetry: it is not sound for liveness.
CONSTANTS
  Job = {j1}
  Attempt = {a1, a2}
  Dispatcher = {d1, d2}
  MaxRetries = 3
  MaxMessages = 2
  NoAttempt = NoAttempt
SPECIFICATION FairSpec
\* A survey whose files are all completed waits for its users.
CHECK_DEADLOCK FALSE
INVARIANT
  InductiveInvariant
PROPERTIES
  KeepsOwnership
  StaleWorkersAreFenced
  BackoffIsKept
  JobsSettle
  KeepsLifecycleFairly
