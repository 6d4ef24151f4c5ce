\* The worker loop and a process-pending request tick at the same time.
CONSTANTS
  Jobs = {1}
  Runners = {loop, request}
  BatchSize = 2
  MaxRetries = 2
  MaxAborts = 1
  MaxErrors = 1
  MaxExecutions = 4
SYMMETRY RunnerSymmetry
SPECIFICATION Spec
INVARIANT TypeOK
INVARIANT NoEarlyDeadLetter
INVARIANT RunningHasExecutor
CHECK_DEADLOCK FALSE
