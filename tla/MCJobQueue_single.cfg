\* One runner: the worker loop.  Ticks may be cut short once, the database may fail once, Redis may fail.
CONSTANTS
  Jobs = {1, 2}
  Runners = {loop}
  BatchSize = 2
  MaxRetries = 2
  MaxAborts = 1
  MaxErrors = 1
  MaxExecutions = 3
SPECIFICATION FairSpec
INVARIANT RetryBudget
PROPERTY TerminalIsFinal
PROPERTY EventuallySettled
PROPERTY ImplementsLifecycle
