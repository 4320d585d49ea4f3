SPECIFICATION FairSpec
CONSTANTS
  Runs = {1, 2, 3}
  Ops = {1}
  Deps <- OneDeps
  WaitOps = {1}
  BatchSize = 2
  Worker = worker
  Resumers = {}
  None = none
PROPERTY QueueDrains
PROPERTY CancelEndsExecution
CHECK_DEADLOCK FALSE
