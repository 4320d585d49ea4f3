SPECIFICATION FairSpec
CONSTANTS
  Runs = {1}
  Ops = {1}
  Deps <- OneDeps
  WaitOps = {}
  BatchSize = 1
  Worker = worker
  Resumers = {}
  None = none
PROPERTY CancelledOncePickedUp
CHECK_DEADLOCK FALSE
