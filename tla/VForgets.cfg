SPECIFICATION Spec
CONSTANTS
  Ops = {1, 2, 3, 4}
  DependsOn <- HandlerAfter
  OnSuccess <- NoFollow
  OnFailure <- HandlerFailure
  Then <- NoBranch
  Else <- NoBranch
  SkipOps = {}
  WaitOps = {4}
  Execution = 1
  None = none
PROPERTY StuckForAReason
CHECK_DEADLOCK FALSE
