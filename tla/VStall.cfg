SPECIFICATION Spec
CONSTANTS
  Ops = {1, 2, 3}
  DependsOn <- HandlerAfter
  OnSuccess <- NoFollow
  OnFailure <- HandlerFailure
  Then <- NoBranch
  Else <- NoBranch
  SkipOps = {}
  WaitOps = {}
  Execution = 1
  None = none
INVARIANT SkipsDoNotStall
CHECK_DEADLOCK FALSE
