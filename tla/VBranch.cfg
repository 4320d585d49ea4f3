SPECIFICATION Spec
CONSTANTS
  Ops = {1, 2, 3, 4}
  DependsOn <- ForkAfter
  OnSuccess <- NoFollow
  OnFailure <- NoFollow
  Then <- ForkThen
  Else <- ForkElse
  SkipOps = {}
  WaitOps = {4}
  Execution = 1
  None = none
INVARIANT OneBranch
CHECK_DEADLOCK FALSE
