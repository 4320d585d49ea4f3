SPECIFICATION Spec
CONSTANTS
  Ops = {1, 2, 3, 4}
  DependsOn <- CrossAfter
  OnSuccess <- CrossSuccess
  OnFailure <- CrossFailure
  Then <- NoBranch
  Else <- NoBranch
  SkipOps = {}
  WaitOps = {}
  Execution = 2
  None = none
PROPERTY StuckForAReason
CHECK_DEADLOCK FALSE
