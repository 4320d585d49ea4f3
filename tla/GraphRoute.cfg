SPECIFICATION FairSpec
CONSTANTS
  Ops = {1, 2, 3, 4, 5, 6, 7, 8}
  DependsOn <- RouteAfter
  OnSuccess <- RouteSuccess
  OnFailure <- RouteFailure
  Then <- RouteThen
  Else <- RouteElse
  SkipOps = {5}
  WaitOps = {}
  Execution = 2
  None = none
INVARIANT GraphKept
PROPERTY StuckForAReason
PROPERTY KeepsPromise
PROPERTY WalkEnds
CHECK_DEADLOCK FALSE
