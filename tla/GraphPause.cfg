SPECIFICATION Spec
CONSTANTS
  Ops = {1, 2, 3, 4, 5}
  DependsOn <- LooseAfter
  OnSuccess <- LooseSuccess
  OnFailure <- NoFollow
  Then <- LooseThen
  Else <- LooseElse
  SkipOps = {}
  WaitOps = {1, 3}
  Execution = 2
  None = none
INVARIANT TypeOK
INVARIANT NothingTwice
CHECK_DEADLOCK FALSE
