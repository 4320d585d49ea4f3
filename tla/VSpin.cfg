SPECIFICATION FairSpec
CONSTANTS
  Commands = {list, remove, template}
  Allowed = {list, template}
  Templated = {template}
  Filled = remove
  Errors = {fault}
  None = none
  MaxIterations = 3
  MaxToolCalls = 2
  MaxSameError = 1
  WallLimit = 0
  PerTurn = 2
  MaxInvalid = 1
  MaxBlocked = 1
  MaxSelfChecks = 1
PROPERTY LoopEnds
CHECK_DEADLOCK FALSE
