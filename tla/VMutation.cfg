SPECIFICATION Spec
CONSTANTS
  Commands = {list, remove, template}
  Allowed = {list, template}
  Templated = {template}
  Filled = remove
  Errors = {fault}
  None = none
  MaxIterations = 3
  MaxToolCalls = 2
  MaxSameError = 1
  WallLimit = 1
  PerTurn = 2
  MaxInvalid = 1
  MaxBlocked = 1
  MaxSelfChecks = 1
INVARIANT EditsAreConfirmed
CHECK_DEADLOCK FALSE
