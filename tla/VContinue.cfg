CONSTANTS
  Items = {1, 2, 3}
  Malformable = {3}
  Limit = 2
  Attempts = 2
SPECIFICATION Spec
CHECK_DEADLOCK FALSE
INVARIANT ContinueTolerates
