SPECIFICATION Spec
CONSTANTS
  Processes = {a}
  Jobs = {j}
  Messages = {m}
  None = none
INVARIANT NothingDropped
CHECK_DEADLOCK FALSE
