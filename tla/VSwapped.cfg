SPECIFICATION Spec
CONSTANTS
  Processes = {p}
  MaxTurns = 3
  Actions = {a, b}
  None = none
INVARIANT NeverSwapped
CHECK_DEADLOCK FALSE
