SPECIFICATION Spec
CONSTANTS
  Processes = {p, q}
  MaxTurns = 3
  Actions = {a, b}
  None = none
INVARIANT ApprovedExactly
INVARIANT CancelledMeansNotRun
PROPERTY DeclinedStays
CHECK_DEADLOCK FALSE
