SPECIFICATION ServeSpec
CONSTANTS
  Processes = {a, b}
  Jobs = {j}
  Messages = {m, n}
  None = none
INVARIANT TypeOK
INVARIANT EndedIsTerminal
INVARIANT PollerFindsResult
INVARIANT SurfacedOnce
INVARIANT CompletedDropsNothing
PROPERTY TerminalStands
PROPERTY CancelReachesTask
CHECK_DEADLOCK FALSE
