CONSTANTS
  Processes = {p, q}
  Workflows = {1, 2}
  Invalid = {}
  Every <- EveryMinute
  LastTask = 2
  Interval <- Intervals
  Tick = 3
  Lookback = 6
  MaxBusy = 1
  MaxDown = 1
  Crashes = 1
  Edits = 1
  Horizon = 12
  None = none
SPECIFICATION Spec
SYMMETRY Symmetry
INVARIANTS OncePerProcess NoneMissed
