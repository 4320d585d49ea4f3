CONSTANTS
  Processes = {p}
  Workflows = {1, 2}
  Invalid = {1}
  Every <- EveryMinute
  LastTask = 2
  Interval <- Intervals
  Tick = 3
  Lookback = 6
  MaxBusy = 1
  MaxDown = 1
  Crashes = 0
  Edits = 0
  Horizon = 12
  None = none
SPECIFICATION Spec
INVARIANT FiresAutomatically
