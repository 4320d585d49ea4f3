CONSTANTS
  Pollers = {p}
  Requesters = {}
  Routes = {1, 2}
  Crons = {2}
  Invalid = {}
  Bare = {}
  Files = {1, 2, 3}
  Froms = 2
  Tos = 2
  Source <- WatchedAndScheduled
  Blind = {1}
  Fixed = {}
  Puts = 1
  Mishaps = 0
  Requests = 0
  Boundaries = 0
  None = none
SPECIFICATION Spec
INVARIANT QuietWhenEmpty
