CONSTANTS
  Pollers = {p}
  Requesters = {m}
  Routes = {1, 2, 3}
  Crons = {2, 3}
  Invalid = {3}
  Bare = {3}
  Files = {1, 2, 3}
  Froms = 2
  Tos = 2
  Source <- WatchedAndScheduled
  Blind = {}
  Fixed = {2}
  Puts = 2
  Mishaps = 1
  Requests = 1
  Boundaries = 1
  None = none
SPECIFICATION FairSpec
INVARIANTS NothingLost ErrorForAReason
PROPERTY Moves
