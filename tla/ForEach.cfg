CONSTANTS
  Items = {1, 2, 3}
  Malformable = {3}
  Limit = 2
  Attempts = 2
SPECIFICATION FairSpec
CHECK_DEADLOCK FALSE
INVARIANTS CancelHeeded Contained ReportsFailures
PROPERTIES SiblingsStop Ends
