SPECIFICATION FairSpec
CONSTANTS
  Second = 2
  Interval = 2
  MaxBars = 2
  Cut = 22
  FirstBar = 6
  LastBar = 10
  Times <- MCTimes
CHECK_DEADLOCK FALSE
INVARIANTS
  TypeOK
  ReturnsTheRange
PROPERTIES
  Ascends
  Ends
