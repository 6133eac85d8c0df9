SPECIFICATION LiveSpec
CONSTANTS
  Plan <- TwoTargets
  Healthy = {2}
  Timeout = 2
  MaxRounds = 3
  MaxScrapes = 1
CHECK_DEADLOCK FALSE
INVARIANTS
  TypeOK
  RoundsComplete
  NoCollateral
PROPERTIES
  StopEnds
