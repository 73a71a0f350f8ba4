SPECIFICATION FairSpec
CONSTANTS
  Width = 3
  WaitTimes = {0, 1, 2, 3, 4, 5, 6, 7}
  Intervals = {0, 1, 2, 3, 4, 5, 6, 7}
  Capacity = 2
  Chunk = 1
  Output = 3
  Endless = FALSE
INVARIANTS
  OutputComplete
  KilledAtLimit
  ReturnsAfterChild
PROPERTIES
  TimeLimitEnforced
  PipeDrained
CHECK_DEADLOCK FALSE
