SPECIFICATION FairSpec
CONSTANTS
  Width = 4
  Rounds = 3
PROPERTIES
  StopIsPrompt
  WorkerEnds
CHECK_DEADLOCK FALSE
