SPECIFICATION PatchSpec
CONSTANTS
  Bytes = {0, 1}
  MaxSize = 4
  MaxPattern = 2
  MaxChunk = 2
INVARIANTS
  NotFoundIsAbsent
CHECK_DEADLOCK FALSE
