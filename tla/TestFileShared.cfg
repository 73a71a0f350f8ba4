SPECIFICATION Spec
CONSTANTS
  Processes = {p, q}
  Ops = {"verify-api", "verify-crt", "hold"}
  UnitsPerMB = 1
  Counts = {1}
  Blocks = {1}
  MaxLoops = 1
  StreamBuffer = 1
PROPERTIES
  ReadersShare
CHECK_DEADLOCK FALSE
