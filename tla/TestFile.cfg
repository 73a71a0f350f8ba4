SPECIFICATION Spec
CONSTANTS
  Processes = {p, q}
  Ops = {"hold", "write", "verify", "verify-crt", "verify-api", "read-crt", "read-uc", "read-mmf"}
  UnitsPerMB = 1
  Counts = {0, 1, 2}
  Blocks = {0, 1, 2}
  MaxLoops = 2
  StreamBuffer = 1
SYMMETRY Symmetry
INVARIANTS
  VerdictTrue
  WritersAgree
PROPERTIES
  HeldStill
CHECK_DEADLOCK FALSE
