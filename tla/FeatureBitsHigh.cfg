SPECIFICATION BitsSpec
CONSTANTS
  MaxBit = 64
INVARIANTS
  AllBitsShown
CHECK_DEADLOCK FALSE
