SPECIFICATION FairSpec
CONSTANTS
  MaxAdds = 3
  NumThreads = 1
  MaxPermits = 2
  Interactive = TRUE
  EarlyReturn = TRUE
  BeginFailures = {"null"}
  Owners = {1, 2, 3}
INVARIANTS
  NoPermitLost
  NoUseAfterFree
PROPERTIES
  ImplementsGate
  ShutdownCompletes
CHECK_DEADLOCK FALSE
