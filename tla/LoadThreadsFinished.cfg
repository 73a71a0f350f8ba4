SPECIFICATION Spec
CONSTANTS
  MaxAdds = 2
  NumThreads = 2
  MaxPermits = 2
  Interactive = FALSE
  EarlyReturn = FALSE
  BeginFailures = {}
  Owners = {1, 2}
INVARIANTS
  AllThreadsFinished
CHECK_DEADLOCK FALSE
