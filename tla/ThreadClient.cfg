SPECIFICATION FairSpec
CONSTANTS
  Owners = {a, b}
  BeginFailures = {"null", "minus1"}
  EarlyEnders = {b}
INVARIANTS
  Restartable
  RunningIsSeen
  HandleFaithful
PROPERTIES
  ImplementsGuard
  StopIsObeyed
  DestructorEnds
CHECK_DEADLOCK FALSE
