SPECIFICATION FairSpec
CONSTANTS
  Owners = {monitor}
  BeginFailures = {"null"}
  FlushReads = 2
PROPERTIES
  TapReported
  ReleaseReported
  MonitorReturns
CHECK_DEADLOCK FALSE
