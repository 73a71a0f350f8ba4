SPECIFICATION Spec
CONSTANTS
  MaxArgs = 4
  MaxLines = 5
  NumFilters = 2
  Bytes = {0, 1}
  MaxSize = 5
  MaxPattern = 2
  MaxChunk = 3
  Width = 3
  Ids = {1, 2}
  Prealloc = 1
  Ages = {6}
  Delays = {1, 3}
  MaxBusy = 1
  Hundred = 5
  MaxBit = 64
  MaxDevices = 2
  MaxDrivers = 2
  UintWidth = 3
  MaxLoops = 3
  MaxMB = 3
  Chunks = 2
  Space = 7
  CounterValues = {0, 1, 2}
  MaxCount = 3
INVARIANTS
  RunsWhatWasNamed
  SwitchesWorkAnywhere
  PrintedOnPurpose
  NothingLost
  BlocksWhole
  OnlyThePlaceChanges
  ReportedTruly
  LoadedFaithfully
  LaterRecognized
  EveryThreadReported
  NamedOnce
  ShownAsCommented
  InstalledOnPurpose
  ViewsReturned
PROPERTIES
  CommandEnds
  ActsOnTime
  KeepsActing
CHECK_DEADLOCK FALSE
