SPECIFICATION FairAppSpec
CONSTANTS
  Monitor = Monitor
  Testing = Testing
  Owners = {Monitor, Testing}
  NoOwner = NoOwner
  MaxPending = 1
  Ids = {1, 2}
  OpIds = {1, 2, 3}
  Blocks = 2
  MaxFaults = 2
INVARIANTS
  PendingIsAwaited
  SettledAgreesWithClient
  MonitorNeverStalls
PROPERTIES
  CommandCompletes
  BatchEnds
