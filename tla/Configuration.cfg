\* The configuration service beside the application's other services.
SPECIFICATION ServicesSpec
CONSTANTS
  Monitor = Monitor
  Testing = Testing
  ManualDebug = ManualDebug
  Owners = {Monitor, Testing, ManualDebug}
  NoOwner = NoOwner
  MaxPending = 1
  Ids = {1, 2}
  OpIds = {1, 2}
  Blocks = 1
  MaxFaults = 1
  Channels = 2
  Factory = Factory
  Wanted = Wanted
  MaxCancels = 1
INVARIANTS
  NothingLeftBehind
  ReportsTheDevice
  OperationIsAwaited
