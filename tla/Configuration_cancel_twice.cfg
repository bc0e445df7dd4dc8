\* cancel() called twice while the owner is being acquired.
SPECIFICATION ServicesSpec
CONSTANTS
  Monitor = Monitor
  Testing = Testing
  ManualDebug = ManualDebug
  Owners = {Monitor, Testing, ManualDebug}
  NoOwner = NoOwner
  MaxPending = 1
  Ids = {1, 2}
  OpIds = {1, 2}
  Blocks = 1
  MaxFaults = 1
  Channels = 2
  Factory = Factory
  Wanted = Wanted
  MaxCancels = 2
INVARIANTS
  NothingLeftBehind
