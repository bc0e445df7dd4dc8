\* The test engine and its automation over the application's services.
SPECIFICATION LabSpec
CONSTANTS
  Monitor = Monitor
  Testing = Testing
  Owners = {Monitor, Testing}
  NoOwner = NoOwner
  MaxPending = 1
  Ids = {1, 2}
  OpIds = {1, 2}
  Blocks = 1
  MaxFaults = 1
  Suites <- MCSuites
  Steps = 3
  Delayed = {1, 3}
  MaxRetries = 1
  Factory = Factory
  Wanted = Wanted
CHECK_DEADLOCK FALSE
INVARIANTS
  RunIsAwaited
  RestoredOrReported
  LineGivenBack
  SendsNoMoreThanItMay
