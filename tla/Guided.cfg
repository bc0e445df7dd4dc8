\* The guided recovery test over the application's services.
SPECIFICATION GuidedSpec
CONSTANTS
  Monitor = Monitor
  Testing = Testing
  Owners = {Monitor, Testing}
  NoOwner = NoOwner
  MaxPending = 1
  Ids = {1, 2}
  OpIds = {1, 2}
  Blocks = 1
  MaxFaults = 1
  Cases = 2
  Matches = 2
INVARIANTS
  ProbeBelongsToStage
  PassIsEarned
PROPERTIES
  GuidedRunEnds
