\* The contract of the client, and what must come about in the end, faults included.
SPECIFICATION FairHistorySpec
CONSTANTS
  Owners = {Monitor, Testing}
  NoOwner = NoOwner
  MaxPending = 2
  MaxRequests = 1
  MaxOps = 4
  MaxFaults = 1
  MaxNoise = 0
  LateAnswers = TRUE
PROPERTIES
  ImplementsContract
  EveryRequestCompletes
  HealthyOpAnswered
CHECK_DEADLOCK FALSE
