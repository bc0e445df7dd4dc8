\* What must hold whatever the serial line does.
SPECIFICATION Spec
CONSTANTS
  Owners = {Monitor, Testing}
  NoOwner = NoOwner
  MaxPending = 2
  MaxRequests = 2
  MaxOps = 4
  MaxFaults = 1
  MaxNoise = 0
  LateAnswers = TRUE
SYMMETRY OwnerSymmetry
INVARIANTS
  TypeOK
  RequestConservation
  QueueBounded
  FifoOrder
  NeverStalls
PROPERTIES
  SendsIntoSilence
CHECK_DEADLOCK FALSE
