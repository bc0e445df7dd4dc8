\* What the design promises while the serial port reports no error.
SPECIFICATION Spec
CONSTANTS
  Owners = {Monitor, Testing}
  NoOwner = NoOwner
  MaxPending = 2
  MaxRequests = 2
  MaxOps = 5
  MaxFaults = 0
  MaxNoise = 1
  LateAnswers = FALSE
SYMMETRY OwnerSymmetry
INVARIANTS
  InFlightBelongsToOwner
  SuccessAnswersItsRequest
CHECK_DEADLOCK FALSE
