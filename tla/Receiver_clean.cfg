\* A master that sends each message without a pause.
SPECIFICATION Spec
CONSTANTS
  MaxADU = 3
  FrameGap = 3
  ClockSize = 12
  MaxErrorCount = 3
  MessageLengths <- Lengths
  Segmented = FALSE
  MasterGap = 8
  MaxLag = 2
  MaxMessages = 2
  MaxErrors = 2
  MaxArmFailures = 1
INVARIANTS
  CleanMessagesArrive
CHECK_DEADLOCK FALSE
