\* What holds on any line: segmented messages, errors, failed re-arming.
SPECIFICATION FairSpec
CONSTANTS
  MaxADU = 2
  FrameGap = 1
  ClockSize = 4
  MaxErrorCount = 3
  MessageLengths <- LongLengths
  Segmented = TRUE
  MasterGap = 3
  MaxLag = 2
  MaxMessages = 2
  MaxErrors = 2
  MaxArmFailures = 1
INVARIANTS
  TypeOK
  FramesInOrder
  NeverDeaf
  ErrorsReportedOnce
PROPERTIES
  ReceptionResumes
CHECK_DEADLOCK FALSE
