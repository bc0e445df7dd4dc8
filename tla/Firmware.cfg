\* One temperature channel, the ambient channel and the light sensor; the clock wraps.
SPECIFICATION Spec
CONSTANTS
  RealCount = 1
  TempMin = 0
  TempMax = 3
  Hysteresis = 2
  FailureLimit = 3
  InitialThreshold <- SmallThresholds
  AmbientValue = 1
  MaxLight = 2
  MaxErrors = 0
  Modulus = 30
  MaxLag = 1
  SampleInterval = 4
  FirstOffset <- SmallOffsets
  ReadyPoll = 2
  ConversionTimeout = 3
  BatchSamples = 2
  MaxRaw = 2
  Second = 3
  UptimeModulus = 2
  SampleTemperatures = {0, 1, 3}
  Thresholds = {2, 3}
  Raws = {0, 2}
INVARIANTS
  FaultAfterFailuresInARow
  ResultsInTime
  UptimeExact
PROPERTIES
  AlarmNeedsEvidence
  SensorGetsItsTimes
