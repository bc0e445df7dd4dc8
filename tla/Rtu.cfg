\* The exchange of frames between the host and the device over a damaging line.
SPECIFICATION Spec
CONSTANTS
  RealCount = 3
  TempMin <- Frost
  TempMax = 800
  Hysteresis = 50
  FailureLimit = 3
  InitialThreshold <- MCThresholds
  AmbientValue = 250
  MaxLight = 3300
  MaxErrors = 1
  Reads <- MCReads
  Writes <- MCWrites
  Samples <- MCSamples
  Uptimes = {65536}
  Version <- MCVersion
  Masks = {1, 128}
  Noise = {1}
INVARIANTS
  AnswerIsTrue
  IntactExchangeIsAnswered
PROPERTIES
  OnlyAskedWritesApply
