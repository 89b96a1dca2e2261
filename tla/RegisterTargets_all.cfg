SPECIFICATION FairSpec
CONSTANTS
  NumRegs = 3
  Space <- SpaceOfThree
  Patterns <- ProbePatterns
  ResetValue <- ResetToTwo
  Designs <- Mixed
  FullCap = 64
  NativePoints = 1
  Restarts = 1
INVARIANTS
  TypeOK
  ResettableKept
  NoneMeansDone
  FullMeansAll
  OffersUnseen
PROPERTIES
  TargetsRunOut
CHECK_DEADLOCK FALSE
