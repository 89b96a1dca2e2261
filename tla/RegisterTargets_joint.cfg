SPECIFICATION Spec
CONSTANTS
  NumRegs = 2
  Space <- SpaceOfTwo
  Patterns <- ProbePatterns
  ResetValue <- ResetToZero
  Designs <- StubAndFlop
  FullCap = 64
  NativePoints = 1
  Restarts = 1
INVARIANTS
  NotYetSeen
CHECK_DEADLOCK FALSE
