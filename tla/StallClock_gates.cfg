SPECIFICATION Spec
CONSTANTS
  Batch = 2
  Burst = 1
  Depths <- SmallDepths
  StallCycles = 3
  QuietCycles = 5
  PollEvery = 2
  Options <- CommandLines
  Finds = 2
  Calls = 2
INVARIANTS
  TypeOK
  SweepQuietUntilReplay
  CacheFreshUntilReplay
PROPERTIES
  GateExactUntilReplay
  GateNeverLate
CHECK_DEADLOCK FALSE
