SPECIFICATION FairSpec
CONSTANTS
  Builds <- BothBackends
  MaxBatch = 2
  MaxCalls = 3
INVARIANTS
  TypeOK
  OwnAnswer
  ServedAsSent
  CyclesKnown
PROPERTIES
  CallsReturn
CHECK_DEADLOCK FALSE
