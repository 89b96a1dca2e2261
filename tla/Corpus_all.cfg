SPECIFICATION Spec
CONSTANTS
  States <- Bits
  Inputs <- Bits
  Designs <- AllDesigns
  ZeroState = 1
  BatchSize = 2
  BurstSize = 1
  Settings <- Busy
  MaxPath = 3
INVARIANTS
  TypeOK
  EntriesVisited
  PathReproduces
  EntriesPassThrough
  
PROPERTIES
  BurstsWriteTruePaths
