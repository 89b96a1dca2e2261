SPECIFICATION FairSpec
CONSTANTS
  up = up
  down = down
  net = net
  cond = cond
  up2 = up2
  g1 = g1
  reg = reg
  wire = wire
  NoTarget = NoTarget
  Points = {up, up2, cond}
  Goals = {g1}
  Signals = {reg}
  Kind <- EndsKind
  Sig <- EndsSig
  Key <- EndsKey
  Zeroed = {up, up2}
  Siblings <- EndsSiblings
  NumTiers = 2
  Limit = 0
  Budget = 0
  FetchLimit = 256
  NewStates = 1
  DuplicateRows = 1
  DeadFilter = TRUE
  Precheck = TRUE
  WitnessMutations = TRUE
  SmallSpace = FALSE
PROPERTIES
  Termination
CHECK_DEADLOCK FALSE
