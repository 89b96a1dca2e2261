SPECIFICATION Spec
CONSTANTS
  up = up
  down = down
  net = net
  cond = cond
  up2 = up2
  g1 = g1
  reg = reg
  wire = wire
  NoTarget = NoTarget
  Points = {down}
  Goals = {g1}
  Signals = {reg}
  Kind <- DownKind
  Sig <- DownSig
  Key <- DownKey
  Zeroed = {down}
  Siblings <- DownSiblings
  NumTiers = 2
  Limit = 2
  Budget = 0
  FetchLimit = 256
  NewStates = 1
  DuplicateRows = 0
  DeadFilter = TRUE
  Precheck = FALSE
  WitnessMutations = FALSE
  SmallSpace = FALSE
PROPERTIES
  CoveredTargetIsNoFailure
CHECK_DEADLOCK FALSE
