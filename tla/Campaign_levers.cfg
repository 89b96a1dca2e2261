SPECIFICATION Spec
CONSTANTS
  up = up
  down = down
  net = net
  cond = cond
  up2 = up2
  g1 = g1
  reg = reg
  wire = wire
  NoTarget = NoTarget
  Points = {up, up2, net, down}
  Goals = {g1}
  Signals = {reg}
  Kind <- PadKind
  Sig <- PadSig
  Key <- PadKey
  Zeroed = {up, up2}
  Siblings <- PadSiblings
  NumTiers = 2
  Limit = 1
  Budget = 2
  FetchLimit = 2
  NewStates = 1
  DuplicateRows = 1
  DeadFilter = TRUE
  Precheck = FALSE
  WitnessMutations = TRUE
  SmallSpace = TRUE
INVARIANTS
  RetiredForCause
  NarrowHasLiveSibling
CHECK_DEADLOCK FALSE
