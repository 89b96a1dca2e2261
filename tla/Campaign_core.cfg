SPECIFICATION Spec
CONSTANTS
  up = up
  down = down
  net = net
  cond = cond
  up2 = up2
  g1 = g1
  reg = reg
  wire = wire
  NoTarget = NoTarget
  Points = {up, down, net, cond}
  Goals = {g1}
  Signals = {reg, wire}
  Kind <- FlopKind
  Sig <- FlopSig
  Key <- FlopKey
  Zeroed = {up, down}
  Siblings <- NoSiblings
  NumTiers = 3
  Limit = 2
  Budget = 0
  FetchLimit = 2
  NewStates = 2
  DuplicateRows = 0
  DeadFilter = TRUE
  Precheck = FALSE
  WitnessMutations = FALSE
  SmallSpace = FALSE
INVARIANTS
  TypeOK
  TierEarned
  StreakPaidFor
  TogglesNotCrowdedOut
PROPERTIES
  NoRepeatedWork
  ImplementsLadder
CHECK_DEADLOCK FALSE
