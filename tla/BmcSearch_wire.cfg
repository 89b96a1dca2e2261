SPECIFICATION Spec
CONSTANTS
  States = {0, 1, 2}
  Zero = 0
  Inputs = {0, 1}
  Designs <- AllDesigns
  Goals <- AllGoals
  Tiers <- ShortTiers
  DefaultSteps = 4
  MaxCalls = 3
INVARIANTS
  WitnessMeetsGoal
CHECK_DEADLOCK FALSE
