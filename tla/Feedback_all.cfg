SPECIFICATION Spec
CONSTANTS
  p1 = p1
  Ports = {"op", "rst"}
  Width <- OneBitEach
  ResetPort = "rst"
  Deasserted = 1
  CaseLabels <- LabelOne
  Points = {p1}
  Target = 2
  PerPoll = 2
  WindowCap = 2
  BufMax = 2
  Burst = 3
  MaxWidth = 10
INVARIANTS
  TypeOK
PROPERTIES
  CreditIsEarned
  AttributionInWindow
