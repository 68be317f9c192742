SPECIFICATION FairSpec
CONSTANTS
  s = s
  p = p
  x = x
  Nodes = {s, p, x}
  Kind <- Kinds
  Life <- Lives
  Period = 1
  Pause = 2
  MaxOutages = 1
  MaxForgets = 1
INVARIANTS
  HealthyListed
PROPERTIES
  Relisted
  GoneUnlisted
CHECK_DEADLOCK FALSE
