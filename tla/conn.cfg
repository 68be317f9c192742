SPECIFICATION FairSpec
CONSTANTS
  c1 = c1
  c2 = c2
  p = p
  r1 = r1
  r2 = r2
  Main = Main
  None = None
  Consumers = {c1}
  Publishers = {p}
  MaxConns = 3
  Retriers = {r1, r2}
  MayClose = TRUE
  MaxLosses = 1
INVARIANTS
  LossNoticed
PROPERTIES
  ChannelSpec
  ListenersReturn
CHECK_DEADLOCK FALSE
