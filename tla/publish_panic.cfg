SPECIFICATION Spec
CONSTANTS
  p = p
  q = q
  u = u
  Attempts = {p, q}
  Sync = {p}
  MayReturn = {}
  MayNack = {}
  NetworkFails = TRUE
INVARIANTS
  NoPanic
CHECK_DEADLOCK FALSE
