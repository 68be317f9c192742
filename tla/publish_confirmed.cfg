SPECIFICATION FairSpec
CONSTANTS
  p = p
  q = q
  u = u
  Attempts = {p, q, u}
  Sync = {p}
  MayReturn = {u}
  MayNack = {p}
  NetworkFails = TRUE
INVARIANTS
  SuccessIsTrue
  DeathExplained
PROPERTIES
  ListenerHears
  OutcomeSpec
CHECK_DEADLOCK FALSE
