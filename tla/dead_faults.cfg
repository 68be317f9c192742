SPECIFICATION Spec
CONSTANTS
  m1 = m1
  m2 = m2
  r1 = r1
  r2 = r2
  i1 = i1
  i2 = i2
  None = None
  Orphan = Orphan
  Messages = {m1}
  Results <- Anything
  AutoAck = FALSE
  Requeue = FALSE
  UseDead = TRUE
  Plain = {}
  Rows = {r1, r2}
  MaxRetry = 2
  Instances = {i1, i2}
  Listens <- Everyone
  BatchLimit = 1
  MayClose = {}
  LockSafe = FALSE
  DbFails = TRUE
  MaxLosses = 1
  MaxCrashes = 1
  MaxTries = 4
INVARIANTS
  NoLoss
  GivenUpLate
SYMMETRY Alike
CHECK_DEADLOCK FALSE
