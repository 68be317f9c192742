SPECIFICATION FairSpec
CONSTANTS
  m1 = m1
  m2 = m2
  r1 = r1
  r2 = r2
  i1 = i1
  i2 = i2
  None = None
  Orphan = Orphan
  Messages = {m1}
  Results <- Errs
  AutoAck = FALSE
  Requeue = FALSE
  UseDead = TRUE
  Plain = {}
  Rows = {r1}
  MaxRetry = 2
  Instances = {i1, i2}
  Listens <- OnlyFirst
  BatchLimit = 1
  MayClose = {}
  LockSafe = TRUE
  DbFails = FALSE
  MaxLosses = 0
  MaxCrashes = 0
  MaxTries = 9
PROPERTY Settled
CHECK_DEADLOCK FALSE
