SPECIFICATION Spec
CONSTANTS
  t1 = t1
  m1 = m1
  m2 = m2
  i1 = i1
  i2 = i2
  None = None
  Orphan = Orphan
  Messages = {m1, m2}
  Txns = {t1}
  TxOf <- OneTx
  Instances = {i1, i2}
  Home <- AtI
  Slots = {1}
  BatchLimit = 1
  LockSafe = FALSE
  DbFails = TRUE
  CommitFails = TRUE
  Unroutable = {m2}
  Slow = {m2}
  MayClose = {}
  Recoded = {}
  MaxCrashes = 1
  MaxOutages = 0
INVARIANTS
  SentOnlyAfterCommit
  LossExplained
CHECK_DEADLOCK FALSE
