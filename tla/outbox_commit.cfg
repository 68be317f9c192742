SPECIFICATION Spec
CONSTANTS
  t1 = t1
  m1 = m1
  m2 = m2
  i1 = i1
  i2 = i2
  None = None
  Orphan = Orphan
  Messages = {m1}
  Txns = {t1}
  TxOf <- OneTx
  Instances = {i1}
  Home <- AtI
  Slots = {1}
  BatchLimit = 1
  LockSafe = TRUE
  DbFails = FALSE
  CommitFails = TRUE
  Unroutable = {}
  Slow = {}
  MayClose = {i1}
  Recoded = {}
  MaxCrashes = 0
  MaxOutages = 0
INVARIANTS
  OnlyCommittedSent
CHECK_DEADLOCK FALSE
