SPECIFICATION FairSpec
CONSTANTS
  t1 = t1
  m1 = m1
  m2 = m2
  i1 = i1
  i2 = i2
  None = None
  Orphan = Orphan
  Messages = {m1, m2}
  Txns = {t1}
  TxOf <- OneTx
  Instances = {i1}
  Home <- AtI
  Slots = {1}
  BatchLimit = 1
  LockSafe = TRUE
  DbFails = FALSE
  CommitFails = FALSE
  Unroutable = {}
  Slow = {}
  MayClose = {i1}
  Recoded = {}
  MaxCrashes = 1
  MaxOutages = 1
INVARIANTS
  NoLoss
PROPERTIES
  DeliverySpec
  CommittedDelivered
CHECK_DEADLOCK FALSE
