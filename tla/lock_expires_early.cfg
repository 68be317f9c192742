SPECIFICATION Spec
CONSTANTS
  a = a
  b = b
  c = c
  None = None
  Orphan = Orphan
  Clients = {a, b}
  Path <- LockAndTry
  Long = {a, b}
  Depth <- NoNesting
  Slots = {1, 2}
  Room <- AllRoom
  InitTTL = 1
  Expire = 4
  RenewEvery = 3
  MaxWait = 2
  Faults <- NoFaults
  Mortal = {}
INVARIANTS
  MutualExclusion
CHECK_DEADLOCK FALSE
