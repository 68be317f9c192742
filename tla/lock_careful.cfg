SPECIFICATION FairSpec
CONSTANTS
  a = a
  b = b
  c = c
  None = None
  Orphan = Orphan
  Clients = {a, b, c}
  Path <- MixedPath
  Long = {a}
  Depth <- MixedDepth
  Slots = {1, 2}
  Room <- MixedRoom
  InitTTL = 1
  Expire = 2
  RenewEvery = 1
  MaxWait = 1
  Faults <- MixedFaults
  Mortal = {b}
INVARIANTS
  CarefulExclusion
PROPERTIES
  KeyTakenOnlyByOwner
  KeyFreed
CHECK_DEADLOCK FALSE
