SPECIFICATION FairSpec
CONSTANTS
  h1 = h1
  h2 = h2
  i = i
  j = j
  k = k
  c1 = c1
  c2 = c2
  d1 = d1
  d2 = d2
  e1 = e1
  None = None
  Jobs = {i, j}
  Handlers = {h1, h2}
  HandlerOf <- Apart
  Calls = {c1, c2, d1, d2}
  JobOf <- IJ
  Cover = {d2}
  Timed = {d1}
  MayPanic = {c2, d1}
  MayKill = {j}
  Unheard = {d1}
INVARIANTS
  QuietSerial
  QuietListed
  QuietOwn
  QuietReports
PROPERTIES
  AloneFreed
CHECK_DEADLOCK FALSE
