SPECIFICATION Spec
CONSTANTS
  h1 = h1
  h2 = h2
  i = i
  j = j
  k = k
  c1 = c1
  c2 = c2
  d1 = d1
  d2 = d2
  e1 = e1
  None = None
  Jobs = {j, k}
  Handlers = {h2}
  HandlerOf <- Shared
  Calls = {d1, d2, e1}
  JobOf <- JK
  Cover = {}
  Timed = {}
  MayPanic = {d1, d2, e1}
  MayKill = {}
  Unheard = {}
INVARIANT Serial
CHECK_DEADLOCK FALSE
