SPECIFICATION Spec
CONSTANTS
  h1 = h1
  h2 = h2
  i = i
  j = j
  k = k
  c1 = c1
  c2 = c2
  d1 = d1
  d2 = d2
  e1 = e1
  None = None
  Jobs = {i}
  Handlers = {h1}
  HandlerOf <- Alone1
  Calls = {c1, c2, d1}
  JobOf <- II
  Cover = {c1, c2, d1}
  Timed = {}
  MayPanic = {c1, c2, d1}
  MayKill = {}
  Unheard = {}
INVARIANT OneLive
CHECK_DEADLOCK FALSE
