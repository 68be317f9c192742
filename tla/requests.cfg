SPECIFICATION Spec
CONSTANTS
  r1 = r1
  r2 = r2
  r3 = r3
  t = t
  None = None
  Requests = {r1, r2, r3}
  Tokens = {t}
  Mixes <- Together
  MaxTroubles = 1
  MaxNodes = 2
  MaxChanges = 1
  Codes = {0, 2, 7, 500}
INVARIANTS TypeOK OneFetch UserTrue PanicExplained Balanced ErrorShown
PROPERTY Answered
CHECK_DEADLOCK FALSE
