CONSTANTS
  c1 = c1
  c2 = c2
  None = None
  Ranks = {1, 2}
  Callers = {c1, c2}
  ULTs = {c1}
  UserDef = {}
  Reusers = {c1, c2}
  MaxXs = 3
  MaxUnits = 1
SPECIFICATION ReuseSpec
INVARIANTS JoinedRanAll
CHECK_DEADLOCK FALSE
