CONSTANTS
  w1 = w1
  w2 = w2
  c1 = c1
  c2 = c2
  e1 = e1
  None = None
  PEs = {w1, w2}
  Callers = {c1, c2, e1}
  Home <- HomeOf
  Creators = {c1, e1}
  Freers = {c1, c2, e1}
  RunPE = w1
  Slots = {1, 2}
  MaxUnits = 3
SPECIFICATION MCSpec
INVARIANTS JoinersKnown ReleasesItsOwn
PROPERTIES LivesEnd
