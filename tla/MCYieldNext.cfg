CONSTANTS
  p1 = p1
  p2 = p2
  u1 = u1
  u2 = u2
  u3 = u3
  u4 = u4
  t1 = t1
  t2 = t2
  s1 = s1
  s2 = s2
  None = None
  PEs = {1, 2}
  Units = {u1, u2, u3, u4}
  Order <- TwoPools
  Home <- HomeMixed
  Tasks = {u2}
  Mains = {u3}
  K = 2
  Asked = {1}
  Randws = FALSE
  External = TRUE
SPECIFICATION MCSpec
INVARIANTS UnitsKept StackKept
PROPERTIES KeepsOrder NobodyStarves EndsDrained SchedsEnd
CHECK_DEADLOCK FALSE
