CONSTANTS
  Unused = Unused
  Ext = Ext
  e1 = e1
  u1 = u1
  u2 = u2
  u3 = u3
  p1 = p1
  p2 = p2
  r1 = r1
  Ults = {u1, u2}
  MaxKeys = 2
  HasDtor = {1, 2}
  MaxValues = 3
SPECIFICATION MCSpec
INVARIANTS KeysKept UnitsKnown CountsExact LocalKept SchedsKept BindingKept
CHECK_DEADLOCK FALSE
