CONSTANTS
  Procs = {1, 2, 3}
  First = 1
  MaxRefs = 2
  PlainExit = FALSE
  Unused = Unused
  u1 = u1
  u2 = u2
  u3 = u3
  Primary = Primary
  Second = Second
  Sched = Sched
  c1 = c1
  s1 = s1
SPECIFICATION MCSpec
INVARIANTS RuntimeKept DrainKept SettingsRight
PROPERTIES FinalizeReturns
CHECK_DEADLOCK FALSE
