CONSTANTS
  t1 = t1
  t2 = t2
  t3 = t3
  t4 = t4
  None = None
  Threads = {t1, t2, t3}
  Conds = {"rd", "wr"}
  TimedThreads = {}
  MaxCalls = 2
SPECIFICATION MCSpec
INVARIANTS RWLockKept ObjectsKept
PROPERTIES CallsReturn
CHECK_DEADLOCK FALSE
