CONSTANTS
  u1 = u1
  u2 = u2
  e1 = e1
  Ults = {u1, u2}
  Externals = {e1}
  None = None
  Recursive = FALSE
  MaxNesting = 0
  Waiters = {u1, e1}
  TimedThreads = {e1}
  SignalLocked = TRUE
SPECIFICATION MCFairSpec
INVARIANTS CondListKept WakeTouchesLiveRecord
PROPERTIES ImplementsMonitor DetachedReturns
