CONSTANTS
  u1 = u1
  u2 = u2
  e1 = e1
  Ults = {u1, u2}
  Externals = {e1}
  None = None
  Recursive = TRUE
  MaxNesting = 1
SPECIFICATION FairSpec
INVARIANTS HolderExclusive WakeReachesWaiter NoLostWakeup
PROPERTIES ImplementsLock WaiterIsWoken
