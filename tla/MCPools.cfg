CONSTANTS
  a = a
  b = b
  d = d
  p1 = p1
  c1 = c1
  c2 = c2
  Stub = Stub
  None = None
  q1 = q1
  q2 = q2
  t1 = t1
  t2 = t2
  Threads = {t1, t2}
  Units = {a, b}
  Agents = {c1, c2}
  Users = {q1, q2}
  Fifo = Fifo
  Primary = t1
  Home = c1
  MaxPools = 3
SPECIFICATION MCSpec
INVARIANTS PoolAccounted UnitMapExact
PROPERTIES ImplementsPool UnitsArePopped
