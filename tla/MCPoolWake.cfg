CONSTANTS
  a = a
  b = b
  w1 = w1
  w2 = w2
  r1 = r1
  r2 = r2
  None = None
  Units = {a, b}
  Poppers = {w1, w2}
  IdlePEs = {r1}
  Stacked = {r2}
SPECIFICATION MCSpec
INVARIANTS NobodyMissed
PROPERTIES UnitsAreTaken
