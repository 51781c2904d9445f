CONSTANTS
  c1 = c1  c2 = c2
  w1 = w1  w2 = w2  w3 = w3
  h1 = h1
  r1 = r1  r2 = r2  a1 = a1
  None = None
  Connections = {c1, c2}
  Handlers = {w1, w2, w3, h1}
  Writers = {w1, w2, w3}
  Requests = {r1, r2}
  Assets = {a1}
SPECIFICATION FairPoolSpec
CHECK_DEADLOCK FALSE
INVARIANTS
  PoolTypeOK
  NothingLeaks
  OnlyNestedQueryStarves
  StarvingTakesAPoolOfWriters
PROPERTIES
  EveryCallEnds
