CONSTANTS
  a = a
  b = b
  c = c
  pa = pa
  t = t
  Stores = {a, b, c}
  Prefetchable = {a}
  PrefetchOf <- OnlyA
  Others = {t}
  None = None
  MaxEdges = 2
  MaxConns = 3
  MaxCreateFails = 1
SPECIFICATION OpsSpec
INVARIANTS
  RunsOnce
  Tracked
  PrefetchAfterOwner
  OneUser
PROPERTIES
  DependenciesMet
  CallsReturn
CHECK_DEADLOCK FALSE
