CONSTANTS
  main = main
  r1 = r1
  Main = main
  Requests = {r1}
  None = None
  MaxTimers = 2
  MaxDepth = 2
  MaxClears = 1
SPECIFICATION Spec
INVARIANTS
  OnceEach
  NothingLeft
PROPERTIES
  ClearedStays
  LockReturned
CHECK_DEADLOCK FALSE
