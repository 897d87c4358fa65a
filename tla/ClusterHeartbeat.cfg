CONSTANTS
  base = base
  farmer = farmer
  Layers = {base, farmer}
  Base = base
  MaxTime = 3
  MaxSwitches = 1
  MaxOutages = 1
SPECIFICATION Spec
INVARIANTS
  Watched
  Findable
CHECK_DEADLOCK FALSE
