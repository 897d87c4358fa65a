CONSTANTS
  base = base
  farmer = farmer
  Layers = {base}
  Base = base
  MaxTime = 4
  MaxSwitches = 0
  MaxOutages = 0
SPECIFICATION Spec
PROPERTY DeadIsSwept
CHECK_DEADLOCK FALSE
