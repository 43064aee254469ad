SPECIFICATION Spec
CONSTANTS
  Hours = 2
  MaxDay = 0
  MaxEdits = 1
  MaxDrops = 1
  CallsMayFail = FALSE
INVARIANT NeverBothFire
CHECK_DEADLOCK FALSE
