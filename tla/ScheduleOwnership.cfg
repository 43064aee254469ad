SPECIFICATION Spec
CONSTANTS
  Hours = 2
  MaxDay = 0
  MaxEdits = 1
  MaxDrops = 1
  CallsMayFail = FALSE
PROPERTY OwnershipIsSticky
CHECK_DEADLOCK FALSE
