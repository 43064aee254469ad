SPECIFICATION FairSpec
CONSTANTS
  Hours = 2
  MaxDay = 0
  MaxEdits = 1
  MaxDrops = 2
  CallsMayFail = FALSE
INVARIANT OwnerIsRight MirrorsSettings RunnerOnceADay
PROPERTY Converges
CHECK_DEADLOCK FALSE
