SPECIFICATION ServiceSpec
CONSTANTS
  Hours = 3
  MaxDay = 2
INVARIANT OnceADay DueRunHappens
PROPERTY NoMissedRun
