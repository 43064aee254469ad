SPECIFICATION FairSpec
CONSTANTS
  Zone = {z1}
  StaticEffect = {"off", "red"}
  AnimatedEffect = {"wave"}
  OffEffect = "off"
  NoEffect = "none"
  NoZone = NoZone
  MaxCommands = 3
  MaxDrops = 1
  MaxCalls = 3
  CallsMayTimeOut = TRUE
INVARIANT AcknowledgedHolds StreamBooksBalance
PROPERTY StreamFlows DryRunConverges
CHECK_DEADLOCK FALSE
