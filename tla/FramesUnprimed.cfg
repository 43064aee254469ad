SPECIFICATION Spec
CONSTANTS
  Zone = {z1}
  StaticEffect = {"off", "red"}
  AnimatedEffect = {"wave"}
  OffEffect = "off"
  NoEffect = "none"
  NoZone = NoZone
  MaxCommands = 3
  MaxDrops = 0
  MaxCalls = 3
  CallsMayTimeOut = FALSE
PROPERTY FramesArePrimed
CHECK_DEADLOCK FALSE
