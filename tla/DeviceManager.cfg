SPECIFICATION MCSpec
CONSTANTS
  asus = asus
  mock = mock
  z1 = z1
  z2 = z2
  Device = {asus, mock}
  DeviceLists <- PairLists
  Zone = {z1}
  ReadOnlyZone = {}
  Capability <- MCCapability
  RuntimePermission <- MCPermission
  StaticEffect <- MCStaticEffect
  AnimatedEffect <- MCAnimatedEffect
  OffEffect = "off"
  DefaultEffect = "red"
  Color <- MCColor
  ColorAt <- MCColorAt
  Period = 2
  LedCount = {1}
  DefaultLeds = 1
  Garbled = Garbled
  NoFrame = NoFrame
INVARIANT StreamsAnimated StaticZoneHolds
PROPERTY HardwareIsGuarded RevokedStreamEnds
