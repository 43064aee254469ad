SPECIFICATION Spec
CONSTANTS
  HeaderCount = 2
  MaskLeds = 3
  MaxChannels = 2
  MaxLeds = 3
  LedsPerPacket = 2
  Picture = {"a", "b"}
  Probe <- MCProbe
  MaxWrites = 3
  Device = {"board", "lamp"}
  Effect = {"red", "wave", "dimWave"}
  Supports <- MCSupports
  Plain <- MCPlain
  ZoneName = {"A", "B", "C"}
  StartZones <- MCStartZones
  ProfileName = {"day", "night"}
  Normalize <- MCNormalize
  Foreign <- MCForeign
  Legacy <- MCLegacy
  NoProfile = NoProfile
  MaxProfileSteps = 4
  Id = {"board", "lamp"}
  Hidden <- MCHidden
  Likely = {"lamp"}
  Name = {"A", "B"}
  StartName <- MCStartName
  Color = {0, 1}
  MaxTreeSteps = 4
  MaxMessage = 2
  Byte = {"blank", "a", "b", "c"}
  Stream <- MCStream
  MaxForeign = 2
INVARIANT SelectionIsBest ZonesOwnTheirChannels ShowsTheModel PreviewAgrees RowsAreCurrent FramesAreRead LaunchIsAccountedFor
PROPERTY Restores NothingLost SelectionFollows
CHECK_DEADLOCK FALSE
