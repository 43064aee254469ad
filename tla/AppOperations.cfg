SPECIFICATION FairSpec
CONSTANTS
  board = board
  mock = mock
  Device = {board, mock}
  Target <- MCTarget
  Effect = {"static", "wave"}
  Supports <- MCSupports
  SupportsBrightness <- MCSupportsBrightness
  NeedsConfirmation = {board}
  MaxOperations = 1
  MaxRuns = 1
  MaxDrops = 1
INVARIANT CountsAddUp
PROPERTY ProfileEnds ParkedIsAttempted
CHECK_DEADLOCK FALSE
