SPECIFICATION FairSpec
CONSTANTS
  MaxCalls = 3
  MaxAttempts = 6
INVARIANT SentInOrder ReconnectArmed RecoveryAnnounced
PROPERTY HandlersRunOnce EveryCallEnds Reconnects
