SPECIFICATION FairSpec
CONSTANTS
  Conn = {c1, c2}
  NoConn = NoConn
  MaxRequests = 2
  Sends = {"list", "write", "setDryRun", "oversized"}
  ExitWhenIdle = TRUE
INVARIANT EachAnsweredOnce ToldModeIsCurrent
PROPERTY WritesAsMeant ExitsWhenDeserted EveryRequestAnswered IdleDaemonExits
CHECK_DEADLOCK FALSE
