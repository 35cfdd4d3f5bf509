SPECIFICATION FairSpec
CONSTANTS
  MaxBackoff = 5
  MaxReady = 2
  KeepAlive = 2
  SendBuffer = 2
  CountCap = 4
INVARIANTS
  TypeOK
  CleanBetweenSessions
  ShownIsTrue
  WaitsFollowHistory
PROPERTIES
  KeepsLifecycle
  GoneInTheEnd
  ShutdownStops
  DeadHostIsNoticed
\* The guest ends after a shutdown, or when reconnect is off.
CHECK_DEADLOCK FALSE
