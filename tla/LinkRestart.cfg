SPECIFICATION FairSpec
CONSTANTS
  Kinds = {"sticky"}
  Cap = 3
  CtrlCap = 2
  MaxBytes = 1
  MaxMissed = 2
  MaxFaults = 2
  MaxPackets = 1
PROPERTIES
  RestartIsAnswered
CHECK_DEADLOCK FALSE
