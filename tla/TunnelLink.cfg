SPECIFICATION FairSpec
CONSTANTS
  Kinds = {"tcp", "serial", "sticky"}
  Cap = 3
  CtrlCap = 2
  MaxBytes = 2
  MaxMissed = 2
  MaxFaults = 2
  MaxPackets = 1
INVARIANTS
  TypeOK
  SpeedIsOfThisAttempt
PROPERTIES
  NoFalseAlarm
  MeetAgain
  HostNotices
CHECK_DEADLOCK FALSE
