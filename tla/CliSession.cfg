SPECIFICATION FairSpec
CONSTANTS
  MaxCores = 3
  EventCap = 1
  None = None
  Launches <- McLaunches
INVARIANTS
  TypeOK
  ScreenIsOfSession
PROPERTIES
  ExecKillsNoGuest
  SameAfterExec
  QuitEnds
  BlockedCoreResumes
\* The process ends.
CHECK_DEADLOCK FALSE
