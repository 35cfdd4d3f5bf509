SPECIFICATION FairSpec
CONSTANTS
  Tcp = {1}
  Udp = {}
  Dns = {2}
  SystemLists <- MCSystemLists
  Excluded = {"tunnel"}
  Fallback <- MCFallback
  IsFixed = FALSE
  EventCap = 1
  MaxActive = 0
  MaxSessions = 2
INVARIANTS
  TypeOK
  RowsAreClosed
PROPERTIES
  HalfCloseIsHalf
  FlowsEndWithSession
\* Guests stop coming.
CHECK_DEADLOCK FALSE
