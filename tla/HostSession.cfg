SPECIFICATION FairSpec
CONSTANTS
  c1 = c1
  c2 = c2
  serial = serial
  None = None
  Conns = {c1, c2}
  Ports = {serial}
  EventCap = 2
INVARIANTS
  TypeOK
  SlotExclusive
  SlotNotLeaked
  NoneLeftBehind
  StreamAlternates
PROPERTIES
  ShutdownReturns
  QueuedIsAnswered
\* The host stops after a shutdown.
CHECK_DEADLOCK FALSE
