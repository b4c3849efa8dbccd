SPECIFICATION FairSpec
CONSTANTS
  Workers = {w1, w2}
  Admins = {a1, a2}
  ChanCap = 1
  MaxBatch = 2
  MaxControl = 2
  Settings <- Changing
  Faults = TRUE
  Signals = TRUE
  Loads <- Either
  MaxTime = 3
CHECK_DEADLOCK FALSE
INVARIANTS
  
  AuditReadable
PROPERTIES
  FlushKeepsNewest
  EventsSettle
