SPECIFICATION Spec
CONSTANTS
  Workers = {w1, w2}
  IPs = {i1, i2}
  Users = {u1}
  Mixes <- AllMixes
  SessionCap = 2
  SessionIdle = 2
  SessionTTL = 3
  MaxFailures = 2
  Window = 2
  LimiterCap = 1
  MaxLogins = 3
  MaxTime = 3
SYMMETRY Symmetry
CHECK_DEADLOCK FALSE
INVARIANTS
  TypeOK
  LockoutBound
PROPERTIES
  SessionHonoured
  OnlyIdlestEvicted
