SPECIFICATION Spec
CONSTANTS
  IPs = {i1, i2, i3}
  Configs <- SomeConfigs
  Startup <- TwoBurst
  Limit = 2
  TTL = 1
  MaxTime = 4
  None = None
SYMMETRY Symmetry
INVARIANTS
  TypeOK
  AdmittedBound
  ThrottledIsSpent
