SPECIFICATION Spec
CONSTANTS
  IPs = {i1, i2, i3}
  Workers = {w1, w2}
  Admins = {a1}
  Configs <- TwoConfigs
  Startup <- ThreeInTwo
  Limit = 2
  MaxTime = 5
SYMMETRY Symmetry
INVARIANTS
  TablesSound
  SqueezeBound
PROPERTIES
  BanStands
  BanIsEarned
