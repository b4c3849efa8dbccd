SPECIFICATION Spec
CONSTANTS
  Settings <- AllSettings
  Admins = {a1, a2}
  Inputs = {0, 1, 2, 4}
  Lo = 1
  Hi = 3
  Env = 3
  Faults = TRUE
INVARIANTS
  EffectiveIsPersisted
  AckedSurvives
