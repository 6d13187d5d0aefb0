SPECIFICATION Spec
CONSTANTS
  Calls = {c1}
  Kinds <- MCKinds
  MaxAttempts = 2
  Threshold = 2
  BreakerEnabled = TRUE
INVARIANT RepeatsCarryKey
