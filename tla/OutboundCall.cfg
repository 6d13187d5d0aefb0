SPECIFICATION Spec
CONSTANTS
  Calls = {c1, c2}
  Kinds <- MCKinds
  MaxAttempts = 2
  Threshold = 2
  BreakerEnabled = TRUE
INVARIANTS CallTypeOK UnsafeCallsSentOnce NoBodyLost
PROPERTIES EveryCallEnds CallsGetThrough
