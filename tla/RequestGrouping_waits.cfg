\* The lock of a request that is still asking its supplier runs out.
CONSTANTS
  Request = {r1, r2}
  None = None
  LockTTL = 1
  BadTTL = 1
  GoodTTL = 2
SPECIFICATION Spec
PROPERTIES WaitsForOther
CHECK_DEADLOCK FALSE
