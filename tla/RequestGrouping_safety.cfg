\* Three requests; the lock and an error answer live as long as each other and
\* shorter than a good answer, as in the code (1, 1 and 10 minutes).
CONSTANTS
  Request = {r1, r2, r3}
  None = None
  LockTTL = 1
  BadTTL = 1
  GoodTTL = 2
SPECIFICATION Spec
SYMMETRY Symmetry
INVARIANTS TypeOK SingleFlight HitIsGenuine KeysAreMortal
PROPERTIES ReleasesOwnLock KeepsPromise
CHECK_DEADLOCK FALSE
