\* Liveness needs no symmetry; two requests are enough for a waiter and a
\* leader that panics, crashes, or loses its DEL; a lock of two ticks can be
\* renewed before it runs out.
CONSTANTS
  Request = {r1, r2}
  None = None
  LockTTL = 2
  BadTTL = 1
  GoodTTL = 2
SPECIFICATION FairSpec
PROPERTIES EveryRequestEnds KeysExpire
CHECK_DEADLOCK FALSE
