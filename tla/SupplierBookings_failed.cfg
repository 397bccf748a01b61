\* One booking, made and then cancelled: the answer to the cancellation may be lost.
CONSTANTS
  Booking = {b1}
  Call = {c1, c2}
  None = None
  ZeroId = ZeroId
SPECIFICATION Spec
INVARIANTS FailedIsTrue
CHECK_DEADLOCK FALSE
