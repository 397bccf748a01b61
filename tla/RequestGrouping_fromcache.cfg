\* The answer arrives between a request's GET and its SETNX.
CONSTANTS
  Request = {r1, r2}
  None = None
  LockTTL = 1
  BadTTL = 1
  GoodTTL = 2
SPECIFICATION Spec
PROPERTIES AnswersFromCache
CHECK_DEADLOCK FALSE
