\* Three calls; answers with and without an expires_in.
CONSTANTS
  Call = {c1, c2, c3}
  Blank = Blank
  None = None
  Lives = {0, 1, 2}
  Timeout = 1
  MaxTime = 3
SPECIFICATION Spec
SYMMETRY Symmetry
INVARIANTS TypeOK CacheOutlivesByTimeout TokenIsGranted
PROPERTIES RejectedOnlyWhenStale
CHECK_DEADLOCK FALSE
