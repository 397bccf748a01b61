\* Two requests; a platform that was never asked for before.  A process that has
\* ended does nothing more.
CONSTANTS
  q1 = q1
  q2 = q2
  Request = {q1, q2}
  Mixes <- MCMixes
  Unregistered = {"hertz"}
  None = None
SPECIFICATION Spec
INVARIANTS TypeOK NoSendOnClosed   ExitCode
PROPERTIES SafeWhenWarm EverythingEnds
CHECK_DEADLOCK FALSE
