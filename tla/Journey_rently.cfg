\* The same sessions, of which Rently's refute the one property.
CONSTANTS
  None = None
  Latin <- MCLatin
  Iata <- MCIata
  Sessions <- MCSessions
SPECIFICATION Spec
INVARIANTS RentlyExtrasOrdered
CHECK_DEADLOCK FALSE
