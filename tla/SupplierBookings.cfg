\* Two bookings and four calls: book twice, cancel, and repeat or ask.
CONSTANTS
  Booking = {b1, b2}
  Call = {c1, c2, c3, c4}
  None = None
  ZeroId = ZeroId
SPECIFICATION Spec
SYMMETRY Symmetry
INVARIANTS TypeOK OKIsTrue NoSilentBooking  
PROPERTY KeepsDesk
CHECK_DEADLOCK FALSE
