------------------------- MODULE MCSupplierBookings -------------------------
\* Bounds for checking SupplierBookings: a few calls and bookings.
EXTENDS SupplierBookings, TLC

Symmetry == Permutations(Call) \cup Permutations(Booking)
=============================================================================
