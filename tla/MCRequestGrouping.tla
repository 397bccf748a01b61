------------------------- MODULE MCRequestGrouping -------------------------
\* Bounds for checking RequestGrouping: a few requests of one cache key.
EXTENDS RequestGrouping, TLC

Symmetry == Permutations(Request)
=============================================================================
