---------------------------- MODULE MCAuthTokens ----------------------------
\* Bounds for checking AuthTokens: calls are interchangeable.
EXTENDS AuthTokens, TLC

Symmetry == Permutations(Call)
=============================================================================
