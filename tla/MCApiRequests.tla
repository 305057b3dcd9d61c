--------------------------- MODULE MCApiRequests ---------------------------
EXTENDS ApiRequests, TLC

Symmetry == Permutations(Sessions)
=============================================================================
