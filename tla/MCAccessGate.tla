----------------------------- MODULE MCAccessGate -----------------------------
EXTENDS AccessGate, TLC
AccessIds == Permutations(Channels) \cup Permutations(Checks)
=============================================================================
