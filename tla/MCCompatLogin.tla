---------------------------- MODULE MCCompatLogin ----------------------------
EXTENDS CompatLogin, TLC
Symmetry == Permutations(Requests) \cup Permutations(Devices)
=============================================================================
