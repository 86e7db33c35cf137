--------------------------- MODULE MCUnlockedTab ---------------------------
EXTENDS UnlockedTab, TLC

Symmetry == Permutations(Records) \cup Permutations(SaveIds)
=============================================================================
