---------------------------- MODULE MCLapizWindow ----------------------------
EXTENDS LapizWindow, TLC
Symmetry == Permutations(Tabs) \union Permutations(Windows)
==============================================================================
