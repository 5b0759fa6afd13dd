------------------------------ MODULE MCGCCycle ------------------------------
EXTENDS GCCycle, TLC

Symmetry == Permutations(Objects) \cup Permutations(Threads)
==============================================================================
