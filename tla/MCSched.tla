------------------------------ MODULE MCSched ------------------------------
EXTENDS Sched, TLC
Symmetry == Permutations(Demos) \cup Permutations(Programs)
=============================================================================
