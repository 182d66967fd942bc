-------------------------- MODULE MCHostReferences --------------------------
EXTENDS HostReferences
CONSTANTS o1, o2, G, B
Symmetry == Permutations(Objects \ {G, B})
=============================================================================
