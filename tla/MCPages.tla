------------------------------- MODULE MCPages -------------------------------
EXTENDS Pages

CONSTANTS alice, bob, r1, r2, r3

Symmetry == Permutations(Requests) \cup Permutations(People)
=============================================================================
