------------------------------ MODULE MCCombat ------------------------------
\* Combat with two clients.
EXTENDS Combat

Symmetry == Permutations(Cns) \cup Permutations(Ids)
=============================================================================
