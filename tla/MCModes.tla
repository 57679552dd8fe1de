------------------------------ MODULE MCModes ------------------------------
EXTENDS Modes, TLC
Symmetry == Permutations(Clients) \cup Permutations(Teams)
=============================================================================
