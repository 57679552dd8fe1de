------------------------------ MODULE MCRelay ------------------------------
EXTENDS Relay, TLC
Symmetry == Permutations(Clients)
=============================================================================
