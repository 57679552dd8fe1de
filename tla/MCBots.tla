------------------------------- MODULE MCBots -------------------------------
\* Bots with interchangeable clients.
EXTENDS Bots, TLC

Symmetry == Permutations(Humans)
=============================================================================
