----------------------------- MODULE MCCtfFlags -----------------------------
\* CtfFlags on a map with one flag for each of two teams, named as its team.
EXTENDS CtfFlags, TLC

OneEach == [i \in Flags |-> i]

\* take, drop and take; take, pass and score; in protect, take and drop or score.
ChangesPerMatch == [m \in Modes |-> IF m = "protect" THEN 2 ELSE 3]

Symmetry == Permutations(Clients) \cup Permutations(Teams)
=============================================================================
