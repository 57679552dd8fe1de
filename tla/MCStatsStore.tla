---------------------------- MODULE MCStatsStore ----------------------------
(* StatsStore with few clients, addresses and names, all interchangeable. *)
EXTENDS StatsStore, TLC

Symmetry == Permutations(Cns) \cup Permutations(Ips) \cup Permutations(Names)
=============================================================================
