----------------------------- MODULE MCSessions -----------------------------
(* Sessions on small sets of slots and addresses, which are interchangeable. *)
EXTENDS Sessions, TLC

Symmetry == Permutations(Cns) \cup Permutations(Ips)
=============================================================================
