----------------------------- MODULE MCBanList ------------------------------
(* BanList with two addresses, which are interchangeable. *)
EXTENDS BanList, TLC

Symmetry == Permutations(Ips)
=============================================================================
