---------------------------- MODULE MCWalStorage ----------------------------
(* Small instances of WalStorage for TLC. *)
EXTENDS WalStorage
Symmetry == Permutations(Writers)
=============================================================================
