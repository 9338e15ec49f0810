----------------------------- MODULE MCVaultPage -----------------------------
(* Small instances of VaultPage alone. *)
EXTENDS VaultPage, TLC

HolderSymmetry == Permutations(Holders)
=============================================================================
