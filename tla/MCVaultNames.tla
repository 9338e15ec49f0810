----------------------------- MODULE MCVaultNames -----------------------------
(* Small instances of VaultNames for TLC. The run checks liveness, so it uses *)
(* no symmetry. *)
EXTENDS VaultNames
=============================================================================
