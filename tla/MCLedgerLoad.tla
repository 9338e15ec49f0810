----------------------------- MODULE MCLedgerLoad -----------------------------
(* Small instances of LedgerLoad for TLC. *)
EXTENDS LedgerLoad, TLC

\* Loads are processes of the same code, and datasets are only compared.
LoadSymmetry == Permutations(Loads) \cup Permutations(Sets)
=============================================================================
