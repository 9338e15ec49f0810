--------------------------- MODULE MCEntitlements ---------------------------
(* A small instance of Entitlements for TLC. *)
EXTENDS Entitlements, TLC

\* Validators are only compared with each other.
ValidatorSymmetry == Permutations(Validators)
=============================================================================
