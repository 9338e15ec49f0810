------------------------------- MODULE MCLookup -------------------------------
(* Small instances of Lookup for TLC. *)
EXTENDS Lookup, TLC

\* Requests, and loads, are handled by the same code.
Symmetry == Permutations(Requests) \cup Permutations(Loads)
=============================================================================
