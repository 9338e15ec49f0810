--------------------------- MODULE MCConfirmations ---------------------------
(***************************************************************************)
(* Instances of Confirmations for TLC.                                     *)
(***************************************************************************)
EXTENDS Confirmations, TLC

CONSTANTS a1, a2, v1, v2

\* Every wallet is deferred in the first ledger, the first one alone in the
\* second: a reload may drop a wallet.
DeferredBoth == [v \in {v1, v2} |-> IF v = v1 THEN {a1, a2} ELSE {a1}]
DeferredFirst == [v \in {v1} |-> {a1}]
DeferredOne == [v \in {v1, v2} |-> {a1}]

Symmetry == Permutations(Requests) \cup Permutations(Nonces)
=============================================================================
