----------------------------- MODULE NameRegister -----------------------------
(***************************************************************************)
(* What schema vault promises its readers: per vault, a log of signed name *)
(* changes and the name now shown, which is the change issued last.        *)
(* VaultNames implements it; requests, locks and retries are gone here.    *)
(***************************************************************************)
EXTENDS Integers

CONSTANTS Vaults, Changes, IssuedAt(_), None

VARIABLES
  shown,   \* per vault, the change whose name is shown, or None
  log      \* per vault, every change that was ever shown

vars == <<shown, log>>

Init ==
  /\ shown = [v \in Vaults |-> None]
  /\ log = [v \in Vaults |-> {}]

\* A change is shown and logged in one step, and only if it was issued after
\* everything its vault was called before.
Rename(v, change) ==
  /\ \A earlier \in log[v] : IssuedAt(earlier) < IssuedAt(change)
  /\ shown' = [shown EXCEPT ![v] = change]
  /\ log' = [log EXCEPT ![v] = @ \cup {change}]

Next == \E v \in Vaults, change \in Changes : Rename(v, change)

Spec == Init /\ [][Next]_vars
=============================================================================
