------------------------------ MODULE MCReviews ------------------------------
(***************************************************************************)
(* Instances of Reviews for TLC: one wallet that confirmed under each of   *)
(* two candidate sets.                                                     *)
(***************************************************************************)
EXTENDS Reviews, TLC

CONSTANTS c1, c2, w1, liquid, shares, m1, m2

MCWalletOf == [c \in Confirmations |-> w1]
\* The API stores a confirmation only when its wallet signed it, an operator
\* when it is attested.
MCSigned == Confirmations
MCTrackOf == [p \in Parts |-> IF p = liquid THEN "wallet" ELSE "vault"]
OneSet == {{c1}}
BothSets == {{c1}, {c2}}

At(w, p) == [wallet |-> w, part |-> p]

\* The first ledger pays every part 1; the second blocks the liquid part.
LedgerA == [accounts |-> {w1}, amount |-> [s \in Slot |-> 1], blocked |-> {}]
LedgerB == [LedgerA EXCEPT !.blocked = {At(w1, liquid)}]
BothLedgers == {LedgerA, LedgerB}
OneLedger == {LedgerA}

Dir(name, manifest, track, slot) ==
  [name |-> name, manifest |-> manifest, track |-> track,
   items |-> {[slot |-> slot, amount |-> 1]}]

\* Two runs that pay the wallet's liquid part, the first of them rebuilt under
\* its old name, and a vault run that takes that name too.
MCRunDirs ==
  {Dir("run-1", m1, "wallet", At(w1, liquid)),
   Dir("run-1", m2, "wallet", At(w1, liquid)),
   Dir("run-2", m2, "wallet", At(w1, liquid)),
   Dir("run-1", m1, "vault", At(w1, shares))}
TwoRunDirs ==
  {Dir("run-1", m1, "wallet", At(w1, liquid)),
   Dir("run-2", m2, "wallet", At(w1, liquid))}

Symmetry == Permutations(Operators)
=============================================================================
