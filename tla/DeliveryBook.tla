----------------------------- MODULE DeliveryBook -----------------------------
(***************************************************************************)
(* What the operators keep confirm.reviews for: a book with the decision   *)
(* on every confirmation and, per part of a wallet, the run that sent it.  *)
(* Reviews implements it with appended rows that readers sort by time;     *)
(* commands, plans and locks are gone here.                                *)
(***************************************************************************)
CONSTANTS Confirmations, Slots, Runs, SlotsOf, None

VARIABLES
  decision,  \* per confirmation: none, approved or rejected
  sentBy     \* per part of a wallet: the run that sent it, or None

vars == <<decision, sentBy>>

TypeOK ==
  /\ decision \in [Confirmations -> {"none", "approved", "rejected"}]
  /\ sentBy \in [Slots -> Runs \cup {None}]

Init ==
  /\ decision = [c \in Confirmations |-> "none"]
  /\ sentBy = [s \in Slots |-> None]

\* Approve or reject some confirmations that stand otherwise.
Decide(confs, verdict) ==
  /\ \A c \in confs : decision[c] # verdict
  /\ decision' = [c \in Confirmations |->
                    IF c \in confs THEN verdict ELSE decision[c]]
  /\ UNCHANGED sentBy

\* A run sends parts nobody has sent, of wallets with an approved confirmation.
Send(run, slots) ==
  /\ \A s \in slots :
       /\ sentBy[s] = None
       /\ \E c \in Confirmations : s \in SlotsOf[c] /\ decision[c] = "approved"
  /\ sentBy' = [s \in Slots |-> IF s \in slots THEN run ELSE sentBy[s]]
  /\ UNCHANGED decision

\* A run takes back what it sent.
TakeBack(run, slots) ==
  /\ \A s \in slots : sentBy[s] = run
  /\ sentBy' = [s \in Slots |-> IF s \in slots THEN None ELSE sentBy[s]]
  /\ UNCHANGED decision

Next ==
  \/ \E confs \in SUBSET Confirmations, verdict \in {"approved", "rejected"} :
       Decide(confs, verdict)
  \/ \E run \in Runs, slots \in SUBSET Slots :
       Send(run, slots) \/ TakeBack(run, slots)

Spec == Init /\ [][Next]_vars
=============================================================================
