------------------------ MODULE ConfirmationRegister ------------------------
(***************************************************************************)
(* What the confirm database promises its readers: a write-once register   *)
(* of confirmations beside a candidate set that is replaced as a whole.    *)
(* Confirmations implements it; requests, locks and retries are gone here. *)
(***************************************************************************)
CONSTANTS Addresses, Versions, Evidence, None

VARIABLES
  loaded,    \* the version each wallet is a candidate under, or None
  register   \* per wallet and version, the evidence recorded: none, or one

vars == <<loaded, register>>

Keys == Addresses \X Versions

TypeOK ==
  /\ loaded \in [Addresses -> Versions \cup {None}]
  /\ register \in [Keys -> SUBSET Evidence]

Init ==
  /\ loaded = [a \in Addresses |-> None]
  /\ register = [k \in Keys |-> {}]

\* A load replaces the whole set, and all of it is of one version.
Load ==
  /\ loaded' \in [Addresses -> Versions \cup {None}]
  /\ \A a, b \in Addresses :
       loaded'[a] = loaded'[b] \/ loaded'[a] = None \/ loaded'[b] = None
  /\ UNCHANGED register

\* One signature, or one attestation of several wallets, is recorded: each
\* wallet is loaded under the version recorded, and has nothing yet.
Record(wallets, evidence) ==
  /\ wallets # {}
  /\ \A a \in wallets :
       /\ loaded[a] # None
       /\ register[<<a, loaded[a]>>] = {}
  /\ register' =
       [k \in Keys |->
          IF k[1] \in wallets /\ k[2] = loaded[k[1]]
          THEN {evidence} ELSE register[k]]
  /\ UNCHANGED loaded

Next ==
  \/ Load
  \/ \E wallets \in SUBSET Addresses, evidence \in Evidence :
       Record(wallets, evidence)

Spec == Init /\ [][Next]_vars
=============================================================================
