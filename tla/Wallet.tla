-------------------------------- MODULE Wallet --------------------------------
(***************************************************************************)
(* The address the pages act for (src/frontend/src/useWallet.ts,           *)
(* walletconnect.ts).  A browser wallet exposes one address; a             *)
(* WalletConnect session shares several, each on chains of its own, and a  *)
(* person may pick one of them.                                            *)
(***************************************************************************)
EXTENDS Naturals, Sequences

CONSTANTS
    Accounts,  \* addresses
    None

Chains == {"ethereum", "harmony"}

\* The first of the shared accounts at these places.
FirstOf(shared, places) ==
    IF places = {} THEN None ELSE shared[CHOOSE i \in places : \A j \in places : i <= j]

\* The user's choice while the session still shares it, else the first account
\* shared on Harmony, else the wallet's current one, else the first.
ChooseAccount(shared, chosen, current) ==
    LET picked == FirstOf(shared, {i \in DOMAIN shared : shared[i].address = chosen})
        onHarmony == FirstOf(shared, {i \in DOMAIN shared : "harmony" \in shared[i].chains})
        exposed == FirstOf(shared, {i \in DOMAIN shared : shared[i].address = current})
    IN  IF picked # None THEN picked
        ELSE IF onHarmony # None THEN onHarmony
        ELSE IF exposed # None THEN exposed
        ELSE IF shared # <<>> THEN shared[1] ELSE None

\* The session's current chain if it shares the account there, else another.
RequestChain(account, current) ==
    IF current \in account.chains THEN current ELSE CHOOSE c \in account.chains : TRUE

=============================================================================
