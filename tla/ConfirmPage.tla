----------------------------- MODULE ConfirmPage -----------------------------
(***************************************************************************)
(* /confirm in the browser (src/frontend/src/ConfirmPage.tsx): the wallet  *)
(* it acts for, what it shows of that wallet's confirmation, and the       *)
(* submission it makes, between whose steps the wallet may switch to       *)
(* another account, lose its session or be replaced by a Ledger, and the   *)
(* candidate set may be loaded anew.                                       *)
(*                                                                         *)
(* The submission goes on with the address, the session and the chain of   *)
(* the moment it was started.                                              *)
(***************************************************************************)
EXTENDS Wallet

CONSTANTS
    Connections,  \* the states a wallet connection may be in: [kind, shared, current, chain]
    Deferred,     \* the addresses with a candidate row in every set
    MaxVersion,   \* bound: candidate sets loaded
    MaxSwitches   \* bound: changes of the connection, the choice and the Ledger

\* What useWallet can find connected: a browser wallet, or a session that shares
\* each of its addresses on some chain.
WalletState ==
    [kind : {"browser", "session"},
     shared : Seq([address : Accounts, chains : (SUBSET Chains) \ {{}}]),
     current : Accounts \cup {None}, chain : Chains]

ASSUME ConfirmPageAssumption ==
    /\ Connections \subseteq WalletState
    /\ Deferred \subseteq Accounts
    /\ MaxVersion \in Nat /\ MaxSwitches \in Nat

VARIABLES
    version,     \* the candidate set the API answers from
    recorded,    \* what the API has recorded: [address, version, by]
    connection,  \* the wallet's connection
    chosen,      \* the address picked among a session's
    usb,         \* the address selected on a Ledger over USB, or None
    status,      \* per address, the last status that came back, or None
    asked,       \* the status request under way, with its answer, or None
    confirm,     \* the submission under way
    switches

confirmPageVars == <<version, recorded, connection, chosen, usb, status, asked, confirm, switches>>

Unconnected == [kind |-> "none", shared |-> <<>>, current |-> None, chain |-> "ethereum"]

Versions == 0 .. MaxVersion

Status == [eligible : BOOLEAN, confirmed : BOOLEAN, version : Versions]

\* by is who signed, account the session's account that was asked, on `chain`.
Submission == [phase : {"idle", "challenge", "check", "sign", "submit", "confirmed", "error"},
               me : Accounts \cup {None}, via : {"wallet", "ledger"},
               challenge : Versions, by : Accounts \cup {None},
               shared : SUBSET Chains, chain : Chains]

NoSubmission == [phase |-> "idle", me |-> None, via |-> "wallet", challenge |-> 0, by |-> None,
                 shared |-> Chains, chain |-> "ethereum"]

ConfirmPageTypeOK ==
    /\ version \in Versions
    /\ recorded \subseteq [address : Accounts, version : Versions, by : Accounts]
    /\ connection \in Connections \cup {Unconnected}
    /\ chosen \in Accounts \cup {None}
    /\ usb \in Accounts \cup {None}
    /\ \A a \in Accounts : status[a] = None \/ status[a] \in Status
    /\ asked = None \/ asked \in [of : Accounts, answer : Status]
    /\ confirm \in Submission
    /\ switches \in 0 .. MaxSwitches

ConfirmPageInit ==
    /\ version = 0
    /\ recorded = {}
    /\ connection = Unconnected
    /\ chosen = None
    /\ usb = None
    /\ status = [a \in Accounts |-> None]
    /\ asked = None
    /\ confirm = NoSubmission
    /\ switches = 0

-----------------------------------------------------------------------------
(* The address the page acts for.                                           *)

SessionAccount == ChooseAccount(connection.shared, chosen, connection.current)

WalletAddress ==
    IF connection.kind = "none" THEN None
    ELSE IF SessionAccount # None THEN SessionAccount.address ELSE connection.current

\* A Ledger over USB goes before the wallet.
Connected == IF usb # None THEN usb ELSE WalletAddress

Waiting == confirm.phase \in {"challenge", "check", "sign", "submit"}

Switched == switches < MaxSwitches /\ switches' = switches + 1

\* The wallet connects, disconnects, switches its account or updates what its
\* session shares, on its own. The choice is forgotten when it disconnects.
ConnectionChanges(c) ==
    /\ Switched
    /\ c # connection
    /\ connection.kind = "none" => usb = None
    /\ connection' = c
    /\ chosen' = IF c.kind = "none" THEN None ELSE chosen
    /\ UNCHANGED <<version, recorded, usb, status, asked, confirm>>

\* Locked while a submission waits.
Pick(a) ==
    /\ Switched
    /\ ~Waiting
    /\ usb = None
    /\ \E i \in DOMAIN connection.shared : connection.shared[i].address = a
    /\ Len(connection.shared) > 1
    /\ chosen' = a
    /\ UNCHANGED <<version, recorded, connection, usb, status, asked, confirm>>

\* A Ledger is connected when no wallet is; it may be unplugged at any time, and
\* its addresses are locked while a submission waits.
UsbChanges(a) ==
    /\ Switched
    /\ a # usb
    /\ IF usb = None THEN connection.kind = "none" ELSE a # None => ~Waiting
    /\ usb' = a
    /\ UNCHANGED <<version, recorded, connection, chosen, status, asked, confirm>>

\* load-candidates.sh.
NextVersion ==
    /\ version < MaxVersion
    /\ version' = version + 1
    /\ UNCHANGED <<recorded, connection, chosen, usb, status, asked, confirm, switches>>

-----------------------------------------------------------------------------
(* GET /confirmations/:address, cached by address.                          *)

\* What the API answers for an address.
StatusOf(a) ==
    [eligible |-> a \in Deferred,
     confirmed |-> \E row \in recorded : row.address = a /\ row.version = version,
     version |-> version]

AskStatus ==
    /\ Connected # None
    /\ asked' = [of |-> Connected, answer |-> StatusOf(Connected)]
    /\ asked' # asked
    /\ UNCHANGED <<version, recorded, connection, chosen, usb, status, confirm, switches>>

\* The answer is put where the page looks now.
Mutant_StatusForConnected ==
    /\ asked # None
    /\ Connected # None
    /\ status' = [status EXCEPT ![Connected] = asked.answer]
    /\ asked' = None
    /\ UNCHANGED <<version, recorded, connection, chosen, usb, confirm, switches>>

StatusArrives ==
    /\ asked # None
    /\ status' = [status EXCEPT ![asked.of] = asked.answer]
    /\ asked' = None
    /\ UNCHANGED <<version, recorded, connection, chosen, usb, confirm, switches>>

-----------------------------------------------------------------------------
(* The submission.                                                          *)

ConfirmFails == confirm' = [confirm EXCEPT !.phase = "error"]

\* The button is there for an eligible wallet that is not confirmed yet.
Confirm ==
    /\ ~Waiting
    /\ Connected # None
    /\ status[Connected] # None
    /\ status[Connected].eligible
    /\ ~status[Connected].confirmed
    /\ confirm' =
         [NoSubmission EXCEPT
            !.phase = "challenge", !.me = Connected,
            !.via = IF usb # None THEN "ledger" ELSE "wallet",
            !.shared = IF usb = None /\ SessionAccount # None THEN SessionAccount.chains ELSE Chains,
            !.chain = IF usb = None /\ SessionAccount # None
                      THEN RequestChain(SessionAccount, connection.chain) ELSE connection.chain]
    /\ UNCHANGED <<version, recorded, connection, chosen, usb, status, asked, switches>>

Challenge ==
    /\ confirm.phase = "challenge"
    /\ confirm' = [confirm EXCEPT !.phase = "check", !.challenge = version]
    /\ UNCHANGED <<version, recorded, connection, chosen, usb, status, asked, switches>>

\* The status is asked for again, and must be of the challenge's set.
CheckVersion ==
    /\ confirm.phase = "check"
    /\ IF version = confirm.challenge
       THEN confirm' = [confirm EXCEPT !.phase = "sign"]
       ELSE ConfirmFails
    /\ UNCHANGED <<version, recorded, connection, chosen, usb, status, asked, switches>>

\* Whatever account answers is taken.
Mutant_SignUnchecked(by) ==
    /\ confirm.phase = "sign"
    /\ confirm' = [confirm EXCEPT !.phase = "submit", !.by = by]
    /\ UNCHANGED <<version, recorded, connection, chosen, usb, status, asked, switches>>

\* The wallet, or the Ledger if it is still the one that was selected, signs
\* with an account of its own choice. Any other than the one asked is refused.
Sign(by) ==
    /\ confirm.phase = "sign"
    /\ IF by = confirm.me /\ (confirm.via = "ledger" => usb = confirm.me)
       THEN confirm' = [confirm EXCEPT !.phase = "submit", !.by = by]
       ELSE ConfirmFails
    /\ UNCHANGED <<version, recorded, connection, chosen, usb, status, asked, switches>>

\* POST /confirmations records it if the set is still the challenge's. Then the
\* status of the address shown now is asked for again, unless the answer to the
\* POST is lost.
Submit ==
    /\ confirm.phase = "submit"
    /\ IF version # confirm.challenge \/ confirm.by # confirm.me
       THEN ConfirmFails /\ UNCHANGED <<recorded, asked>>
       ELSE /\ recorded' = recorded \cup
                 {[address |-> confirm.me, version |-> version, by |-> confirm.by]}
            /\ \/ confirm' = [confirm EXCEPT !.phase = "confirmed"] /\ asked' = None
               \/ ConfirmFails /\ UNCHANGED asked
    /\ UNCHANGED <<version, connection, chosen, usb, status, switches>>

\* A request fails, the API is busy, or the wallet's prompt is declined.
ConfirmError ==
    /\ Waiting
    /\ ConfirmFails
    /\ UNCHANGED <<version, recorded, connection, chosen, usb, status, asked, switches>>

ConfirmPageNext ==
    \/ \E c \in Connections \cup {Unconnected} : ConnectionChanges(c)
    \/ \E a \in Accounts : Pick(a) \/ Sign(a)
    \/ \E a \in Accounts \cup {None} : UsbChanges(a)
    \/ NextVersion
    \/ AskStatus \/ StatusArrives
    \/ Confirm \/ Challenge \/ CheckVersion \/ Submit \/ ConfirmError

ConfirmPageSpec == ConfirmPageInit /\ [][ConfirmPageNext]_confirmPageVars

-----------------------------------------------------------------------------

\* "Activity confirmed" is shown only for an address the API has a record of,
\* under the set the page was told of, whichever wallet was connected when the
\* answers came back (ConfirmPage.tsx, the queries are kept by address).
ConfirmedIsRecorded ==
    Connected # None /\ status[Connected] # None /\ status[Connected].confirmed =>
        \E row \in recorded :
            row.address = Connected /\ row.by = Connected /\ row.version = status[Connected].version

\* What is submitted for an address is signed by it, and was asked of the wallet
\* on a chain its session shared that address on, although the wallet may have
\* switched since (ConfirmPage.tsx, walletconnect.ts).
SubmittedIsOwn ==
    confirm.phase = "submit" => confirm.by = confirm.me /\ confirm.chain \in confirm.shared

=============================================================================
