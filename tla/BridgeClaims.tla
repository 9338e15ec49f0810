---------------------------- MODULE BridgeClaims ----------------------------
(***************************************************************************)
(* One chain's card of the bridge page: what the card reads of the claim   *)
(* contract, the claim it checks, sends and follows, and the contract it   *)
(* talks to (src/frontend/src/bridge/BridgePage.tsx ChainCard, claim.ts,   *)
(* model.ts, state.ts).                                                    *)
(*                                                                         *)
(* Anyone may claim a row at any time, the custody Safe may change what it *)
(* makes available, a token may refuse transfers, and the wallet may       *)
(* reprice, cancel or replace what it sent.                                *)
(***************************************************************************)
EXTENDS Wallet, FiniteSets, FiniteSetsExt

CONSTANTS
    Rows,       \* the account's row numbers in this contract's list
    AssetOf,    \* the asset of a row
    AmountOf,   \* the amount of a row
    Assets,     \* the assets of the list
    MaxFunds,   \* bound: the most the Safe makes available of an asset
    MaxMoves,   \* bound: steps of others, and what goes wrong
    Hashes,     \* the transactions the wallet sends
    Someone     \* another sender of claims

ASSUME RowsAssumption == Rows \subseteq Nat /\ IsFiniteSet(Rows)
ASSUME AssetsAssumption == AssetOf \in [Rows -> Assets]
ASSUME AmountsAssumption == AmountOf \in [Rows -> Nat]
ASSUME BoundsAssumption == MaxFunds \in Nat /\ MaxMoves \in Nat
ASSUME SendersAssumption == None \notin Hashes /\ Someone \notin Hashes

VARIABLES
    code,       \* whether the contract's address holds the expected code
    payer,      \* the transaction that paid a row, Someone, or None
    available,  \* what the contract can still pay of each asset
    refusing,   \* the assets whose token refuses transfers
    moves,      \* steps against MaxMoves so far
    sent,       \* what became of the transaction with a hash
    read,       \* the read of the contract's state that is under way
    view,       \* the last state read, or None
    stale,      \* the state was invalidated and is to be read again
    refused,    \* rows whose own simulation reverted
    check,      \* the simulations of the claim being checked
    tx          \* the claim the card shows

chainVars == <<code, payer, available, refusing>>
queryVars == <<read, view, stale>>
cardVars == <<refused, check, tx>>
claimsVars == <<chainVars, sent, queryVars, cardVars, moves>>

Amounts == [Assets -> 0 .. MaxFunds]

View == [code : {"ok", "missing", "different"}, claimed : SUBSET Rows, available : Amounts]

Phases == {"idle", "checking", "wallet", "pending", "done", "refused", "error"}

\* What the card shows of a claim: `paid` are the rows it reports as claimed by
\* `hash`, `retry` is set while the transaction may still be included.
ClaimTx == [phase : Phases, batch : SUBSET Rows, hash : Hashes \cup {None},
            paid : SUBSET Rows, retry : BOOLEAN]

\* Rows simulated on their own: those left to try, those that reverted, and
\* whether a simulation failed for another reason than a revert.
Check == [step : {"none", "batch", "alone", "left"}, todo : SUBSET Rows,
          failed : SUBSET Rows, rpc : BOOLEAN]

Ends == {"open", "included", "repriced", "reverted", "cancelled", "replaced"}
SentTx == [batch : SUBSET Rows, end : Ends]

ASSUME NoneAssumption == None \notin SentTx

NoCheck == [step |-> "none", todo |-> {}, failed |-> {}, rpc |-> FALSE]
NoRead == [step |-> "none", claimed |-> None, available |-> None]
IdleTx == [phase |-> "idle", batch |-> {}, hash |-> None, paid |-> {}, retry |-> FALSE]

ReadState == [step : {"none", "calls"},
         claimed : (SUBSET Rows) \cup {None}, available : Amounts \cup {None}]

BridgeTypeOK ==
    /\ code \in {"ok", "missing", "different"}
    /\ payer \in [Rows -> Hashes \cup {Someone, None}]
    /\ available \in Amounts
    /\ refusing \in SUBSET Assets
    /\ moves \in 0 .. MaxMoves
    /\ sent \in [Hashes -> SentTx \cup {None}]
    /\ read \in ReadState
    /\ view \in View \cup {None}
    /\ stale \in BOOLEAN
    /\ refused \in SUBSET Rows
    /\ check \in Check
    /\ tx \in ClaimTx

ClaimsInit ==
    /\ code \in {"ok", "missing", "different"}
    /\ payer = [r \in Rows |-> None]
    /\ available \in Amounts
    /\ refusing = {}
    /\ moves = 0
    /\ sent = [h \in Hashes |-> None]
    /\ read = NoRead
    /\ view = None
    /\ stale = TRUE
    /\ refused = {}
    /\ check = NoCheck
    /\ tx = IdleTx

-----------------------------------------------------------------------------
(* The claim contract: it pays every row of a batch that is not paid yet,   *)
(* and the whole batch reverts when one transfer does.                      *)

Claimed == {r \in Rows : payer[r] # None}

Owed(rows, a) == MapThenSumSet(LAMBDA r : AmountOf[r], {r \in rows : AssetOf[r] = a})

Transfers(batch) == batch \ Claimed

Accepts(batch) ==
    \A r \in Transfers(batch) :
        /\ AssetOf[r] \notin refusing
        /\ Owed(Transfers(batch), AssetOf[r]) <= available[AssetOf[r]]

\* The contract runs claimMany for `batch`, sent by `by`.
Pay(batch, by) ==
    /\ payer' = [r \in Rows |-> IF r \in Transfers(batch) THEN by ELSE payer[r]]
    /\ available' = [a \in Assets |-> available[a] - Owed(Transfers(batch), a)]
    /\ UNCHANGED <<code, refusing>>

\* A step of the others, or something that goes wrong.
Moves ==
    /\ moves < MaxMoves
    /\ moves' = moves + 1

OtherClaim(batch) ==
    /\ code = "ok"
    /\ batch # {}
    /\ batch \cap Claimed = {}
    /\ Accepts(batch)
    /\ Moves
    /\ Pay(batch, Someone)
    /\ UNCHANGED <<sent, queryVars, cardVars>>

\* The Safe approves another amount of an asset, or its balance changes.
SafeMoves(a, n) ==
    /\ Moves
    /\ n # available[a]
    /\ available' = [available EXCEPT ![a] = n]
    /\ UNCHANGED <<code, payer, refusing, sent, queryVars, cardVars>>

\* A token is paused, or blocks the address, or stops doing so.
TokenMoves(a) ==
    /\ Moves
    /\ refusing' = IF a \in refusing THEN refusing \ {a} ELSE refusing \cup {a}
    /\ UNCHANGED <<code, payer, available, sent, queryVars, cardVars>>

\* What the network makes of an open transaction, as it was sent or repriced.
Include(h, how) ==
    /\ sent[h] # None
    /\ sent[h].end = "open"
    /\ IF Accepts(sent[h].batch)
       THEN /\ sent' = [sent EXCEPT ![h].end = how]
            /\ Pay(sent[h].batch, h)
       ELSE /\ sent' = [sent EXCEPT ![h].end = "reverted"]
            /\ UNCHANGED chainVars
    /\ UNCHANGED <<queryVars, cardVars, moves>>

\* The wallet cancels it, or puts another transaction in its place: one that
\* claims nothing, or one that claims other rows than the batch.
Replace(h, how, batch) ==
    /\ sent[h] # None
    /\ sent[h].end = "open"
    /\ Accepts(batch)
    /\ how = "cancelled" => batch = {}
    /\ sent' = [sent EXCEPT ![h].end = how]
    /\ Pay(batch, h)
    /\ Moves
    /\ UNCHANGED <<queryVars, cardVars>>

-----------------------------------------------------------------------------
(* The card reads the contract: its code, then which rows are paid and what *)
(* is available, in two calls that are answered apart. It reads on mount,   *)
(* when the state was invalidated, and when the window is focused; of the   *)
(* last, those during a claim are left out: the claim uses no later view.   *)

Claiming == tx.phase \in {"checking", "wallet", "pending"}

StartRead ==
    /\ read.step = "none"
    /\ stale \/ ~Claiming
    /\ IF code = "ok"
       THEN /\ read' = [NoRead EXCEPT !.step = "calls"]
            /\ UNCHANGED <<view, stale>>
       ELSE /\ view' = [code |-> code, claimed |-> {}, available |-> [a \in Assets |-> 0]]
            /\ stale' = FALSE
            /\ UNCHANGED read
    /\ UNCHANGED <<chainVars, sent, cardVars, moves>>

ReadClaimed ==
    /\ read.step = "calls"
    /\ read.claimed = None
    /\ read' = [read EXCEPT !.claimed = Claimed]
    /\ UNCHANGED <<chainVars, sent, view, stale, cardVars, moves>>

ReadAvailable ==
    /\ read.step = "calls"
    /\ read.available = None
    /\ read' = [read EXCEPT !.available = available]
    /\ UNCHANGED <<chainVars, sent, view, stale, cardVars, moves>>

FinishRead ==
    /\ read.step = "calls"
    /\ read.claimed # None
    /\ read.available # None
    /\ view' = [code |-> "ok", claimed |-> read.claimed, available |-> read.available]
    /\ read' = NoRead
    /\ stale' = FALSE
    /\ UNCHANGED <<chainVars, sent, cardVars, moves>>

\* The query failed, its one retry too: the card keeps what it had.
FailRead ==
    /\ read.step # "none"
    /\ read' = NoRead
    /\ stale' = FALSE
    /\ Moves
    /\ UNCHANGED <<chainVars, sent, view, cardVars>>

\* invalidateQueries: a read under way is dropped and another one starts.
Invalidate ==
    /\ stale' = TRUE
    /\ read' = NoRead
    /\ UNCHANGED view

-----------------------------------------------------------------------------
(* The claim.                                                              *)

Opened == view # None /\ view.code = "ok"

\* The unpaid rows, in order, that what is left of their asset covers.
PayableRows(rows, state) ==
    LET picks[n \in Nat] ==
            IF n = 0 THEN {}
            ELSE LET r == n - 1
                     before == picks[n - 1]
                 IN  IF /\ r \in rows \ state.claimed
                        /\ Owed(before, AssetOf[r]) + AmountOf[r] <= state.available[AssetOf[r]]
                     THEN before \cup {r}
                     ELSE before
    IN  {r \in rows : r \in picks[r + 1]}

Payable == IF Opened THEN PayableRows(Rows \ refused, view) ELSE {}

Failed(hash, retry) ==
    tx' = [tx EXCEPT !.phase = "error", !.hash = hash, !.paid = {}, !.retry = retry]

Claim ==
    /\ ~Claiming
    /\ Payable # {}
    /\ tx' = [IdleTx EXCEPT !.phase = "checking", !.batch = Payable]
    /\ check' = [NoCheck EXCEPT !.step = "batch"]
    /\ UNCHANGED <<chainVars, sent, queryVars, refused, moves>>

\* The rows in `rows` are refused by the contract, the rest of the batch is not sent.
Refuse(rows) ==
    /\ refused' = refused \cup rows
    /\ tx' = [tx EXCEPT !.phase = "refused"]
    /\ check' = NoCheck

\* The whole batch is simulated first.
SimulateBatch ==
    /\ check.step = "batch"
    /\ IF Accepts(tx.batch)
       THEN tx' = [tx EXCEPT !.phase = "wallet"] /\ check' = NoCheck /\ UNCHANGED refused
       ELSE IF Cardinality(tx.batch) = 1
            THEN Refuse(tx.batch)
            ELSE /\ check' = [check EXCEPT !.step = "alone", !.todo = tx.batch]
                 /\ UNCHANGED <<tx, refused>>
    /\ UNCHANGED <<chainVars, sent, queryVars, moves>>

\* Then each row on its own, all at once and answered in any order.
SimulateRow(r) ==
    /\ check.step = "alone"
    /\ r \in check.todo
    /\ check' = [check EXCEPT !.todo = @ \ {r},
                              !.failed = IF Accepts({r}) THEN @ ELSE @ \cup {r}]
    /\ UNCHANGED <<chainVars, sent, queryVars, tx, refused, moves>>

\* An RPC failure is none of the contract's refusals: it ends the claim.
FailSimulation ==
    /\ \/ /\ check.step = "alone"
          /\ \E r \in check.todo : check' = [check EXCEPT !.todo = @ \ {r}, !.rpc = TRUE]
          /\ UNCHANGED tx
       \/ /\ check.step \in {"batch", "left"}
          /\ Failed(None, FALSE)
          /\ check' = NoCheck
    /\ Moves
    /\ UNCHANGED <<chainVars, sent, queryVars, refused>>

\* Every row was tried.
FinishAlone ==
    /\ check.step = "alone"
    /\ check.todo = {}
    /\ IF check.rpc
       THEN Failed(None, FALSE) /\ check' = NoCheck /\ UNCHANGED refused
       ELSE IF check.failed = tx.batch
            THEN Refuse(check.failed)
            ELSE check' = [check EXCEPT !.step = "left"] /\ UNCHANGED <<tx, refused>>
    /\ UNCHANGED <<chainVars, sent, queryVars, moves>>

\* What is left is simulated together; it is sent only if nothing was refused.
SimulateLeft ==
    /\ check.step = "left"
    /\ IF ~Accepts(tx.batch \ check.failed)
       THEN Failed(None, FALSE) /\ check' = NoCheck /\ UNCHANGED refused
       ELSE IF check.failed # {}
            THEN Refuse(check.failed)
            ELSE tx' = [tx EXCEPT !.phase = "wallet"] /\ check' = NoCheck /\ UNCHANGED refused
    /\ UNCHANGED <<chainVars, sent, queryVars, moves>>

\* The wallet signs and broadcasts, and the card follows the transaction.
Send(h) ==
    /\ tx.phase = "wallet"
    /\ sent[h] = None
    /\ sent' = [sent EXCEPT ![h] = [batch |-> tx.batch, end |-> "open"]]
    /\ tx' = [tx EXCEPT !.phase = "pending", !.hash = h]
    /\ UNCHANGED <<chainVars, queryVars, refused, check, moves>>

\* The card stops following the wallet. What the wallet was asked for is never
\* sent, or it is, and nobody follows it.
LeftToWallet ==
    \/ UNCHANGED sent
    \/ \E h \in Hashes :
          /\ sent[h] = None
          /\ sent' = [sent EXCEPT ![h] = [batch |-> tx.batch, end |-> "open"]]

\* signer.send fails: the wallet refuses, or its answer is lost after it sent.
Reject ==
    /\ tx.phase = "wallet"
    /\ Failed(None, FALSE)
    /\ \/ UNCHANGED <<sent, moves>>
       \/ LeftToWallet /\ Moves
    /\ Invalidate
    /\ UNCHANGED <<chainVars, refused, check>>

\* The rows whose Claimed events are in the receipt of the transaction.
ClaimedIndexes(h) == {r \in Rows : payer[r] = h}

\* A receipt that succeeded counts as the whole batch.
Mutant_ReceiptTrusted ==
    /\ tx.phase = "pending"
    /\ sent[tx.hash].end # "open"
    /\ IF sent[tx.hash].end = "reverted"
       THEN Failed(tx.hash, FALSE)
       ELSE tx' = [tx EXCEPT !.phase = "done", !.paid = tx.batch]
    /\ Invalidate
    /\ UNCHANGED <<chainVars, sent, refused, check, moves>>

Receipt ==
    /\ tx.phase = "pending"
    /\ sent[tx.hash].end # "open"
    /\ LET counted == ClaimedIndexes(tx.hash) \cap tx.batch
       IN  IF sent[tx.hash].end = "reverted" \/ counted = {}
           THEN Failed(tx.hash, FALSE)
           ELSE tx' = [tx EXCEPT !.phase = "done", !.paid = counted]
    /\ Invalidate
    /\ UNCHANGED <<chainVars, sent, refused, check, moves>>

\* Giving up on a transaction drops what is needed to follow it again.
Mutant_ForgetsPending ==
    /\ tx.phase = "pending"
    /\ Failed(tx.hash, FALSE)
    /\ Invalidate
    /\ Moves
    /\ UNCHANGED <<chainVars, sent, refused, check>>

\* Waiting took longer than the timeout, or the RPC failed: it may be included yet.
StopWaiting ==
    /\ tx.phase = "pending"
    /\ Failed(tx.hash, TRUE)
    /\ Invalidate
    /\ Moves
    /\ UNCHANGED <<chainVars, sent, refused, check>>

CheckAgain ==
    /\ tx.phase = "error"
    /\ tx.retry
    /\ tx' = [tx EXCEPT !.phase = "pending", !.retry = FALSE]
    /\ UNCHANGED <<chainVars, sent, queryVars, refused, check, moves>>

\* Another address is looked up, and this one again later: the card is put up
\* anew. What was sent stays sent, and a prompt left open in the wallet may send.
LookAway ==
    /\ tx # IdleTx \/ refused # {}
    /\ IF tx.phase = "wallet" THEN LeftToWallet ELSE UNCHANGED sent
    /\ tx' = IdleTx
    /\ refused' = {}
    /\ check' = NoCheck
    /\ Moves
    /\ UNCHANGED <<chainVars, queryVars>>

-----------------------------------------------------------------------------
(* What the card says.                                                     *)

\* The status of a row, once the contract was read.
RowStatus(r) ==
    IF r \in view.claimed THEN "claimed"
    ELSE IF r \in refused THEN "refused"
    ELSE IF AmountOf[r] <= view.available[AssetOf[r]] THEN "ready" ELSE "waiting"

ShownClaimed == IF Opened THEN {r \in Rows : RowStatus(r) = "claimed"} ELSE {}

\* The rows the line below the table reports as claimed by the transaction, as
\* claimed before it, and whether it offers to check the transaction again.
ClaimStatus ==
    [claimed |-> IF tx.phase = "done" THEN tx.paid ELSE {},
     before |-> IF tx.phase = "done" THEN tx.batch \ tx.paid ELSE {},
     checkAgain |-> tx.phase = "error" /\ tx.retry]

-----------------------------------------------------------------------------

ReadStep == ReadClaimed \/ ReadAvailable \/ FinishRead

CheckStep ==
    \/ SimulateBatch
    \/ \E r \in Rows : SimulateRow(r)
    \/ FinishAlone
    \/ SimulateLeft

ChainStep ==
    \/ \E batch \in SUBSET Rows : OtherClaim(batch)
    \/ \E a \in Assets : TokenMoves(a) \/ \E n \in 0 .. MaxFunds : SafeMoves(a, n)
    \/ \E h \in Hashes, how \in {"included", "repriced"} : Include(h, how)
    \/ \E h \in Hashes, how \in {"cancelled", "replaced"}, batch \in SUBSET Rows :
          Replace(h, how, batch)

CardStep ==
    \/ StartRead \/ ReadStep \/ FailRead
    \/ Claim \/ CheckStep \/ FailSimulation
    \/ \E h \in Hashes : Send(h)
    \/ Reject \/ Receipt \/ StopWaiting \/ CheckAgain \/ LookAway

ClaimsNext == ChainStep \/ CardStep

ClaimsSpec == ClaimsInit /\ [][ClaimsNext]_claimsVars

-----------------------------------------------------------------------------

\* What the card reports as claimed by a transaction is exactly what that
\* transaction paid of the batch, whatever the wallet made of it and whoever
\* else claimed meanwhile (claim.ts awaitClaim). Rows it reports as claimed
\* before were, unless the wallet sent other rows in the batch's place, and so
\* were the rows the table marks as claimed.
DoneIsPaid ==
    /\ ShownClaimed \subseteq Claimed
    /\ tx.phase = "done" =>
          /\ ClaimStatus.claimed # {}
          /\ ClaimStatus.claimed = {r \in tx.batch : payer[r] = tx.hash}
          /\ sent[tx.hash].end # "replaced" => ClaimStatus.before \subseteq Claimed

\* A claim that is shown as ended, with no way to check it again, has ended: its
\* transaction can no longer be included, and one that is said to have claimed
\* nothing paid no row of the batch (BridgePage.tsx follow).
OutcomeIsFinal ==
    tx.phase \in {"done", "error"} /\ tx.hash # None /\ ~ClaimStatus.checkAgain =>
        /\ sent[tx.hash].end # "open"
        /\ tx.phase = "error" => \A r \in tx.batch : payer[r] # tx.hash

=============================================================================
