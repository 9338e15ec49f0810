------------------------------ MODULE VaultPage ------------------------------
(***************************************************************************)
(* /vault/<address>: the forms of one governor vault and the transactions  *)
(* they send (src/frontend/src/vault/VaultActions.tsx, VaultDetail.tsx,    *)
(* VaultPage.tsx, useVaultSigner.ts, release.ts).                          *)
(*                                                                         *)
(* The wallet may switch to another account between any two steps.  The    *)
(* forms stay on the page if that account's balances are cached, and are   *)
(* put up anew otherwise; what they have started goes on either way, with  *)
(* the account and the amounts it was started with.                        *)
(***************************************************************************)
EXTENDS Wallet, FiniteSets

CONSTANTS
    Holders,      \* addresses that may connect, receive and govern
    Stake,        \* what one address holds at first, in the vault and outside
    MaxFlows,     \* bound: forms submitted up to the wallet
    MaxVaultMoves \* bound: changes of account, steps of others, and what goes wrong

ASSUME VaultAssumption ==
    /\ None \notin Holders
    /\ Stake \in Nat \ {0} /\ MaxFlows \in Nat /\ MaxVaultMoves \in Nat

VARIABLES
    vault,       \* the contracts: held, tokens, allowance per address; governor, feeBps
    signer,      \* the connected account, or None
    detail,      \* per account, what the page last read of the vault for it, or None
    released,    \* the addresses whose release localStorage has
    form,        \* the withdrawal or hand-over that waits in a dialog, or None
    flows,       \* what the forms have started, in order
    vaultMoves   \* steps against MaxVaultMoves so far

vaultVars == <<vault, signer, detail, released, form, flows, vaultMoves>>

Values == 1 .. Stake

\* A transaction the page asks for, and the form whose state shows it.
Call == [kind : {"withdraw", "approve", "deposit", "setFee", "transfer"},
         value : 0 .. Stake, to : Holders \cup {None}]

\* ticked (history) is what the dialog's box was ticked for.
FormState == [step : {"release", "recipient", "governor"}, value : 0 .. Stake,
              to : Holders \cup {None}, agreed : BOOLEAN,
              ticked : {None} \cup (Holders \X (0 .. Stake))]

\* calls are those left to send; shown is cleared when the form it is of goes.
\* The rest is history: the account's funds changed otherwise since the flow's
\* last transaction, or the wallet put another transaction in its place.
Flow == [shows : {"tx", "governorTx"}, me : Holders, calls : Seq(Call),
         phase : {"wallet", "pending", "done", "error"}, open : BOOLEAN, shown : BOOLEAN,
         steps : 1 .. 2, ticked : {None} \cup (Holders \X (0 .. Stake)),
         disturbed : BOOLEAN]

\* All there is, in the vault and outside, is what the first holder had.
Balances == [Holders -> 0 .. 2 * Stake]

VaultTypeOK ==
    /\ vault.held \in Balances /\ vault.tokens \in Balances
    /\ vault.allowance \in [Holders -> 0 .. Stake]
    /\ vault.governor \in Holders /\ vault.feeBps \in 0 .. 1
    /\ signer \in Holders \cup {None}
    /\ \A a \in Holders : detail[a] = None \/ DOMAIN detail[a] = DOMAIN vault
    /\ released \subseteq Holders
    /\ form \in FormState \cup {None}
    /\ flows \in Seq(Flow)
    /\ vaultMoves \in 0 .. MaxVaultMoves

VaultInit ==
    /\ \E a \in Holders :
          vault = [held |-> [b \in Holders |-> IF b = a THEN Stake ELSE 0],
                   tokens |-> [b \in Holders |-> IF b = a THEN Stake ELSE 0],
                   allowance |-> [b \in Holders |-> 0], governor |-> a, feeBps |-> 0]
    /\ signer = None
    /\ detail = [a \in Holders |-> None]
    /\ released = {}
    /\ form = None
    /\ flows = <<>>
    /\ vaultMoves = 0

-----------------------------------------------------------------------------
(* The vault and the token (abi.ts).                                       *)

Accepted(call, me) ==
    CASE call.kind = "withdraw" -> call.value <= vault.held[me]
      [] call.kind = "deposit" -> call.value <= vault.tokens[me] /\ call.value <= vault.allowance[me]
      [] call.kind = "approve" -> TRUE
      [] OTHER -> vault.governor = me

Executed(call, me) ==
    CASE call.kind = "withdraw" ->
            [vault EXCEPT !.held[me] = @ - call.value, !.tokens[call.to] = @ + call.value]
      [] call.kind = "deposit" ->
            [vault EXCEPT !.held[me] = @ + call.value, !.tokens[me] = @ - call.value,
                          !.allowance[me] = @ - call.value]
      [] call.kind = "approve" -> [vault EXCEPT !.allowance[me] = call.value]
      [] call.kind = "setFee" -> [vault EXCEPT !.feeBps = call.value]
      [] call.kind = "transfer" -> [vault EXCEPT !.governor = call.to]

-----------------------------------------------------------------------------
(* What the page reads, and which forms it has.                             *)

VaultCounted == vaultMoves < MaxVaultMoves /\ vaultMoves' = vaultMoves + 1

\* Both multicalls are back. A read that failed within one leaves zeros.
ReadVaultDetail ==
    /\ signer # None
    /\ \/ /\ detail' = [detail EXCEPT ![signer] = vault]
          /\ UNCHANGED vaultMoves
       \/ /\ vault.allowance[signer] # 0
          /\ detail' = [detail EXCEPT ![signer] = [vault EXCEPT !.allowance[signer] = 0]]
          /\ VaultCounted
    /\ detail' # detail
    /\ UNCHANGED <<vault, signer, released, form, flows>>

\* The account's forms are on the page.
Mounted == signer # None /\ detail[signer] # None

IsGovernor == Mounted /\ detail[signer].governor = signer

Hidden(fs) == [i \in DOMAIN fs |-> [fs[i] EXCEPT !.shown = FALSE]]

\* The form in a dialog is gone with the forms, or with the governor's alone.
Kept(a) ==
    /\ form # None
    /\ a # None
    /\ detail[a] # None
    /\ form.step = "governor" => detail[a].governor = a

\* Another account is connected or picked, or none. The first is not counted.
SignerChanges(a) ==
    /\ a # signer
    /\ IF signer = None THEN UNCHANGED vaultMoves ELSE VaultCounted
    /\ signer' = a
    /\ form' = IF Kept(a) THEN form ELSE None
    /\ flows' = IF a # None /\ detail[a] # None THEN flows ELSE Hidden(flows)
    /\ UNCHANGED <<vault, detail, released>>

\* Of a deposit's two transactions one is still to come.
Disturbed(f) == [f EXCEPT !.disturbed = @ \/ (f.steps = 2 /\ f.phase \in {"wallet", "pending"})]

\* The account moves tokens or changes the allowance somewhere else.
OthersMove(a) ==
    /\ VaultCounted
    /\ \/ vault.tokens[a] > 0 /\ vault' = [vault EXCEPT !.tokens[a] = 0]
       \/ vault.allowance[a] > 0 /\ vault' = [vault EXCEPT !.allowance[a] = 0]
    /\ flows' = [i \in DOMAIN flows |-> IF flows[i].me = a THEN Disturbed(flows[i]) ELSE flows[i]]
    /\ UNCHANGED <<signer, detail, released, form>>

-----------------------------------------------------------------------------
(* Transactions: useTx and the signer's send.                               *)

Sending(shows) ==
    \E i \in DOMAIN flows :
        flows[i].shown /\ flows[i].shows = shows /\ flows[i].phase \in {"wallet", "pending"}

Start(shows, me, calls, ticked) ==
    /\ Len(flows) < MaxFlows
    /\ flows' = Append(flows,
          [shows |-> shows, me |-> me, calls |-> calls, phase |-> "wallet", open |-> FALSE,
           shown |-> TRUE, steps |-> Len(calls), ticked |-> ticked, disturbed |-> FALSE])

\* The wallet asks; the account the flow was started with signs, or does not.
SendCall(i) ==
    /\ flows[i].phase = "wallet"
    /\ flows' = [flows EXCEPT ![i].phase = "pending", ![i].open = TRUE]
    /\ UNCHANGED <<vault, signer, detail, released, form, vaultMoves>>

\* The wallet refuses, or its answer is lost after it sent.
FailSend(i) ==
    /\ flows[i].phase = "wallet"
    /\ \E open \in BOOLEAN :
          flows' = [flows EXCEPT ![i].phase = "error", ![i].open = open]
    /\ VaultCounted
    /\ UNCHANGED <<vault, signer, detail, released, form>>

\* What comes after a receipt that succeeded: the next transaction of the form.
Mutant_Followed(f) ==
    [f EXCEPT !.phase = IF Len(f.calls) > 1 THEN "wallet" ELSE "pending",
              !.calls = IF Len(f.calls) > 1 THEN Tail(f.calls) ELSE f.calls, !.open = TRUE]

Followed(f) ==
    IF Len(f.calls) > 1
    THEN [f EXCEPT !.phase = "wallet", !.calls = Tail(f.calls), !.open = FALSE]
    ELSE [f EXCEPT !.phase = "done", !.open = FALSE]

\* Another transaction of an account disturbs its other flows.
Disturb(fs, i) ==
    [j \in DOMAIN fs |->
        IF j # i /\ fs[j].me = fs[i].me THEN Disturbed(fs[j]) ELSE fs[j]]

\* The network includes it. One that is still waited for gets its receipt.
IncludeCall(i) ==
    /\ flows[i].open
    /\ LET f == flows[i]
           call == Head(f.calls)
           ok == Accepted(call, f.me)
       IN  /\ vault' = IF ok THEN Executed(call, f.me) ELSE vault
           /\ flows' = Disturb([flows EXCEPT ![i] =
                 IF f.phase = "error" THEN [f EXCEPT !.open = FALSE]
                 ELSE IF ok THEN Followed(f)
                 ELSE [f EXCEPT !.phase = "error", !.open = FALSE]], i)
    /\ UNCHANGED <<signer, detail, released, form, vaultMoves>>

\* The wallet put another transaction in its place: its receipt is a success.
ReplaceCall(i) ==
    /\ flows[i].open
    /\ flows' = [flows EXCEPT ![i] =
          IF flows[i].phase = "error" THEN [@ EXCEPT !.open = FALSE]
          ELSE Disturbed(Followed(@))]
    /\ VaultCounted
    /\ UNCHANGED <<vault, signer, detail, released, form>>

\* Waiting took longer than the timeout, or the RPC failed.
GiveUp(i) ==
    /\ flows[i].phase = "pending"
    /\ flows' = [flows EXCEPT ![i].phase = "error"]
    /\ VaultCounted
    /\ UNCHANGED <<vault, signer, detail, released, form>>

-----------------------------------------------------------------------------
(* The withdrawal form and its two dialogs, which are modal.                *)

Recipient(f) == IF f.to = None THEN signer ELSE f.to

ToOther(f) == Recipient(f) # signer

HasAcceptedRelease(a) == a \in released

SendWithdraw(f) ==
    /\ form' = None
    /\ Start("tx", signer, <<[kind |-> "withdraw", value |-> f.value, to |-> Recipient(f)]>>, f.ticked)

\* Once the release is agreed to, the withdrawal is sent.
Mutant_SkipsRecipient(f, after) ==
    IF after = "submit" /\ ~HasAcceptedRelease(signer)
    THEN form' = [f EXCEPT !.step = "release", !.agreed = FALSE] /\ UNCHANGED flows
    ELSE IF after = "submit" /\ ToOther(f)
         THEN form' = [f EXCEPT !.step = "recipient", !.ticked = None] /\ UNCHANGED flows
         ELSE SendWithdraw(f)

Proceed(f, after) ==
    IF after = "submit" /\ ~HasAcceptedRelease(signer)
    THEN form' = [f EXCEPT !.step = "release", !.agreed = FALSE] /\ UNCHANGED flows
    ELSE IF after # "recipient" /\ ToOther(f)
         THEN form' = [f EXCEPT !.step = "recipient", !.ticked = None] /\ UNCHANGED flows
         ELSE SendWithdraw(f)

\* An amount within what was read of the account's balance; an address that is
\* neither the vault nor the token.
SubmitWithdraw(value, to) ==
    /\ Mounted
    /\ form = None
    /\ ~Sending("tx")
    /\ value <= detail[signer].held[signer]
    /\ Proceed([step |-> "release", value |-> value, to |-> to, agreed |-> FALSE, ticked |-> None],
               "submit")
    /\ UNCHANGED <<vault, signer, detail, released, vaultMoves>>

\* The dialog's box is ticked or cleared; the button takes a ticked one.
AgreeToRelease ==
    /\ form # None
    /\ form.step = "release"
    /\ \/ form' = [form EXCEPT !.agreed = ~@] /\ UNCHANGED <<released, flows>>
       \/ form.agreed /\ released' = released \cup {signer} /\ Proceed(form, "release")
    /\ UNCHANGED <<vault, signer, detail, vaultMoves>>

\* The same box of the other dialogs, ticked for what they show by then.
Toggle(shown) ==
    form' = [form EXCEPT !.ticked = IF @ = None THEN shown ELSE None]

ConfirmRecipient ==
    /\ form # None
    /\ form.step = "recipient"
    /\ \/ Toggle(<<Recipient(form), form.value>>) /\ UNCHANGED flows
       \/ form.ticked # None /\ Proceed(form, "recipient")
    /\ UNCHANGED <<vault, signer, detail, released, vaultMoves>>

CancelDialog ==
    /\ form # None
    /\ form' = None
    /\ UNCHANGED <<vault, signer, detail, released, flows, vaultMoves>>

-----------------------------------------------------------------------------
(* The deposit form: an approval of exactly the amount, when what was read   *)
(* of the allowance does not cover it, then the deposit.                    *)

SubmitDeposit(value) ==
    /\ Mounted
    /\ form = None
    /\ ~Sending("tx")
    /\ value <= detail[signer].tokens[signer]
    /\ LET deposit == [kind |-> "deposit", value |-> value, to |-> signer]
           approve == [kind |-> "approve", value |-> value, to |-> None]
       IN  Start("tx", signer,
                 IF detail[signer].allowance[signer] < value THEN <<approve, deposit>> ELSE <<deposit>>, None)
    /\ UNCHANGED <<vault, signer, detail, released, form, vaultMoves>>

-----------------------------------------------------------------------------
(* The governor's forms. A fee of 0 returns to the Harmony commission.       *)

SetFee(bps) ==
    /\ IsGovernor
    /\ form = None
    /\ ~Sending("governorTx")
    /\ bps # detail[signer].feeBps
    /\ Start("governorTx", signer, <<[kind |-> "setFee", value |-> bps, to |-> None]>>, None)
    /\ UNCHANGED <<vault, signer, detail, released, form, vaultMoves>>

SubmitTransfer(next) ==
    /\ IsGovernor
    /\ form = None
    /\ ~Sending("governorTx")
    /\ next # detail[signer].governor
    /\ form' = [step |-> "governor", value |-> 0, to |-> next, agreed |-> FALSE, ticked |-> None]
    /\ UNCHANGED <<vault, signer, detail, released, flows, vaultMoves>>

Transfer ==
    /\ form # None
    /\ form.step = "governor"
    /\ \/ Toggle(<<form.to, 0>>) /\ UNCHANGED flows
       \/ /\ form.ticked # None
          /\ form' = None
          /\ Start("governorTx", signer, <<[kind |-> "transfer", value |-> 0, to |-> form.to]>>, form.ticked)
    /\ UNCHANGED <<vault, signer, detail, released, vaultMoves>>

-----------------------------------------------------------------------------

VaultNext ==
    \/ ReadVaultDetail
    \/ \E a \in Holders \cup {None} : SignerChanges(a)
    \/ \E a \in Holders : OthersMove(a)
    \/ \E i \in DOMAIN flows :
          SendCall(i) \/ FailSend(i) \/ IncludeCall(i) \/ ReplaceCall(i) \/ GiveUp(i)
    \/ \E value \in Values, to \in Holders \cup {None} : SubmitWithdraw(value, to)
    \/ AgreeToRelease \/ ConfirmRecipient \/ CancelDialog
    \/ \E value \in Values : SubmitDeposit(value)
    \/ \E bps \in 0 .. 1 : SetFee(bps)
    \/ \E next \in Holders : SubmitTransfer(next)
    \/ Transfer

VaultSpec == VaultInit /\ [][VaultNext]_vaultVars

-----------------------------------------------------------------------------

\* ONE that leaves an account for another address, and the governor role, go to
\* the address and in the amount a dialog showed when its box was ticked,
\* whichever account was connected meanwhile (VaultActions.tsx proceed).
MovesAreTicked ==
    \A i \in DOMAIN flows : \A j \in DOMAIN flows[i].calls :
        LET call == flows[i].calls[j]
        IN  (call.kind = "withdraw" /\ call.to # flows[i].me) \/ call.kind = "transfer"
            => flows[i].ticked = <<call.to, call.value>>

\* The second of a deposit's two transactions finds the allowance the first one
\* set: it is not asked for before that one is included, and is asked of the
\* same account for the same amount, unless something else used the account or
\* the wallet replaced the approval (VaultActions.tsx DepositForm).
ApprovalComesFirst ==
    \A i \in DOMAIN flows :
        LET f == flows[i]
        IN  /\ f.steps = 2 /\ Len(f.calls) = 1 /\ f.phase \in {"wallet", "pending"} /\ ~f.disturbed
            => vault.allowance[f.me] = Head(f.calls).value

\* Stated by README.md: before the first withdrawal from an address the signer
\* must agree to the release text, which is remembered per address.
ReleaseComesFirst ==
    \A i \in DOMAIN flows :
        Head(flows[i].calls).kind = "withdraw" => flows[i].me \in released

=============================================================================
