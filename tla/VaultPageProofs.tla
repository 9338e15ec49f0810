--------------------------- MODULE VaultPageProofs ---------------------------
(***************************************************************************)
(* Proofs about the vault page: VaultPage for any addresses, stakes and    *)
(* numbers of forms, VaultFigures for any events of any number of blocks,  *)
(* however the endpoint splits the ranges.                                 *)
(***************************************************************************)
EXTENDS VaultPage, VaultFigures, BridgeHistoryProofs, Integers, FiniteSetTheorems,
    SequenceTheorems, TLAPS

\* The contracts, without bounds on what they hold.
VaultState ==
    [held : [Holders -> Int], tokens : [Holders -> Int], allowance : [Holders -> Int],
     governor : Holders \cup {None}, feeBps : Int]

VaultTypeInv ==
    /\ vault \in VaultState
    /\ signer \in Holders \cup {None}
    /\ form \in FormState \cup {None}
    /\ flows \in Seq(Flow)

\* A dialog's tick is of what the dialog sends; a form waits for a connected account.
FormInv ==
    form # None =>
        /\ signer # None
        /\ form.step = "release" => form.ticked = None
        /\ form.step = "recipient" => form.to # None /\ form.ticked \in {None, <<form.to, form.value>>}
        /\ form.step = "governor" => form.to # None /\ form.ticked \in {None, <<form.to, 0>>}

\* A call that moves something to another was ticked.
Ticked(f) ==
    \A j \in DOMAIN f.calls :
        LET call == f.calls[j]
        IN  (call.kind = "withdraw" /\ call.to # f.me) \/ call.kind = "transfer"
            => f.ticked = <<call.to, call.value>>

\* A call has the address it moves something to, and a fee that is one.
Proper(c) ==
    /\ c.kind \in {"withdraw", "transfer"} => c.to \in Holders
    /\ c.kind = "setFee" => c.value \in 0 .. 1

\* What a form has left to send: one call, or an approval and its deposit.
CallsInv(f) ==
    \/ \E c \in Call : f.calls = <<c>> /\ Proper(c)
    \/ \E c, d \in Call : /\ f.calls = <<c, d>>
                          /\ c.kind = "approve" /\ d.kind = "deposit" /\ c.value = d.value

\* The allowance of a deposit whose approval is done.
Approved(f, allowance) ==
    f.steps = 2 /\ Len(f.calls) = 1 /\ f.phase \in {"wallet", "pending"} /\ ~f.disturbed
        => allowance[f.me] = f.calls[1].value

FlowInv(f, allowance) == Ticked(f) /\ CallsInv(f) /\ Approved(f, allowance)

VaultInv ==
    /\ VaultTypeInv
    /\ FormInv
    /\ \A i \in DOMAIN flows : FlowInv(flows[i], vault.allowance)

-----------------------------------------------------------------------------

(* Lemmas about flows.                                                     *)

\* A form starts a flow that satisfies the invariant: all still do.
LEMMA StartKeeps ==
    ASSUME VaultInv, NEW f \in Flow, FlowInv(f, vault.allowance),
           flows' = Append(flows, f), vault' = vault
    PROVE  /\ flows' \in Seq(Flow)
           /\ \A i \in DOMAIN flows' : FlowInv(flows'[i], vault'.allowance)
<1>1. flows \in Seq(Flow)
  BY DEF VaultInv, VaultTypeInv
<1>2. flows' \in Seq(Flow) /\ DOMAIN flows' = 1 .. Len(flows) + 1
  BY <1>1
<1>3. ASSUME NEW i \in DOMAIN flows'
      PROVE  FlowInv(flows'[i], vault'.allowance)
  <2>1. CASE i = Len(flows) + 1
    BY <1>1, <2>1
  <2>2. CASE i \in 1 .. Len(flows)
    <3>1. i \in DOMAIN flows /\ flows'[i] = flows[i]
      BY <1>1, <2>2
    <3>2. QED
      BY <3>1 DEF VaultInv
  <2>3. QED
    BY <1>2, <2>1, <2>2
<1>4. QED
  BY <1>2, <1>3

\* A flow that is disturbed needs no allowance.
LEMMA DisturbedKeeps ==
    ASSUME NEW f \in Flow, NEW a, NEW b, FlowInv(f, a)
    PROVE  Disturbed(f) \in Flow /\ FlowInv(Disturbed(f), b)
<1> DEFINE g == Disturbed(f)
<1>1. g \in Flow
  BY DEF Disturbed, Flow
<1>2. /\ g.calls = f.calls /\ g.me = f.me /\ g.ticked = f.ticked /\ g.steps = f.steps
      /\ g.phase = f.phase
      /\ f.steps = 2 /\ f.phase \in {"wallet", "pending"} => g.disturbed
  BY DEF Disturbed, Flow
<1>3. QED
  BY <1>1, <1>2 DEF FlowInv, Ticked, CallsInv, Approved

\* So does one that has ended, or whose account's allowance is as it was.
LEMMA SameCallsKeeps ==
    ASSUME NEW f \in Flow, NEW g \in Flow, NEW a, NEW b, FlowInv(f, a),
           g.calls = f.calls, g.me = f.me, g.ticked = f.ticked, g.steps = f.steps,
           \/ g.phase \in {"done", "error"}
           \/ /\ g.phase \in {"wallet", "pending"} => f.phase \in {"wallet", "pending"}
              /\ g.disturbed = f.disturbed
              /\ a[f.me] = b[f.me]
    PROVE  FlowInv(g, b)
  BY DEF FlowInv, Ticked, CallsInv, Approved

\* A flow that fails or has failed.
LEMMA FailedKeeps ==
    ASSUME NEW f \in Flow, NEW a, NEW b, FlowInv(f, a), NEW open \in BOOLEAN,
           NEW g, g = [f EXCEPT !.phase = "error", !.open = open]
    PROVE  g \in Flow /\ FlowInv(g, b) /\ g.me = f.me
<1>1. g \in Flow
  BY DEF Flow
<1>2. FlowInv(g, b)
  BY <1>1, SameCallsKeeps DEF Flow
<1>3. QED
  BY <1>1, <1>2 DEF Flow

\* What follows a receipt: nothing, or the deposit of what was approved.
LEMMA FollowedKeeps ==
    ASSUME NEW f \in Flow, NEW a, NEW b, FlowInv(f, a),
           Len(f.calls) = 2 => b[f.me] = Head(f.calls).value
    PROVE  Followed(f) \in Flow /\ FlowInv(Followed(f), b) /\ Followed(f).me = f.me
<1>1. CASE \E c \in Call : f.calls = <<c>> /\ Proper(c)
  <2>1. Len(f.calls) = 1
    BY <1>1
  <2>2. Followed(f) = [f EXCEPT !.phase = "done", !.open = FALSE]
    BY <2>1 DEF Followed
  <2>3. Followed(f) \in Flow
    BY <2>2 DEF Flow
  <2>4. QED
    BY <2>2, <2>3, SameCallsKeeps DEF Flow
<1>2. ASSUME NEW c \in Call, NEW d \in Call, f.calls = <<c, d>>,
             c.kind = "approve", d.kind = "deposit", c.value = d.value
      PROVE  Followed(f) \in Flow /\ FlowInv(Followed(f), b) /\ Followed(f).me = f.me
  <2> DEFINE g == [f EXCEPT !.phase = "wallet", !.calls = <<d>>, !.open = FALSE]
  <2>1. Len(f.calls) = 2 /\ Tail(f.calls) = <<d>> /\ Head(f.calls) = c
    BY <1>2
  <2>2. Followed(f) = g
    <3>1. Len(f.calls) > 1
      BY <2>1
    <3>2. Followed(f) = [f EXCEPT !.phase = "wallet", !.calls = Tail(f.calls), !.open = FALSE]
      BY <3>1 DEF Followed
    <3>3. QED
      BY <2>1, <3>2
  <2>3. <<d>> \in Seq(Call)
    OBVIOUS
  <2>4. /\ g \in Flow /\ g.calls = <<d>> /\ g.me = f.me
        /\ g.ticked = f.ticked /\ g.phase = "wallet"
    BY <2>3 DEF Flow
  <2>5. Ticked(g)
    BY <1>2, <2>4 DEF Ticked
  <2>6. CallsInv(g)
    BY <1>2, <2>4 DEF CallsInv, Proper
  <2>7. Approved(g, b)
    BY <1>2, <2>1, <2>4 DEF Approved
  <2>8. QED
    BY <2>2, <2>4, <2>5, <2>6, <2>7 DEF FlowInv
<1>3. QED
  BY <1>1, <1>2 DEF FlowInv, CallsInv

-----------------------------------------------------------------------------
(* The steps.                                                              *)

LEMMA VaultInitHolds == VaultInit => VaultInv
  BY VaultAssumption DEF VaultInit, VaultInv, VaultTypeInv, FormInv, VaultState

\* The account changes, or what is read of the vault.
LEMMA SignerSteps ==
    ASSUME VaultInv, NEW a \in Holders \cup {None}, SignerChanges(a)
    PROVE  VaultInv'
<1>1. /\ flows' \in Seq(Flow) /\ DOMAIN flows' = DOMAIN flows
      /\ \A i \in DOMAIN flows : FlowInv(flows'[i], vault.allowance)
  <2>1. CASE flows' = flows
    BY <2>1 DEF VaultInv, VaultTypeInv
  <2>2. CASE flows' = Hidden(flows)
    <3>1. \A i \in DOMAIN flows : flows[i] \in Flow /\ FlowInv(flows[i], vault.allowance)
      BY DEF VaultInv, VaultTypeInv
    <3>2. flows' = [i \in DOMAIN flows |-> [flows[i] EXCEPT !.shown = FALSE]]
      BY <2>2 DEF Hidden
    <3>3. ASSUME NEW i \in DOMAIN flows
          PROVE  flows'[i] \in Flow /\ FlowInv(flows'[i], vault.allowance)
      <4> DEFINE f == flows[i]
                 g == [f EXCEPT !.shown = FALSE]
      <4>1. flows'[i] = g /\ f \in Flow /\ FlowInv(f, vault.allowance)
        BY <3>1, <3>2
      <4>2. /\ g \in Flow /\ g.calls = f.calls /\ g.me = f.me /\ g.ticked = f.ticked
            /\ g.steps = f.steps /\ g.phase = f.phase /\ g.disturbed = f.disturbed
        BY <4>1 DEF Flow
      <4>. HIDE DEF f, g
      <4>3. FlowInv(g, vault.allowance)
        BY <4>1, <4>2, SameCallsKeeps
      <4>4. QED
        BY <4>1, <4>2, <4>3
    <3>4. QED
      BY <3>2, <3>3 DEF VaultInv, VaultTypeInv
  <2>3. QED
    BY <2>1, <2>2 DEF SignerChanges
<1>2. vault' = vault /\ signer' = a /\ form' = (IF Kept(a) THEN form ELSE None)
  BY DEF SignerChanges
<1>3. VaultTypeInv'
  BY <1>1, <1>2 DEF VaultInv, VaultTypeInv
<1>4. FormInv'
  BY <1>2 DEF VaultInv, FormInv, Kept
<1>5. QED
  BY <1>1, <1>2, <1>3, <1>4 DEF VaultInv

\* The account is used somewhere else.
LEMMA OthersSteps ==
    ASSUME VaultInv, NEW a \in Holders, OthersMove(a)
    PROVE  VaultInv'
<1>1. \A i \in DOMAIN flows : flows[i] \in Flow /\ FlowInv(flows[i], vault.allowance)
  BY DEF VaultInv, VaultTypeInv
<1>2. flows' = [i \in DOMAIN flows |-> IF flows[i].me = a THEN Disturbed(flows[i]) ELSE flows[i]]
  BY DEF OthersMove
<1>3. vault' \in VaultState /\ \A b \in Holders : b # a => vault'.allowance[b] = vault.allowance[b]
  <2>1. vault \in VaultState
    BY DEF VaultInv, VaultTypeInv
  <2>2. CASE vault' = [vault EXCEPT !.tokens[a] = 0]
    BY <2>1, <2>2 DEF VaultState
  <2>3. CASE vault' = [vault EXCEPT !.allowance[a] = 0]
    BY <2>1, <2>3 DEF VaultState
  <2>4. QED
    BY <2>2, <2>3 DEF OthersMove
<1>4. ASSUME NEW i \in DOMAIN flows
      PROVE  flows'[i] \in Flow /\ FlowInv(flows'[i], vault'.allowance)
  <2>1. CASE flows[i].me = a
    BY <1>1, <1>2, <2>1, DisturbedKeeps
  <2>2. CASE flows[i].me # a
    <3>1. vault'.allowance[flows[i].me] = vault.allowance[flows[i].me]
      BY <1>1, <1>3, <2>2 DEF Flow
    <3>2. flows'[i] = flows[i]
      BY <1>2, <2>2
    <3>3. QED
      BY <1>1, <3>1, <3>2, SameCallsKeeps
  <2>3. QED
    BY <2>1, <2>2
<1>5. flows' \in Seq(Flow) /\ DOMAIN flows' = DOMAIN flows
  BY <1>2, <1>4 DEF VaultInv, VaultTypeInv
<1>6. QED
  BY <1>3, <1>4, <1>5 DEF OthersMove, VaultInv, VaultTypeInv, FormInv

\* A flow is sent, fails, is replaced or is given up: the contracts do not move.
LEMMA TransactionSteps ==
    ASSUME VaultInv, NEW i \in DOMAIN flows,
           SendCall(i) \/ FailSend(i) \/ ReplaceCall(i) \/ GiveUp(i)
    PROVE  VaultInv'
<1> DEFINE f == flows[i]
<1>1. f \in Flow /\ FlowInv(f, vault.allowance) /\ flows \in Seq(Flow)
  BY DEF VaultInv, VaultTypeInv
<1>2. vault' = vault /\ signer' = signer /\ form' = form
  BY DEF SendCall, FailSend, ReplaceCall, GiveUp
<1>3. ASSUME NEW g, flows' = [flows EXCEPT ![i] = g], g \in Flow, FlowInv(g, vault.allowance)
      PROVE  VaultInv'
  <2>1. flows' \in Seq(Flow) /\ DOMAIN flows' = DOMAIN flows
    BY <1>1, <1>3
  <2>2. \A j \in DOMAIN flows : FlowInv(flows'[j], vault.allowance)
    BY <1>3 DEF VaultInv
  <2>3. QED
    BY <1>2, <2>1, <2>2 DEF VaultInv, VaultTypeInv, FormInv
<1>4. CASE SendCall(i)
  <2> DEFINE g == [f EXCEPT !.phase = "pending", !.open = TRUE]
  <2>1. flows' = [flows EXCEPT ![i] = g] /\ f.phase = "wallet"
    BY <1>4 DEF SendCall
  <2>2. g \in Flow
    BY <1>1 DEF Flow
  <2>3. FlowInv(g, vault.allowance)
    BY <1>1, <2>1, <2>2, SameCallsKeeps DEF Flow
  <2>4. QED
    BY <1>3, <2>1, <2>2, <2>3
<1>5. CASE FailSend(i) \/ GiveUp(i)
  <2>1. PICK open \in BOOLEAN :
          flows' = [flows EXCEPT ![i] = [f EXCEPT !.phase = "error", !.open = open]]
    <3>1. CASE FailSend(i)
      BY <1>1, <3>1 DEF FailSend
    <3>2. CASE GiveUp(i)
      BY <1>1, <3>2 DEF GiveUp, Flow
    <3>. QED  BY <1>5, <3>1, <3>2
  <2>. PICK h : h = [f EXCEPT !.phase = "error", !.open = open]
    OBVIOUS
  <2>2. h \in Flow /\ FlowInv(h, vault.allowance)
    <3>. HIDE DEF f
    <3>. QED  BY <1>1, FailedKeeps
  <2>3. QED
    BY <1>3, <2>1, <2>2
<1>6. CASE ReplaceCall(i)
  <2>1. CASE f.phase = "error"
    <3> DEFINE g == [f EXCEPT !.phase = "error", !.open = FALSE]
    <3>1. flows' = [flows EXCEPT ![i] = g]
      BY <1>1, <1>6, <2>1 DEF ReplaceCall, Flow
    <3>2. QED
      BY <1>1, <1>3, <3>1, FailedKeeps
  <2>2. CASE f.phase # "error"
    <3> DEFINE g == Disturbed(Followed(f))
               b == [vault.allowance EXCEPT ![f.me] = Head(f.calls).value]
    <3>1. flows' = [flows EXCEPT ![i] = g]
      BY <1>6, <2>2 DEF ReplaceCall
    <3>2. Len(f.calls) = 2 => b[f.me] = Head(f.calls).value
      <4>1. f.me \in DOMAIN vault.allowance
        BY <1>1 DEF VaultInv, VaultTypeInv, VaultState, Flow
      <4>2. QED
        BY <4>1
    <3> HIDE DEF b
    <3>3. Followed(f) \in Flow /\ FlowInv(Followed(f), b)
      BY <1>1, <3>2, FollowedKeeps
    <3>4. g \in Flow /\ FlowInv(g, vault.allowance)
      BY <3>3, DisturbedKeeps
    <3>5. QED
      BY <1>3, <3>1, <3>4
  <2>3. QED
    BY <2>1, <2>2
<1>7. QED
  BY <1>4, <1>5, <1>6

\* A transaction is included: only its account's allowance may change, and to
\* what an approval says.
LEMMA ExecutedIsState ==
    ASSUME vault \in VaultState, NEW call \in Call, NEW me \in Holders
    PROVE  /\ Executed(call, me) \in VaultState
           /\ \A b \in Holders : b # me => Executed(call, me).allowance[b] = vault.allowance[b]
           /\ call.kind = "approve" => Executed(call, me).allowance[me] = call.value
<1> DEFINE w == Executed(call, me)
<1>1. /\ vault.held \in [Holders -> Int] /\ vault.tokens \in [Holders -> Int]
      /\ vault.allowance \in [Holders -> Int] /\ vault.governor \in Holders \cup {None}
      /\ vault.feeBps \in Int
      /\ call.value \in Int /\ call.to \in Holders \cup {None}
  BY VaultAssumption DEF VaultState, Call
<1>2. CASE call.kind = "withdraw"
  <2> DEFINE h == [vault.held EXCEPT ![me] = @ - call.value]
             t == [vault.tokens EXCEPT ![call.to] = @ + call.value]
  <2>1. w = [vault EXCEPT !.held = h, !.tokens = t]
    BY <1>2 DEF Executed
  <2>2. h \in [Holders -> Int]
    BY <1>1
  <2>3. t \in [Holders -> Int]
    <3>1. CASE call.to = None
      BY <1>1, <3>1, VaultAssumption
    <3>2. CASE call.to \in Holders
      BY <1>1, <3>2
    <3>3. QED
      BY <1>1, <3>1, <3>2
  <2>4. QED
    BY <1>1, <1>2, <2>1, <2>2, <2>3 DEF VaultState
<1>3. CASE call.kind = "deposit"
  <2> DEFINE h == [vault.held EXCEPT ![me] = @ + call.value]
             t == [vault.tokens EXCEPT ![me] = @ - call.value]
             l == [vault.allowance EXCEPT ![me] = @ - call.value]
  <2>1. w = [vault EXCEPT !.held = h, !.tokens = t, !.allowance = l]
    BY <1>3 DEF Executed
  <2>2. /\ h \in [Holders -> Int] /\ t \in [Holders -> Int] /\ l \in [Holders -> Int]
        /\ \A b \in Holders : b # me => l[b] = vault.allowance[b]
    BY <1>1
  <2>3. QED
    BY <1>1, <1>3, <2>1, <2>2 DEF VaultState
<1>4. CASE call.kind = "approve"
  <2>1. w = [vault EXCEPT !.allowance[me] = call.value]
    BY <1>4 DEF Executed
  <2>2. QED
    BY <1>1, <1>4, <2>1 DEF VaultState
<1>5. CASE call.kind = "setFee"
  <2>1. w = [vault EXCEPT !.feeBps = call.value]
    BY <1>5 DEF Executed
  <2>2. QED
    BY <1>1, <1>5, <2>1 DEF VaultState
<1>6. CASE call.kind = "transfer"
  <2>1. w = [vault EXCEPT !.governor = call.to]
    BY <1>6 DEF Executed
  <2>2. QED
    BY <1>1, <1>6, <2>1 DEF VaultState
<1>7. QED
  BY <1>2, <1>3, <1>4, <1>5, <1>6 DEF Call

LEMMA IncludeStep ==
    ASSUME VaultInv, NEW i \in DOMAIN flows, IncludeCall(i)
    PROVE  VaultInv'
<1> DEFINE f == flows[i]
           call == Head(f.calls)
           ok == Accepted(call, f.me)
           g == IF f.phase = "error" THEN [f EXCEPT !.open = FALSE]
                ELSE IF ok THEN Followed(f) ELSE [f EXCEPT !.phase = "error", !.open = FALSE]
           fs == [flows EXCEPT ![i] = g]
<1>1. \A j \in DOMAIN flows : flows[j] \in Flow /\ FlowInv(flows[j], vault.allowance)
  BY DEF VaultInv, VaultTypeInv
<1>2. call \in Call /\ (Len(f.calls) = 2 => call.kind = "approve")
  <2>1. CallsInv(f)
    BY <1>1 DEF FlowInv
  <2>2. QED
    BY <2>1 DEF CallsInv
<1>3. /\ vault' = (IF ok THEN Executed(call, f.me) ELSE vault)
      /\ flows' = Disturb(fs, i) /\ signer' = signer /\ form' = form
  BY DEF IncludeCall
<1>4. /\ vault' \in VaultState
      /\ \A b \in Holders : b # f.me => vault'.allowance[b] = vault.allowance[b]
      /\ ok /\ Len(f.calls) = 2 => vault'.allowance[f.me] = call.value
  <2>1. vault \in VaultState /\ f.me \in Holders
    BY <1>1 DEF VaultInv, VaultTypeInv, Flow
  <2>2. QED
    BY <1>2, <1>3, <2>1, ExecutedIsState
<1>5. g \in Flow /\ FlowInv(g, vault'.allowance) /\ g.me = f.me
  <2>1. CASE f.phase # "error" /\ ok
    BY <1>1, <1>4, <2>1, FollowedKeeps
  <2>2. CASE f.phase = "error"
    <3>1. g = [f EXCEPT !.phase = "error", !.open = FALSE]
      BY <1>1, <2>2 DEF Flow
    <3>2. f \in Flow /\ FlowInv(f, vault.allowance)
      BY <1>1
    <3> HIDE DEF f, g
    <3>3. QED
      BY <3>1, <3>2, FailedKeeps
  <2>3. CASE f.phase # "error" /\ ~ok
    <3>1. g = [f EXCEPT !.phase = "error", !.open = FALSE]
      BY <2>3
    <3>2. f \in Flow /\ FlowInv(f, vault.allowance)
      BY <1>1
    <3> HIDE DEF f, g
    <3>3. QED
      BY <3>1, <3>2, FailedKeeps
  <2>4. QED
    BY <2>1, <2>2, <2>3
<1> HIDE DEF g
<1>6. /\ flows' = [j \in DOMAIN flows |-> IF j # i /\ flows[j].me = f.me THEN Disturbed(fs[j]) ELSE fs[j]]
      /\ \A j \in DOMAIN flows : fs[j] = IF j = i THEN g ELSE flows[j]
  BY <1>3, <1>5 DEF Disturb
<1>7. ASSUME NEW j \in DOMAIN flows
      PROVE  flows'[j] \in Flow /\ FlowInv(flows'[j], vault'.allowance)
  <2>1. CASE j = i
    BY <1>5, <1>6, <2>1
  <2>2. CASE j # i /\ flows[j].me = f.me
    <3>1. flows'[j] = Disturbed(flows[j])
      BY <1>6, <2>2
    <3>2. QED
      BY <1>1, <3>1, DisturbedKeeps
  <2>3. CASE j # i /\ flows[j].me # f.me
    <3>1. flows'[j] = flows[j]
      BY <1>6, <2>3
    <3>2. vault'.allowance[flows[j].me] = vault.allowance[flows[j].me]
      BY <1>1, <1>4, <2>3 DEF Flow
    <3>3. QED
      BY <1>1, <3>1, <3>2, SameCallsKeeps
  <2>4. QED
    BY <2>1, <2>2, <2>3
<1>8. flows' \in Seq(Flow) /\ DOMAIN flows' = DOMAIN flows
  BY <1>6, <1>7 DEF VaultInv, VaultTypeInv
<1>9. QED
  BY <1>3, <1>4, <1>7, <1>8 DEF VaultInv, VaultTypeInv, FormInv

-----------------------------------------------------------------------------
(* The forms. What they start is of the account and the amounts of a dialog. *)

LEMMA CallsOf == \A c \in Call : <<c>> \in Seq(Call) /\ Len(<<c>>) = 1
  OBVIOUS

\* A withdrawal is sent from a dialog that ticked it, or to the account itself.
LEMMA SendKeeps ==
    ASSUME VaultInv, NEW f \in FormState, SendWithdraw(f), signer \in Holders, vault' = vault,
           (f.ticked = None /\ ~ToOther(f)) \/ (f.to # None /\ f.ticked = <<f.to, f.value>>)
    PROVE  /\ flows' \in Seq(Flow)
           /\ \A i \in DOMAIN flows' : FlowInv(flows'[i], vault'.allowance)
           /\ form' = None
<1> DEFINE c == [kind |-> "withdraw", value |-> f.value, to |-> Recipient(f)]
           g == [shows |-> "tx", me |-> signer, calls |-> <<c>>, phase |-> "wallet", open |-> FALSE,
                 shown |-> TRUE, steps |-> 1, ticked |-> f.ticked, disturbed |-> FALSE]
<1>1. c \in Call
  BY DEF Recipient, FormState, Call
<1>2. g \in Flow /\ flows' = Append(flows, g)
  BY <1>1, CallsOf DEF SendWithdraw, Start, Flow, FormState
<1>3. Ticked(g)
  BY DEF Ticked, ToOther, Recipient
<1>4. CallsInv(g)
  <2>1. c.to \in Holders
    BY DEF Recipient, FormState
  <2>. QED  BY <1>1, <2>1 DEF CallsInv, Proper
<1>5. Approved(g, vault.allowance)
  BY DEF Approved
<1>6. QED
  BY <1>2, <1>3, <1>4, <1>5, StartKeeps DEF FlowInv, SendWithdraw

LEMMA WithdrawSteps ==
    ASSUME VaultInv, NEW value \in Values, NEW to \in Holders \cup {None},
           SubmitWithdraw(value, to) \/ AgreeToRelease \/ ConfirmRecipient
    PROVE  VaultInv'
<1>1. vault' = vault /\ signer' = signer
  BY DEF SubmitWithdraw, AgreeToRelease, ConfirmRecipient
<1>2. vault \in VaultState /\ signer \in Holders /\ flows \in Seq(Flow)
  BY DEF VaultInv, VaultTypeInv, FormInv, SubmitWithdraw, Mounted, AgreeToRelease, ConfirmRecipient
<1>3. ASSUME form' \in FormState, flows' = flows, FormInv'
      PROVE  VaultInv'
  BY <1>1, <1>2, <1>3 DEF VaultInv, VaultTypeInv
<1>4. ASSUME NEW f \in FormState, SendWithdraw(f),
             (f.ticked = None /\ ~ToOther(f)) \/ (f.to # None /\ f.ticked = <<f.to, f.value>>)
      PROVE  VaultInv'
  <2>1. /\ flows' \in Seq(Flow)
        /\ \A i \in DOMAIN flows' : FlowInv(flows'[i], vault'.allowance)
        /\ form' = None
    BY <1>1, <1>2, <1>4, SendKeeps
  <2>2. QED
    BY <1>1, <1>2, <2>1 DEF VaultInv, VaultTypeInv, FormInv
<1>5. ASSUME NEW f \in FormState, f.step = "release", f.ticked = None, NEW after \in {"submit", "release"},
             Proceed(f, after)
      PROVE  VaultInv'
  <2>1. CASE form' = [f EXCEPT !.step = "release", !.agreed = FALSE] /\ flows' = flows
    <3>1. form' \in FormState
      BY <2>1, <1>5 DEF FormState
    <3>2. FormInv'
      BY <1>1, <1>2, <1>5, <2>1, VaultAssumption DEF FormInv, FormState
    <3>3. QED
      BY <1>3, <2>1, <3>1, <3>2
  <2>2. CASE ToOther(f) /\ form' = [f EXCEPT !.step = "recipient", !.ticked = None] /\ flows' = flows
    <3>1. form' \in FormState
      BY <2>2, <1>5 DEF FormState
    <3>2. f.to # None
      BY <2>2 DEF ToOther, Recipient
    <3>3. FormInv'
      BY <1>1, <1>2, <1>5, <2>2, <3>2, VaultAssumption DEF FormInv, FormState
    <3>4. QED
      BY <1>3, <2>2, <3>1, <3>3
  <2>3. CASE ~ToOther(f) /\ SendWithdraw(f)
    BY <1>4, <1>5, <2>3
  <2>4. CASE after = "submit" /\ ~HasAcceptedRelease(signer)
    BY <1>5, <2>1, <2>4 DEF Proceed
  <2>5. CASE ~(after = "submit" /\ ~HasAcceptedRelease(signer)) /\ ToOther(f)
    <3>1. after # "recipient"
      BY <1>5
    <3>2. QED
      BY <1>5, <2>2, <2>5, <3>1 DEF Proceed
  <2>6. CASE ~(after = "submit" /\ ~HasAcceptedRelease(signer)) /\ ~ToOther(f)
    BY <1>5, <2>3, <2>6 DEF Proceed
  <2>7. QED
    BY <2>4, <2>5, <2>6
<1>6. CASE SubmitWithdraw(value, to)
  <2> DEFINE f == [step |-> "release", value |-> value, to |-> to, agreed |-> FALSE, ticked |-> None]
  <2>1. f \in FormState
    BY VaultAssumption DEF FormState, Values
  <2>2. Proceed(f, "submit")
    BY <1>6 DEF SubmitWithdraw
  <2>3. QED
    BY <1>5, <2>1, <2>2
<1>7. CASE AgreeToRelease
  <2>1. form \in FormState /\ form.step = "release" /\ form.ticked = None
    BY <1>7 DEF AgreeToRelease, VaultInv, VaultTypeInv, FormInv
  <2>2. CASE form' = [form EXCEPT !.agreed = ~@] /\ flows' = flows
    <3>1. form' \in FormState
      BY <2>1, <2>2 DEF FormState
    <3>2. FormInv'
      BY <1>1, <1>2, <2>1, <2>2, VaultAssumption DEF FormInv, FormState
    <3>3. QED
      BY <1>3, <2>2, <3>1, <3>2
  <2>3. CASE Proceed(form, "release")
    BY <1>5, <2>1, <2>3
  <2>4. QED
    BY <1>7, <2>2, <2>3 DEF AgreeToRelease
<1>8. CASE ConfirmRecipient
  <2>1. /\ form \in FormState /\ form.step = "recipient" /\ form.to \in Holders
        /\ form.ticked \in {None, <<form.to, form.value>>} /\ Recipient(form) = form.to
    BY <1>8 DEF ConfirmRecipient, VaultInv, VaultTypeInv, FormInv, FormState, Recipient
  <2>2. ASSUME NEW ticked \in {None, <<form.to, form.value>>},
               form' = [form EXCEPT !.ticked = ticked], flows' = flows
        PROVE  VaultInv'
    <3>1. form' \in FormState
      BY <2>1, <2>2 DEF FormState
    <3>2. FormInv'
      BY <1>1, <1>2, <2>1, <2>2, VaultAssumption DEF FormInv, FormState
    <3>3. QED
      BY <1>3, <2>2, <3>1, <3>2
  <2>3. CASE form.ticked # None /\ Proceed(form, "recipient")
    <3>1. SendWithdraw(form)
      BY <2>3 DEF Proceed
    <3>2. QED
      BY <1>4, <2>1, <2>3, <3>1, VaultAssumption
  <2>4. CASE Toggle(<<Recipient(form), form.value>>) /\ flows' = flows
    BY <2>1, <2>2, <2>4 DEF Toggle
  <2>5. QED
    BY <1>8, <2>3, <2>4 DEF ConfirmRecipient
<1>9. QED
  BY <1>6, <1>7, <1>8

LEMMA DepositStep ==
    ASSUME VaultInv, NEW value \in Values, SubmitDeposit(value)
    PROVE  VaultInv'
<1> DEFINE d == [kind |-> "deposit", value |-> value, to |-> signer]
           c == [kind |-> "approve", value |-> value, to |-> None]
           g(calls) == [shows |-> "tx", me |-> signer, calls |-> calls, phase |-> "wallet",
                        open |-> FALSE, shown |-> TRUE, steps |-> Len(calls), ticked |-> None,
                        disturbed |-> FALSE]
<1>1. /\ vault' = vault /\ signer' = signer /\ form' = form
      /\ vault \in VaultState /\ signer \in Holders /\ flows \in Seq(Flow)
  BY DEF SubmitDeposit, Mounted, VaultInv, VaultTypeInv
<1>2. c \in Call /\ d \in Call
  BY <1>1, VaultAssumption DEF Call, Values
<1>3. CASE flows' = Append(flows, g(<<d>>))
  <2>1. g(<<d>>) \in Flow
    BY <1>1, <1>2, CallsOf DEF Flow
  <2>2. FlowInv(g(<<d>>), vault.allowance)
    <3>1. Ticked(g(<<d>>))
      BY DEF Ticked
    <3>2. CallsInv(g(<<d>>))
      BY <1>2 DEF CallsInv, Proper
    <3>3. Approved(g(<<d>>), vault.allowance)
      BY DEF Approved
    <3>4. QED
      BY <3>1, <3>2, <3>3 DEF FlowInv
  <2>3. QED
    BY <1>1, <1>3, <2>1, <2>2, StartKeeps DEF VaultInv, VaultTypeInv, FormInv
<1>4. CASE flows' = Append(flows, g(<<c, d>>))
  <2>1. <<c, d>> \in Seq(Call) /\ Len(<<c, d>>) = 2
    BY <1>2
  <2>2. g(<<c, d>>) \in Flow
    BY <1>1, <2>1 DEF Flow
  <2>3. FlowInv(g(<<c, d>>), vault.allowance)
    <3>1. Ticked(g(<<c, d>>))
      BY DEF Ticked
    <3>2. CallsInv(g(<<c, d>>))
      BY <1>2 DEF CallsInv
    <3>3. Approved(g(<<c, d>>), vault.allowance)
      BY <2>1 DEF Approved
    <3>4. QED
      BY <3>1, <3>2, <3>3 DEF FlowInv
  <2>4. QED
    BY <1>1, <1>4, <2>2, <2>3, StartKeeps DEF VaultInv, VaultTypeInv, FormInv
<1>5. QED
  BY <1>3, <1>4 DEF SubmitDeposit, Start

LEMMA GovernorSteps ==
    ASSUME VaultInv, NEW bps \in 0 .. 1, NEW next \in Holders,
           SetFee(bps) \/ SubmitTransfer(next) \/ Transfer
    PROVE  VaultInv'
<1>1. vault' = vault /\ signer' = signer
  BY DEF SetFee, SubmitTransfer, Transfer
<1>2. vault \in VaultState /\ signer \in Holders /\ flows \in Seq(Flow)
  BY DEF VaultInv, VaultTypeInv, FormInv, SetFee, SubmitTransfer, IsGovernor, Mounted, Transfer
<1>3. ASSUME NEW g \in Flow, flows' = Append(flows, g), FlowInv(g, vault.allowance),
             form' \in {form, None}
      PROVE  VaultInv'
  BY <1>1, <1>2, <1>3, StartKeeps DEF VaultInv, VaultTypeInv, FormInv
<1>4. CASE SetFee(bps)
  <2> DEFINE c == [kind |-> "setFee", value |-> bps, to |-> None]
             g == [shows |-> "governorTx", me |-> signer, calls |-> <<c>>, phase |-> "wallet",
                   open |-> FALSE, shown |-> TRUE, steps |-> 1, ticked |-> None, disturbed |-> FALSE]
  <2>1. c \in Call
    BY VaultAssumption DEF Call
  <2>2. g \in Flow /\ flows' = Append(flows, g) /\ form' = form
    BY <1>2, <1>4, <2>1, CallsOf DEF SetFee, Start, Flow
  <2>3. Ticked(g)
    BY DEF Ticked
  <2>4. CallsInv(g)
    BY <2>1 DEF CallsInv, Proper
  <2>5. Approved(g, vault.allowance)
    BY DEF Approved
  <2>6. FlowInv(g, vault.allowance)
    BY <2>3, <2>4, <2>5 DEF FlowInv
  <2> HIDE DEF g
  <2>7. QED
    BY <1>3, <2>2, <2>6
<1>5. CASE SubmitTransfer(next)
  <2>1. /\ flows' = flows
        /\ form' = [step |-> "governor", value |-> 0, to |-> next, agreed |-> FALSE, ticked |-> None]
    BY <1>5 DEF SubmitTransfer
  <2>2. form' \in FormState
    BY <2>1, VaultAssumption DEF FormState
  <2>3. FormInv'
    BY <1>1, <1>2, <2>1, VaultAssumption DEF FormInv
  <2>4. QED
    BY <1>1, <1>2, <2>1, <2>2, <2>3 DEF VaultInv, VaultTypeInv
<1>6. CASE Transfer
  <2>1. /\ form \in FormState /\ form.step = "governor" /\ form.to \in Holders
        /\ form.ticked \in {None, <<form.to, 0>>}
    BY <1>6 DEF Transfer, VaultInv, VaultTypeInv, FormInv, FormState
  <2>2. ASSUME NEW ticked \in {None, <<form.to, 0>>},
               form' = [form EXCEPT !.ticked = ticked], flows' = flows
        PROVE  VaultInv'
    <3>1. form' \in FormState
      BY <2>1, <2>2, VaultAssumption DEF FormState
    <3>2. FormInv'
      BY <1>1, <1>2, <2>1, <2>2, VaultAssumption DEF FormInv, FormState
    <3>3. QED
      BY <1>1, <1>2, <2>2, <3>1, <3>2 DEF VaultInv, VaultTypeInv
  <2>3. CASE /\ form.ticked # None /\ form' = None
             /\ Start("governorTx", signer,
                      <<[kind |-> "transfer", value |-> 0, to |-> form.to]>>, form.ticked)
    <3> DEFINE c == [kind |-> "transfer", value |-> 0, to |-> form.to]
               g == [shows |-> "governorTx", me |-> signer, calls |-> <<c>>, phase |-> "wallet",
                     open |-> FALSE, shown |-> TRUE, steps |-> 1, ticked |-> form.ticked,
                     disturbed |-> FALSE]
    <3>1. c \in Call
      BY <2>1, VaultAssumption DEF Call
    <3>2. g \in Flow /\ flows' = Append(flows, g) /\ form' = None
      BY <1>2, <2>1, <2>3, <3>1, CallsOf DEF Start, Flow, FormState
    <3>3. Ticked(g)
      BY <2>1, <2>3 DEF Ticked
    <3>4. CallsInv(g)
      BY <2>1, <3>1 DEF CallsInv, Proper
    <3>5. Approved(g, vault.allowance)
      BY DEF Approved
    <3>6. FlowInv(g, vault.allowance)
      BY <3>3, <3>4, <3>5 DEF FlowInv
    <3> HIDE DEF g
    <3>7. QED
      BY <1>3, <3>2, <3>6
  <2>4. CASE Toggle(<<form.to, 0>>) /\ flows' = flows
    BY <2>1, <2>2, <2>4 DEF Toggle
  <2>5. QED
    BY <1>6, <2>3, <2>4 DEF Transfer
<1>7. QED
  BY <1>4, <1>5, <1>6

-----------------------------------------------------------------------------

LEMMA VaultNextKeeps == VaultInv /\ [VaultNext]_vaultVars => VaultInv'
<1> SUFFICES ASSUME VaultInv, [VaultNext]_vaultVars
             PROVE  VaultInv'
  OBVIOUS
<1>1. CASE ReadVaultDetail
  BY <1>1 DEF ReadVaultDetail, VaultInv, VaultTypeInv, FormInv
<1>2. CASE \E a \in Holders \cup {None} : SignerChanges(a)
  BY <1>2, SignerSteps
<1>3. CASE \E a \in Holders : OthersMove(a)
  BY <1>3, OthersSteps
<1>4. CASE \E i \in DOMAIN flows :
              SendCall(i) \/ FailSend(i) \/ IncludeCall(i) \/ ReplaceCall(i) \/ GiveUp(i)
  BY <1>4, TransactionSteps, IncludeStep
<1>5. CASE \/ \E value \in Values, to \in Holders \cup {None} : SubmitWithdraw(value, to)
           \/ AgreeToRelease \/ ConfirmRecipient
  <2>1. Stake \in Values /\ None \in Holders \cup {None}
    BY VaultAssumption DEF Values
  <2>2. QED
    BY <1>5, <2>1, WithdrawSteps
<1>6. CASE CancelDialog
  BY <1>6 DEF CancelDialog, VaultInv, VaultTypeInv, FormInv
<1>7. CASE \E value \in Values : SubmitDeposit(value)
  BY <1>7, DepositStep
<1>8. CASE (\E bps \in 0 .. 1 : SetFee(bps)) \/ (\E next \in Holders : SubmitTransfer(next))
  <2>1. 0 \in 0 .. 1 /\ signer \in Holders
    BY <1>8 DEF SetFee, SubmitTransfer, IsGovernor, Mounted, VaultInv, VaultTypeInv
  <2>2. QED
    BY <1>8, <2>1, GovernorSteps
<1>9. CASE Transfer
  <2>1. 0 \in 0 .. 1 /\ signer \in Holders
    BY <1>9 DEF Transfer, VaultInv, VaultTypeInv, FormInv
  <2>2. QED
    BY <1>9, <2>1, GovernorSteps
<1>10. CASE UNCHANGED vaultVars
  BY <1>10 DEF vaultVars, VaultInv, VaultTypeInv, FormInv
<1>11. QED
  BY <1>1, <1>2, <1>3, <1>4, <1>5, <1>6, <1>7, <1>8, <1>9, <1>10 DEF VaultNext

\* Every state of the page and of the contracts satisfies the invariant.
THEOREM VaultInvariance == VaultSpec => []VaultInv
  BY VaultInitHolds, VaultNextKeeps, PTL DEF VaultSpec

\* Whatever account is connected meanwhile and whatever else happens, what is
\* sent to another address, and the governor role, go where a dialog's box was
\* ticked for (VaultActions.tsx proceed).
THEOREM MovesAreAgreedTo == VaultSpec => []MovesAreTicked
<1>1. VaultInv => MovesAreTicked
  BY DEF VaultInv, FlowInv, Ticked, MovesAreTicked
<1>2. QED
  BY VaultInvariance, <1>1, PTL

\* The deposit that follows an approval finds the allowance it needs, unless the
\* account was used elsewhere or the approval was replaced (VaultActions.tsx
\* DepositForm).
THEOREM DepositFindsApproval == VaultSpec => []ApprovalComesFirst
<1>1. VaultInv => ApprovalComesFirst
  <2> SUFFICES ASSUME VaultInv, NEW i \in DOMAIN flows, flows[i].steps = 2, Len(flows[i].calls) = 1,
                      flows[i].phase \in {"wallet", "pending"}, ~flows[i].disturbed
               PROVE  vault.allowance[flows[i].me] = Head(flows[i].calls).value
    BY DEF ApprovalComesFirst
  <2>1. FlowInv(flows[i], vault.allowance)
    BY DEF VaultInv
  <2>2. Head(flows[i].calls) = flows[i].calls[1]
    BY <2>1 DEF FlowInv, CallsInv
  <2>3. QED
    BY <2>1, <2>2 DEF FlowInv, Approved
<1>2. QED
  BY VaultInvariance, <1>1, PTL

-----------------------------------------------------------------------------
(* The types, with their bounds. Of all there is every unit is in one purse:  *)
(* what an address holds in the vault, what it has outside, or what was spent. *)

Units == 1 .. 2 * Stake
Spent == <<None, "tokens">>
Purses == (Holders \X {"held", "tokens"}) \cup {Spent}

UnitsIn(where, purse) == {u \in Units : where[u] = purse}
Backs(where, v) ==
    /\ where \in [Units -> Purses]
    /\ \A a \in Holders : /\ v.held[a] = Cardinality(UnitsIn(where, <<a, "held">>))
                          /\ v.tokens[a] = Cardinality(UnitsIn(where, <<a, "tokens">>))

\* What is not an amount.
Bounded ==
    /\ vault.allowance \in [Holders -> 0 .. Stake]
    /\ vault.governor \in Holders /\ vault.feeBps \in 0 .. 1
    /\ DOMAIN detail = Holders
    /\ \A a \in Holders : detail[a] = None \/ DOMAIN detail[a] = DOMAIN vault
    /\ released \subseteq Holders
    /\ vaultMoves \in 0 .. MaxVaultMoves

AmountsInv == Bounded /\ \E where : Backs(where, vault)

\* A purse holds some of the units there are.
LEMMA PurseIsFinite ==
    ASSUME NEW where, NEW purse
    PROVE  /\ UnitsIn(where, purse) \in SUBSET Units /\ IsFiniteSet(UnitsIn(where, purse))
           /\ Cardinality(UnitsIn(where, purse)) \in 0 .. 2 * Stake
<1>1. IsFiniteSet(Units) /\ Cardinality(Units) = 2 * Stake
  BY VaultAssumption, FS_Interval DEF Units
<1>2. UnitsIn(where, purse) \in SUBSET Units
  BY DEF UnitsIn
<1>. QED  BY <1>1, <1>2, FS_Subset, FS_CardinalityType, VaultAssumption

\* A finite set has subsets of every smaller size.
LEMMA SomeOf ==
    ASSUME NEW S, IsFiniteSet(S), NEW n \in 0 .. Cardinality(S)
    PROVE  \E T \in SUBSET S : IsFiniteSet(T) /\ Cardinality(T) = n
<1>. DEFINE k == Cardinality(S)
<1>1. k \in Nat /\ ExistsBijection(1 .. k, S)
  BY FS_CardinalityType
<1>2. PICK f : f \in Bijection(1 .. k, S)
  BY <1>1 DEF ExistsBijection
<1>. HIDE DEF k
<1>. DEFINE T == {f[i] : i \in 1 .. n}
            g == [i \in 1 .. n |-> f[i]]
<1>3. n \in Nat /\ \A i \in 1 .. n : i \in 1 .. k
  BY <1>1 DEF k
<1>4. /\ \A i \in 1 .. k : f[i] \in S
      /\ \A i, j \in 1 .. k : f[i] = f[j] => i = j
  BY <1>2 DEF Bijection, Injection, Surjection, IsInjective
<1>5. g \in Bijection(1 .. n, T)
  <2>1. g \in [1 .. n -> T]
    OBVIOUS
  <2>2. \A i, j \in 1 .. n : g[i] = g[j] => i = j
    BY <1>3, <1>4
  <2>3. \A t \in T : \E i \in 1 .. n : g[i] = t
    OBVIOUS
  <2>. HIDE DEF g, T
  <2>. QED  BY <2>1, <2>2, <2>3 DEF Bijection, Injection, Surjection, IsInjective
<1>6. T \in SUBSET S
  BY <1>3, <1>4
<1>. HIDE DEF T, g
<1>7. IsFiniteSet(1 .. n) /\ Cardinality(1 .. n) = n
  BY <1>3, FS_Interval
<1>8. ExistsBijection(1 .. n, T)
  BY <1>5 DEF ExistsBijection
<1>9. IsFiniteSet(T) /\ Cardinality(T) = n
  BY <1>7, <1>8, FS_Bijection
<1>. QED  BY <1>6, <1>9

\* Units move from one purse to another, and every other purse keeps its own.
LEMMA UnitsMove ==
    ASSUME NEW where \in [Units -> Purses], NEW p \in Purses, NEW q \in Purses, p # q,
           NEW n \in 0 .. Cardinality(UnitsIn(where, p))
    PROVE  \E next \in [Units -> Purses] :
              /\ Cardinality(UnitsIn(next, p)) = Cardinality(UnitsIn(where, p)) - n
              /\ Cardinality(UnitsIn(next, q)) = Cardinality(UnitsIn(where, q)) + n
              /\ \A r : r # p /\ r # q => UnitsIn(next, r) = UnitsIn(where, r)
<1>1. /\ UnitsIn(where, p) \in SUBSET Units /\ IsFiniteSet(UnitsIn(where, p))
      /\ UnitsIn(where, q) \in SUBSET Units /\ IsFiniteSet(UnitsIn(where, q))
  BY PurseIsFinite
<1>2. PICK T \in SUBSET UnitsIn(where, p) : IsFiniteSet(T) /\ Cardinality(T) = n
  BY <1>1, SomeOf
<1>. DEFINE next == [u \in Units |-> IF u \in T THEN q ELSE where[u]]
<1>3. next \in [Units -> Purses]
  OBVIOUS
<1>4. UnitsIn(next, p) = UnitsIn(where, p) \ T
  BY DEF UnitsIn
<1>5. UnitsIn(next, q) = UnitsIn(where, q) \cup T /\ UnitsIn(where, q) \cap T = {}
  BY DEF UnitsIn
<1>6. \A r : r # p /\ r # q => UnitsIn(next, r) = UnitsIn(where, r)
  BY DEF UnitsIn
<1>. HIDE DEF next
<1>7. Cardinality(UnitsIn(where, p) \ T) = Cardinality(UnitsIn(where, p)) - n
  <2>1. UnitsIn(where, p) \cap T = T
    BY <1>2
  <2>. QED  BY <1>1, <1>2, <2>1, FS_Difference
<1>8. Cardinality(UnitsIn(where, q) \cup T) = Cardinality(UnitsIn(where, q)) + n
  <2>1. Cardinality({}) = 0
    BY FS_EmptySet
  <2>2. Cardinality(UnitsIn(where, q)) \in Nat /\ n \in Nat
    BY <1>1, <1>2, FS_CardinalityType
  <2>. PICK u : u = UnitsIn(where, q)
    OBVIOUS
  <2>3. IsFiniteSet(u) /\ IsFiniteSet(T) /\ u \cap T = {}
    BY <1>1, <1>2, <1>5
  <2>4. Cardinality(u \cup T) = Cardinality(u) + Cardinality(T) - 0
    BY <2>1, <2>3, FS_Union
  <2>. QED  BY <1>2, <2>2, <2>4
<1>. QED  BY <1>3, <1>4, <1>5, <1>6, <1>7, <1>8

\* A call that is accepted moves units from a purse that has them.
LEMMA ExecutedIsBacked ==
    ASSUME vault \in VaultState, NEW call \in Call, Proper(call), NEW me \in Holders,
           Accepted(call, me), NEW where, Backs(where, vault)
    PROVE  \E next : Backs(next, Executed(call, me))
<1>. DEFINE w == Executed(call, me)
            in(a) == <<a, "held">>
            out(a) == <<a, "tokens">>
<1>1. /\ vault.held \in [Holders -> Int] /\ vault.tokens \in [Holders -> Int]
      /\ where \in [Units -> Purses] /\ call.value \in Nat
      /\ \A a \in Holders : /\ in(a) \in Purses /\ out(a) \in Purses
                            /\ vault.held[a] = Cardinality(UnitsIn(where, in(a)))
                            /\ vault.tokens[a] = Cardinality(UnitsIn(where, out(a)))
      /\ \A a, b : in(a) # out(b) /\ (in(a) = in(b) <=> a = b) /\ (out(a) = out(b) <=> a = b)
  BY VaultAssumption DEF VaultState, Backs, Call, Purses
<1>. HIDE DEF in, out
<1>2. CASE call.kind = "withdraw"
  <2>1. call.to \in Holders /\ call.value \in 0 .. Cardinality(UnitsIn(where, in(me)))
    BY <1>1, <1>2 DEF Proper, Accepted
  <2>2. PICK next \in [Units -> Purses] :
              /\ Cardinality(UnitsIn(next, in(me))) = Cardinality(UnitsIn(where, in(me))) - call.value
              /\ Cardinality(UnitsIn(next, out(call.to)))
                   = Cardinality(UnitsIn(where, out(call.to))) + call.value
              /\ \A r : r # in(me) /\ r # out(call.to) => UnitsIn(next, r) = UnitsIn(where, r)
    <3>. PICK p, q, n : p = in(me) /\ q = out(call.to) /\ n = call.value
      OBVIOUS
    <3>1. /\ where \in [Units -> Purses] /\ p \in Purses /\ q \in Purses /\ p # q
          /\ n \in 0 .. Cardinality(UnitsIn(where, p))
      BY <1>1, <2>1
    <3>2. \E next \in [Units -> Purses] :
             /\ Cardinality(UnitsIn(next, p)) = Cardinality(UnitsIn(where, p)) - n
             /\ Cardinality(UnitsIn(next, q)) = Cardinality(UnitsIn(where, q)) + n
             /\ \A r : r # p /\ r # q => UnitsIn(next, r) = UnitsIn(where, r)
      BY <3>1, UnitsMove
    <3>. QED  BY <3>2
  <2>3. /\ w.held = [vault.held EXCEPT ![me] = @ - call.value]
        /\ w.tokens = [vault.tokens EXCEPT ![call.to] = @ + call.value]
    BY <1>2 DEF Executed, VaultState
  <2>4. \A a \in Holders : /\ w.held[a] = Cardinality(UnitsIn(next, in(a)))
                           /\ w.tokens[a] = Cardinality(UnitsIn(next, out(a)))
    <3>. HIDE DEF w
    <3>. QED  BY <1>1, <2>1, <2>2, <2>3
  <2>. QED  BY <2>2, <2>4 DEF Backs, in, out
<1>3. CASE call.kind = "deposit"
  <2>1. call.value \in 0 .. Cardinality(UnitsIn(where, out(me)))
    BY <1>1, <1>3 DEF Accepted
  <2>2. PICK next \in [Units -> Purses] :
              /\ Cardinality(UnitsIn(next, out(me))) = Cardinality(UnitsIn(where, out(me))) - call.value
              /\ Cardinality(UnitsIn(next, in(me))) = Cardinality(UnitsIn(where, in(me))) + call.value
              /\ \A r : r # out(me) /\ r # in(me) => UnitsIn(next, r) = UnitsIn(where, r)
    <3>. PICK p, q, n : p = out(me) /\ q = in(me) /\ n = call.value
      OBVIOUS
    <3>1. /\ where \in [Units -> Purses] /\ p \in Purses /\ q \in Purses /\ p # q
          /\ n \in 0 .. Cardinality(UnitsIn(where, p))
      BY <1>1, <2>1
    <3>2. \E next \in [Units -> Purses] :
             /\ Cardinality(UnitsIn(next, p)) = Cardinality(UnitsIn(where, p)) - n
             /\ Cardinality(UnitsIn(next, q)) = Cardinality(UnitsIn(where, q)) + n
             /\ \A r : r # p /\ r # q => UnitsIn(next, r) = UnitsIn(where, r)
      BY <3>1, UnitsMove
    <3>. QED  BY <3>2
  <2>3. /\ w.held = [vault.held EXCEPT ![me] = @ + call.value]
        /\ w.tokens = [vault.tokens EXCEPT ![me] = @ - call.value]
    BY <1>3 DEF Executed, VaultState
  <2>4. \A a \in Holders : /\ w.held[a] = Cardinality(UnitsIn(next, in(a)))
                           /\ w.tokens[a] = Cardinality(UnitsIn(next, out(a)))
    <3>. HIDE DEF w
    <3>. QED  BY <1>1, <2>2, <2>3
  <2>. QED  BY <2>2, <2>4 DEF Backs, in, out
<1>4. CASE call.kind \in {"approve", "setFee", "transfer"}
  <2>1. w.held = vault.held /\ w.tokens = vault.tokens
    BY <1>4 DEF Executed, VaultState
  <2>. QED  BY <2>1 DEF Backs
<1>. QED  BY <1>2, <1>3, <1>4 DEF Call

\* The amounts a call sets, rather than moves, are amounts a form can name.
LEMMA ExecutedIsBounded ==
    ASSUME vault \in VaultState, Bounded, NEW call \in Call, Proper(call), NEW me \in Holders,
           Accepted(call, me)
    PROVE  /\ Executed(call, me).allowance \in [Holders -> 0 .. Stake]
           /\ Executed(call, me).governor \in Holders /\ Executed(call, me).feeBps \in 0 .. 1
           /\ DOMAIN Executed(call, me) = DOMAIN vault
<1>. DEFINE w == Executed(call, me)
<1>1. /\ vault.allowance \in [Holders -> 0 .. Stake] /\ vault.governor \in Holders
      /\ vault.feeBps \in 0 .. 1 /\ call.value \in 0 .. Stake /\ Stake \in Nat
  BY VaultAssumption DEF Bounded, Call
<1>2. CASE call.kind = "withdraw"
  BY <1>1, <1>2 DEF Executed, VaultState
<1>3. CASE call.kind = "deposit"
  <2>1. call.value <= vault.allowance[me]
    BY <1>3 DEF Accepted
  <2>2. [vault.allowance EXCEPT ![me] = @ - call.value] \in [Holders -> 0 .. Stake]
    BY <1>1, <2>1
  <2>3. /\ w.allowance = [vault.allowance EXCEPT ![me] = @ - call.value]
        /\ w.governor = vault.governor /\ w.feeBps = vault.feeBps /\ DOMAIN w = DOMAIN vault
    BY <1>3 DEF Executed, VaultState
  <2>. QED  BY <1>1, <2>2, <2>3
<1>4. CASE call.kind = "approve"
  BY <1>1, <1>4 DEF Executed, VaultState
<1>5. CASE call.kind = "setFee"
  BY <1>1, <1>5 DEF Executed, VaultState, Proper
<1>6. CASE call.kind = "transfer"
  BY <1>1, <1>6 DEF Executed, VaultState, Proper
<1>. QED  BY <1>2, <1>3, <1>4, <1>5, <1>6 DEF Call

\* Steps that are counted keep to their bound.
LEMMA VaultMovesCount == ASSUME Bounded, VaultCounted PROVE vaultMoves' \in 0 .. MaxVaultMoves
  BY VaultAssumption DEF Bounded, VaultCounted

\* At first every unit is a token of some holder.
LEMMA AmountsInit == VaultInit => AmountsInv
<1>. SUFFICES ASSUME VaultInit PROVE AmountsInv
  OBVIOUS
<1>1. PICK a \in Holders :
          vault = [held |-> [b \in Holders |-> IF b = a THEN Stake ELSE 0],
                   tokens |-> [b \in Holders |-> IF b = a THEN Stake ELSE 0],
                   allowance |-> [b \in Holders |-> 0], governor |-> a, feeBps |-> 0]
  BY DEF VaultInit
<1>2. Bounded
  BY <1>1, VaultAssumption DEF VaultInit, Bounded
<1>. DEFINE where == [u \in Units |-> IF u <= Stake THEN <<a, "held">> ELSE <<a, "tokens">>]
<1>3. where \in [Units -> Purses]
  BY DEF Purses
<1>4. /\ UnitsIn(where, <<a, "held">>) = 1 .. Stake
      /\ UnitsIn(where, <<a, "tokens">>) = Stake + 1 .. 2 * Stake
      /\ \A b \in Holders : b # a => /\ UnitsIn(where, <<b, "held">>) = {}
                                     /\ UnitsIn(where, <<b, "tokens">>) = {}
  BY VaultAssumption DEF UnitsIn, Units
<1>5. /\ Cardinality(1 .. Stake) = Stake /\ Cardinality(Stake + 1 .. 2 * Stake) = Stake
      /\ Cardinality({}) = 0
  BY VaultAssumption, FS_Interval, FS_EmptySet
<1>. HIDE DEF where
<1>6. Backs(where, vault)
  BY <1>1, <1>3, <1>4, <1>5 DEF Backs
<1>. QED  BY <1>2, <1>6 DEF AmountsInv

\* What a call moves, its units move with it.
LEMMA AmountsKeep == VaultInv /\ AmountsInv /\ [VaultNext]_vaultVars => AmountsInv'
<1>. SUFFICES ASSUME VaultInv, AmountsInv, [VaultNext]_vaultVars
              PROVE  AmountsInv'
  OBVIOUS
<1>1. vault \in VaultState /\ signer \in Holders \cup {None} /\ Bounded
  BY DEF VaultInv, VaultTypeInv, AmountsInv
<1>2. PICK where : Backs(where, vault)
  BY DEF AmountsInv
<1>3. ASSUME vault' = vault, DOMAIN detail' = Holders,
             \A a \in Holders : detail'[a] = None \/ DOMAIN detail'[a] = DOMAIN vault,
             released' \subseteq Holders, vaultMoves' \in 0 .. MaxVaultMoves
      PROVE  AmountsInv'
  BY <1>1, <1>2, <1>3 DEF AmountsInv, Bounded
<1>4. ASSUME UNCHANGED <<vault, detail, released>>, vaultMoves' = vaultMoves \/ VaultCounted
      PROVE  AmountsInv'
  BY <1>1, <1>3, <1>4, VaultMovesCount DEF Bounded
<1>5. CASE ReadVaultDetail
  <2>1. signer \in Holders
    BY <1>1, <1>5 DEF ReadVaultDetail
  <2>2. PICK seen : detail' = [detail EXCEPT ![signer] = seen] /\ DOMAIN seen = DOMAIN vault
    BY <1>1, <1>5 DEF ReadVaultDetail, VaultState
  <2>3. vaultMoves' \in 0 .. MaxVaultMoves
    BY <1>1, <1>5, VaultMovesCount DEF ReadVaultDetail, Bounded
  <2>. QED  BY <1>1, <1>3, <1>5, <2>1, <2>2, <2>3 DEF ReadVaultDetail, Bounded
<1>6. CASE \E a \in Holders \cup {None} : SignerChanges(a)
  BY <1>4, <1>6 DEF SignerChanges
<1>7. ASSUME NEW a \in Holders, OthersMove(a)
      PROVE  AmountsInv'
  <2>1. vaultMoves' \in 0 .. MaxVaultMoves /\ UNCHANGED <<detail, released>>
    BY <1>1, <1>7, VaultMovesCount DEF OthersMove
  <2>2. ASSUME vault' = [vault EXCEPT !.tokens[a] = 0]
        PROVE  AmountsInv'
    <3>. DEFINE p == <<a, "tokens">>
                n == Cardinality(UnitsIn(where, p))
    <3>1. where \in [Units -> Purses] /\ p \in Purses /\ Spent \in Purses /\ p # Spent
      BY <1>2, VaultAssumption DEF Backs, Purses, Spent
    <3>2. n \in 0 .. n
      BY PurseIsFinite
    <3>3. PICK next \in [Units -> Purses] :
              /\ Cardinality(UnitsIn(next, p)) = Cardinality(UnitsIn(where, p)) - n
              /\ \A r : r # p /\ r # Spent => UnitsIn(next, r) = UnitsIn(where, r)
      <4>. HIDE DEF p
      <4>. QED  BY <3>1, <3>2, UnitsMove
    <3>4. Cardinality(UnitsIn(next, p)) = 0
      BY <3>2, <3>3
    <3>5. \A b \in Holders : /\ <<b, "held">> # p /\ <<b, "held">> # Spent /\ <<b, "tokens">> # Spent
                             /\ b # a => <<b, "tokens">> # p
      BY VaultAssumption DEF Spent
    <3>6. /\ vault'.held = vault.held /\ vault'.tokens = [vault.tokens EXCEPT ![a] = 0]
          /\ vault'.allowance = vault.allowance /\ vault'.governor = vault.governor
          /\ vault'.feeBps = vault.feeBps /\ DOMAIN vault' = DOMAIN vault
          /\ vault.tokens \in [Holders -> Int]
      BY <1>1, <2>2 DEF VaultState
    <3>7. Backs(next, vault')
      BY <1>2, <3>3, <3>4, <3>5, <3>6 DEF Backs
    <3>. QED  BY <1>1, <2>1, <3>6, <3>7 DEF AmountsInv, Bounded
  <2>3. ASSUME vault' = [vault EXCEPT !.allowance[a] = 0]
        PROVE  AmountsInv'
    <3>1. /\ vault'.held = vault.held /\ vault'.tokens = vault.tokens
          /\ vault'.allowance = [vault.allowance EXCEPT ![a] = 0] /\ vault'.governor = vault.governor
          /\ vault'.feeBps = vault.feeBps /\ DOMAIN vault' = DOMAIN vault
      BY <1>1, <2>3 DEF VaultState
    <3>2. Backs(where, vault')
      BY <1>2, <3>1 DEF Backs
    <3>. QED  BY <1>1, <2>1, <3>1, <3>2, VaultAssumption DEF AmountsInv, Bounded
  <2>. QED  BY <1>7, <2>2, <2>3 DEF OthersMove
<1>8. ASSUME NEW i \in DOMAIN flows, IncludeCall(i)
      PROVE  AmountsInv'
  <2>. DEFINE f == flows[i]
              call == Head(f.calls)
  <2>1. f \in Flow /\ CallsInv(f)
    BY DEF VaultInv, VaultTypeInv, FlowInv
  <2>2. call \in Call /\ Proper(call) /\ f.me \in Holders
    BY <2>1 DEF CallsInv, Proper, Flow
  <2>3. /\ vault' = IF Accepted(call, f.me) THEN Executed(call, f.me) ELSE vault
        /\ UNCHANGED <<detail, released, vaultMoves>>
    BY <1>8 DEF IncludeCall
  <2>. HIDE DEF call, f
  <2>4. CASE Accepted(call, f.me)
    <3>1. \E next : Backs(next, vault')
      BY <1>1, <1>2, <2>2, <2>3, <2>4, ExecutedIsBacked
    <3>2. Bounded'
      BY <1>1, <2>2, <2>3, <2>4, ExecutedIsBounded DEF Bounded
    <3>. QED  BY <3>1, <3>2 DEF AmountsInv
  <2>5. CASE ~Accepted(call, f.me)
    BY <1>4, <2>3, <2>5
  <2>. QED  BY <2>4, <2>5
<1>9. ASSUME NEW i \in DOMAIN flows, SendCall(i) \/ FailSend(i) \/ ReplaceCall(i) \/ GiveUp(i)
      PROVE  AmountsInv'
  BY <1>4, <1>9 DEF SendCall, FailSend, ReplaceCall, GiveUp
<1>10. CASE \/ \E value \in Values, to \in Holders \cup {None} : SubmitWithdraw(value, to)
            \/ ConfirmRecipient \/ CancelDialog \/ Transfer
            \/ \E value \in Values : SubmitDeposit(value)
            \/ \E bps \in 0 .. 1 : SetFee(bps)
            \/ \E next \in Holders : SubmitTransfer(next)
  BY <1>4, <1>10 DEF SubmitWithdraw, ConfirmRecipient, CancelDialog, Transfer, SubmitDeposit, SetFee,
                     SubmitTransfer
<1>11. CASE AgreeToRelease
  <2>1. signer \in Holders
    BY <1>1, <1>11 DEF AgreeToRelease, VaultInv, FormInv
  <2>2. released' \subseteq Holders /\ UNCHANGED <<vault, detail, vaultMoves>>
    BY <1>1, <1>11, <2>1 DEF AgreeToRelease, Bounded
  <2>. QED  BY <1>1, <1>3, <2>2 DEF Bounded
<1>12. CASE UNCHANGED vaultVars
  BY <1>4, <1>12 DEF vaultVars
<1>. QED
  BY <1>5, <1>6, <1>7, <1>8, <1>9, <1>10, <1>11, <1>12 DEF VaultNext

\* Nothing is ever held, in the vault or outside, that was not there at first, no
\* balance or allowance falls below zero, and the rest of the page's and the
\* contracts' state has its types (VaultActions.tsx, abi.ts).
THEOREM VaultTyped == VaultSpec => []VaultTypeOK
<1>1. VaultInv /\ AmountsInv => VaultTypeOK
  <2>. SUFFICES ASSUME VaultInv, AmountsInv PROVE VaultTypeOK
    OBVIOUS
  <2>1. PICK where : Backs(where, vault)
    BY DEF AmountsInv
  <2>2. vault \in VaultState
    BY DEF VaultInv, VaultTypeInv
  <2>3. \A a \in Holders : vault.held[a] \in 0 .. 2 * Stake /\ vault.tokens[a] \in 0 .. 2 * Stake
    BY <2>1, PurseIsFinite DEF Backs
  <2>4. vault.held \in Balances /\ vault.tokens \in Balances
    BY <2>2, <2>3 DEF VaultState, Balances
  <2>. QED  BY <2>4 DEF VaultTypeOK, VaultInv, VaultTypeInv, AmountsInv, Bounded
<1>. QED  BY VaultInitHolds, VaultNextKeeps, AmountsInit, AmountsKeep, <1>1, PTL DEF VaultSpec

-----------------------------------------------------------------------------
(* The read of the events (VaultFigures).                                   *)

\* What is left of a sequence without its first.
LEMMA TailOf ==
  ASSUME NEW T, NEW s \in Seq(T), s # <<>>
  PROVE  /\ Tail(s) \in Seq(T) /\ Head(s) \in T
         /\ 1 \in DOMAIN s /\ Head(s) = s[1]
         /\ \A i \in DOMAIN Tail(s) : i + 1 \in DOMAIN s /\ Tail(s)[i] = s[i + 1]
         /\ \A i \in DOMAIN s : i = 1 \/ (i - 1 \in DOMAIN Tail(s) /\ s[i] = Tail(s)[i - 1])
  OBVIOUS

BlockRange == [from : Nat, to : Nat]

\* Ranges that follow on each other from a block to a block.
GoOn(ranges, from, to) ==
    /\ ranges \in Seq(BlockRange)
    /\ ranges = <<>> => from = to + 1
    /\ ranges # <<>> => ranges[1].from = from /\ ranges[Len(ranges)].to = to
    /\ \A i \in DOMAIN ranges : ranges[i].from <= ranges[i].to
    /\ \A i \in DOMAIN ranges : i + 1 \in DOMAIN ranges => ranges[i + 1].from = ranges[i].to + 1

UpTo(n) == [i \in 1 .. n |-> i]

\* A read has the events of the blocks up to one, in order, and the ranges that
\* are left go on from there.
Reads(r) ==
    /\ \E to, ranges, answered : r = [to |-> to, ranges |-> ranges, answered |-> answered]
    /\ \E n \in Nat : r.answered = UpTo(n) /\ GoOn(r.ranges, n + 1, r.to) /\ r.to \in Nat

FiguresInv ==
    /\ \E S : blocks \in Seq(S) /\ blocks # <<>>
    /\ reading # None => Reads(reading) /\ reading.to <= Len(blocks)
    /\ shown # None => /\ shown.to \in Nat /\ shown.answered = UpTo(shown.to)
                       /\ shown.to <= Len(blocks)

\* Every block there was when the read began is read once, and in order.
EveryBlockOnce ==
    shown # None => shown.to <= Len(blocks) /\ shown.answered = [i \in 1 .. shown.to |-> i]

\* The next range's blocks come after those that are there.
LEMMA RangeAdds ==
  ASSUME NEW r, Reads(r), r.ranges # <<>>
  PROVE  \E n \in Nat : /\ r.answered \o Numbers(Head(r.ranges)) = UpTo(n)
                        /\ GoOn(Tail(r.ranges), n + 1, r.to)
<1>. DEFINE ranges == r.ranges
            range == Head(ranges)
<1>1. PICK n \in Nat : r.answered = UpTo(n) /\ GoOn(ranges, n + 1, r.to) /\ r.to \in Nat
  BY DEF Reads
<1>2. /\ ranges \in Seq(BlockRange) /\ 1 \in DOMAIN ranges /\ range = ranges[1]
      /\ range \in BlockRange
  BY <1>1, TailOf DEF GoOn
<1>3. range.from = n + 1 /\ range.from <= range.to /\ range.to \in Nat
  BY <1>1, <1>2 DEF GoOn, BlockRange
<1>. DEFINE last == range.to
<1>. HIDE DEF range, ranges
<1>4. UpTo(n) \o Numbers(range) = UpTo(last)
  <2>. DEFINE a == UpTo(n)
              b == Numbers(range)
  <2>0. n \in Nat /\ last \in Nat /\ last - n \in Nat
    BY <1>3
  <2>1. b = [i \in 1 .. last - n |-> n + i]
    <3>1. b = [i \in 1 .. last - range.from + 1 |-> range.from + i - 1]
      BY DEF Numbers
    <3>2. last - range.from + 1 = last - n
      BY <1>3, <2>0
    <3>3. \A i \in 1 .. last - n : range.from + i - 1 = n + i
      BY <1>3, <2>0
    <3>. HIDE DEF b, last
    <3>. QED  BY <3>1, <3>2, <3>3
  <2>. HIDE DEF last
  <2>2. a \in Seq(Nat) /\ Len(a) = n /\ b \in Seq(Nat) /\ Len(b) = last - n
    <3>1. a \in [1 .. n -> Nat]
      BY DEF UpTo
    <3>2. b \in [1 .. last - n -> Nat] /\ last - n \in Nat
      BY <2>0, <2>1
    <3>3. \A m \in Nat : \A s \in [1 .. m -> Nat] : s \in Seq(Nat) /\ Len(s) = m
      BY SeqDef, LenProperties
    <3>. HIDE DEF a, b
    <3>. QED  BY <3>1, <3>2, <3>3
  <2>3. a \o b \in Seq(Nat) /\ Len(a \o b) = last
    <3>. HIDE DEF a, b
    <3>1. a \o b \in Seq(Nat) /\ Len(a \o b) = Len(a) + Len(b)
      BY <2>2, ConcatProperties
    <3>2. n + (last - n) = last
      BY <2>0
    <3>. QED  BY <2>2, <3>1, <3>2
  <2>4. ASSUME NEW i \in 1 .. last
        PROVE  (a \o b)[i] = i
    <3>1. CASE i <= n
      <4>1. (a \o b)[i] = a[i]
        <5>. HIDE DEF a, b
        <5>. QED  BY <2>0, <2>2, <3>1, ConcatProperties
      <4>. QED  BY <3>1, <4>1 DEF UpTo
    <3>2. CASE ~(i <= n)
      <4>1. i - n \in 1 .. last - n /\ n + (i - n) = i
        BY <2>0, <3>2
      <4>2. (a \o b)[i] = b[i - n]
        <5>. HIDE DEF a, b
        <5>. QED  BY <2>0, <2>2, <3>2, ConcatProperties
      <4>3. b[i - n] = n + (i - n)
        <5>. HIDE DEF b
        <5>. QED  BY <2>1, <4>1
      <4>. HIDE DEF a, b
      <4>. QED  BY <4>1, <4>2, <4>3
    <3>. QED  BY <3>1, <3>2
  <2>5. a \o b = [i \in 1 .. last |-> i]
    <3>1. UpTo(last) \in Seq(Nat) /\ Len(UpTo(last)) = last
      <4>1. UpTo(last) \in [1 .. last -> Nat]
        BY DEF UpTo
      <4>2. \A m \in Nat : \A s \in [1 .. m -> Nat] : s \in Seq(Nat) /\ Len(s) = m
        BY SeqDef, LenProperties
      <4>. QED  BY <2>0, <4>1, <4>2
    <3>2. \A i \in 1 .. last : UpTo(last)[i] = i
      BY DEF UpTo
    <3>. HIDE DEF a, b
    <3>3. a \o b = UpTo(last)
      BY <2>0, <2>3, <2>4, <3>1, <3>2, SeqEqual
    <3>. QED  BY <3>3 DEF UpTo
  <2>. QED  BY <2>5 DEF UpTo
<1>5. GoOn(Tail(ranges), last + 1, r.to)
  <2>. DEFINE rest == Tail(ranges)
  <2>1. /\ rest \in Seq(BlockRange) /\ Len(rest) = Len(ranges) - 1 /\ Len(ranges) \in Nat
        /\ Len(ranges) > 0
        /\ DOMAIN ranges = 1 .. Len(ranges) /\ DOMAIN rest = 1 .. Len(rest)
        /\ \A i \in 1 .. Len(rest) : rest[i] = ranges[i + 1]
    BY <1>2, HeadTailProperties, LenProperties
  <2>0. last \in Nat /\ last = ranges[1].to /\ r.to \in Nat
    BY <1>1, <1>2, <1>3
  <2>. HIDE DEF rest, last
  <2>2. rest = <<>> => last + 1 = r.to + 1
    <3>. SUFFICES ASSUME rest = <<>> PROVE last = r.to
      OBVIOUS
    <3>1. Len(rest) = 0
      OBVIOUS
    <3>2. Len(ranges) = 1 /\ ranges # <<>>
      BY <2>1, <3>1
    <3>. QED  BY <1>1, <2>0, <3>2 DEF GoOn
  <2>3. rest # <<>> => rest[1].from = last + 1 /\ rest[Len(rest)].to = r.to
    <3>. SUFFICES ASSUME rest # <<>>
                  PROVE  rest[1].from = last + 1 /\ rest[Len(rest)].to = r.to
      OBVIOUS
    <3>1. Len(rest) > 0 /\ ranges # <<>>
      BY <2>1, EmptySeq
    <3>2. rest[1] = ranges[1 + 1] /\ rest[Len(rest)] = ranges[Len(ranges)]
          /\ 1 + 1 \in DOMAIN ranges
      BY <2>1, <3>1
    <3>. QED  BY <1>1, <2>0, <3>1, <3>2 DEF GoOn
  <2>4. \A i \in DOMAIN rest : rest[i].from <= rest[i].to
    <3>. TAKE i \in DOMAIN rest
    <3>1. i + 1 \in DOMAIN ranges /\ rest[i] = ranges[i + 1]
      BY <2>1
    <3>. QED  BY <1>1, <3>1 DEF GoOn
  <2>5. \A i \in DOMAIN rest : i + 1 \in DOMAIN rest => rest[i + 1].from = rest[i].to + 1
    <3>. SUFFICES ASSUME NEW i \in DOMAIN rest, i + 1 \in DOMAIN rest
                  PROVE  rest[i + 1].from = rest[i].to + 1
      OBVIOUS
    <3>1. /\ i + 1 \in DOMAIN ranges /\ (i + 1) + 1 \in DOMAIN ranges
          /\ rest[i] = ranges[i + 1] /\ rest[i + 1] = ranges[(i + 1) + 1]
      BY <2>1
    <3>. QED  BY <1>1, <3>1 DEF GoOn
  <2>6. GoOn(rest, last + 1, r.to)
    BY <2>1, <2>2, <2>3, <2>4, <2>5 DEF GoOn
  <2>. QED  BY <2>6 DEF rest
<1>6. r.answered \o Numbers(range) = UpTo(last) /\ last \in Nat
  BY <1>1, <1>3, <1>4
<1>. QED  BY <1>5, <1>6 DEF range, ranges

\* A range that is refused is cut where no block is lost and none is in both.
LEMMA HalvesFollow ==
  ASSUME NEW from, NEW to, NEW ranges, GoOn(ranges, from, to), ranges # <<>>,
         ~(Head(ranges).to - Head(ranges).from < MinSpan)
  PROVE  GoOn(Halves(Head(ranges)) \o Tail(ranges), from, to)
<1>. DEFINE range == Head(ranges)
            rest == Tail(ranges)
            low == [range EXCEPT !.to = Middle(range)]
            high == [range EXCEPT !.from = Middle(range) + 1]
            cut == <<low, high>> \o rest
            n == Len(ranges)
<1>1. /\ ranges \in Seq(BlockRange) /\ range = ranges[1] /\ 1 \in DOMAIN ranges
      /\ range \in BlockRange
  BY TailOf DEF GoOn
<1>2. /\ range.from \in Nat /\ range.to \in Nat /\ range.from < range.to
  BY <1>1, FiguresAssumption DEF BlockRange
<1>3. /\ Middle(range) \in Nat /\ range.from <= Middle(range) /\ Middle(range) < range.to
  BY <1>2 DEF Middle
<1>4. /\ low \in BlockRange /\ low.from = range.from /\ low.to = Middle(range)
      /\ high \in BlockRange /\ high.from = Middle(range) + 1 /\ high.to = range.to
  <2>1. \A x \in BlockRange : \A m \in Nat :
          /\ [x EXCEPT !.to = m] \in BlockRange /\ [x EXCEPT !.from = m] \in BlockRange
          /\ [x EXCEPT !.to = m].to = m /\ [x EXCEPT !.to = m].from = x.from
          /\ [x EXCEPT !.from = m].from = m /\ [x EXCEPT !.from = m].to = x.to
    BY DEF BlockRange
  <2>2. range \in BlockRange /\ Middle(range) \in Nat /\ Middle(range) + 1 \in Nat
    BY <1>1, <1>3
  <2>. HIDE DEF range
  <2>. QED  BY <2>1, <2>2
<1>5. /\ rest \in Seq(BlockRange) /\ Len(rest) = n - 1 /\ n \in Nat /\ n > 0
      /\ DOMAIN ranges = 1 .. n
      /\ \A i \in 1 .. Len(rest) : rest[i] = ranges[i + 1]
  BY <1>1, HeadTailProperties, LenProperties
<1>. HIDE DEF range, rest, low, high, n
<1>6. /\ cut \in Seq(BlockRange) /\ Len(cut) = n + 1 /\ DOMAIN cut = 1 .. n + 1
      /\ cut[1] = low /\ cut[2] = high
      /\ \A i \in 2 .. n : cut[i + 1] = ranges[i]
  <2>1. <<low, high>> \in Seq(BlockRange) /\ Len(<<low, high>>) = 2
    BY <1>4
  <2>2. <<low, high>>[1] = low /\ <<low, high>>[2] = high
    OBVIOUS
  <2>3. cut \in Seq(BlockRange) /\ Len(cut) = 2 + (n - 1)
    BY <1>5, <2>1, ConcatProperties
  <2>4. cut[1] = low /\ cut[2] = high
    BY <1>5, <2>1, <2>2, ConcatProperties
  <2>5. \A i \in 3 .. n + 1 : cut[i] = rest[i - 2]
    BY <1>5, <2>1, ConcatProperties
  <2>6. \A i \in 2 .. n : cut[i + 1] = ranges[i]
    <3>. TAKE i \in 2 .. n
    <3>1. i + 1 \in 3 .. n + 1 /\ i - 1 \in 1 .. Len(rest)
      BY <1>5
    <3>2. cut[i + 1] = rest[(i + 1) - 2]
      BY <2>5, <3>1
    <3>3. (i + 1) - 2 = i - 1 /\ (i - 1) + 1 = i
      BY <1>5
    <3>. HIDE DEF cut
    <3>. QED  BY <1>5, <3>1, <3>2, <3>3
  <2>. HIDE DEF cut
  <2>. QED  BY <1>5, <2>3, <2>4, <2>6, LenProperties
<1>. HIDE DEF cut
<1>7. /\ cut # <<>> /\ cut[1].from = from
  BY <1>1, <1>4, <1>5, <1>6 DEF GoOn
<1>8. cut[Len(cut)].to = to
  <2>1. ranges[n].to = to
    BY DEF GoOn, n
  <2>2. CASE n = 1
    BY <1>1, <1>4, <1>6, <2>1, <2>2
  <2>3. CASE n # 1
    <3>1. n \in 2 .. n
      BY <1>5, <2>3
    <3>. QED  BY <1>6, <2>1, <3>1
  <2>. QED  BY <2>2, <2>3
<1>9. \A i \in DOMAIN cut : cut[i].from <= cut[i].to
  <2>. TAKE i \in DOMAIN cut
  <2>1. CASE i \in {1, 2}
    BY <1>2, <1>3, <1>4, <1>6, <2>1
  <2>2. CASE i \notin {1, 2}
    <3>1. i - 1 \in 2 .. n /\ (i - 1) + 1 = i
      BY <1>5, <1>6, <2>2
    <3>2. cut[i] = ranges[i - 1] /\ i - 1 \in DOMAIN ranges
      BY <1>5, <1>6, <3>1
    <3>. QED  BY <3>2 DEF GoOn
  <2>. QED  BY <2>1, <2>2
<1>10. \A i \in DOMAIN cut : i + 1 \in DOMAIN cut => cut[i + 1].from = cut[i].to + 1
  <2>. SUFFICES ASSUME NEW i \in DOMAIN cut, i + 1 \in DOMAIN cut
                PROVE  cut[i + 1].from = cut[i].to + 1
    OBVIOUS
  <2>1. CASE i = 1
    BY <1>4, <1>6, <2>1
  <2>2. CASE i # 1
    <3>1. i \in 2 .. n /\ i - 1 \in DOMAIN ranges /\ (i - 1) + 1 = i /\ i \in DOMAIN ranges
      BY <1>5, <1>6, <2>2
    <3>2. cut[i + 1] = ranges[i] /\ ranges[i].from = ranges[i - 1].to + 1
      BY <1>6, <3>1 DEF GoOn
    <3>3. cut[i].to = ranges[i - 1].to
      <4>1. CASE i = 2
        BY <1>1, <1>4, <1>6, <4>1
      <4>2. CASE i # 2
        <5>1. i - 1 \in 2 .. n
          BY <1>5, <3>1, <4>2
        <5>. QED  BY <1>6, <3>1, <5>1
      <4>. QED  BY <4>1, <4>2
    <3>. QED  BY <3>2, <3>3
  <2>. QED  BY <2>1, <2>2
<1>11. Halves(Head(ranges)) \o Tail(ranges) = cut
  BY DEF Halves, cut, low, high, range, rest
<1>. QED  BY <1>6, <1>7, <1>8, <1>9, <1>10, <1>11 DEF GoOn


LEMMA FiguresInitHolds == FiguresInit => FiguresInv
<1>. SUFFICES ASSUME FiguresInit PROVE FiguresInv
  OBVIOUS
<1>1. PICK block : blocks = <<block>>
  BY DEF FiguresInit
<1>2. blocks \in Seq({block}) /\ blocks # <<>>
  BY <1>1
<1>3. reading = None /\ shown = None
  BY DEF FiguresInit
<1>. QED  BY <1>2, <1>3 DEF FiguresInv

\* A block more leaves the ones there are.
LEMMA BlocksGrow ==
  ASSUME NEW S, NEW s \in Seq(S), NEW x
  PROVE  /\ \E T : Append(s, x) \in Seq(T) /\ Append(s, x) # <<>>
         /\ Len(Append(s, x)) = Len(s) + 1 /\ Len(s) \in Nat
<1>1. s \in Seq(S \cup {x}) /\ x \in S \cup {x}
  BY SeqDef
<1>2. Append(s, x) \in Seq(S \cup {x}) /\ Append(s, x) # <<>> /\ Len(Append(s, x)) = Len(s) + 1
  BY <1>1, AppendProperties
<1>. QED  BY <1>1, <1>2, LenProperties

LEMMA FiguresNextKeeps == FiguresInv /\ [FiguresNext]_figuresVars => FiguresInv'
<1>. SUFFICES ASSUME FiguresInv, [FiguresNext]_figuresVars PROVE FiguresInv'
  OBVIOUS
<1>1. PICK S : blocks \in Seq(S) /\ blocks # <<>>
  BY DEF FiguresInv
<1>2. Len(blocks) \in Nat /\ Len(blocks) >= 1
  BY <1>1, LenProperties, EmptySeq
<1>3. ASSUME NEW calls \in Transactions, MineBlock(calls)
      PROVE  FiguresInv'
  <2>1. PICK block : blocks' = Append(blocks, block)
    BY <1>3 DEF MineBlock
  <2>2. /\ \E T : blocks' \in Seq(T) /\ blocks' # <<>>
        /\ Len(blocks') = Len(blocks) + 1
    BY <1>1, <2>1, BlocksGrow
  <2>3. UNCHANGED <<reading, shown>>
    BY <1>3 DEF MineBlock
  <2>4. reading # None => Reads(reading) /\ reading.to \in Nat /\ reading.to <= Len(blocks')
    BY <1>2, <2>2 DEF FiguresInv, Reads
  <2>5. shown # None => /\ shown.to \in Nat /\ shown.answered = UpTo(shown.to)
                        /\ shown.to <= Len(blocks')
    BY <1>2, <2>2 DEF FiguresInv
  <2>. QED  BY <2>2, <2>3, <2>4, <2>5 DEF FiguresInv
<1>4. CASE ReadVaultLogs
  <2>. DEFINE n == Len(blocks)
              first == [from |-> 1, to |-> n]
              start == [to |-> n, ranges |-> <<first>>, answered |-> <<>>]
  <2>1. reading' = start /\ UNCHANGED <<blocks, shown>>
    BY <1>4 DEF ReadVaultLogs
  <2>2. GoOn(<<first>>, 0 + 1, n)
    <3>1. first \in BlockRange /\ first.from = 1 /\ first.to = n
      BY <1>2 DEF BlockRange
    <3>. HIDE DEF first, n
    <3>2. /\ <<first>> \in Seq(BlockRange) /\ Len(<<first>>) = 1 /\ <<first>>[1] = first
          /\ DOMAIN <<first>> = {1} /\ <<first>> # <<>>
      BY <3>1
    <3>3. 1 <= n
      BY <1>2 DEF n
    <3>4. \A i \in DOMAIN <<first>> : i + 1 \notin DOMAIN <<first>>
      BY <3>2
    <3>. QED  BY <3>1, <3>2, <3>3, <3>4 DEF GoOn
  <2>3. <<>> = UpTo(0)
    BY DEF UpTo
  <2>4. Reads(start)
    <3>. HIDE DEF first
    <3>1. /\ start.answered = UpTo(0) /\ start.ranges = <<first>> /\ start.to = n
          /\ \E to, ranges, answered : start = [to |-> to, ranges |-> ranges, answered |-> answered]
      BY <2>3
    <3>. HIDE DEF start
    <3>. QED  BY <1>2, <2>2, <3>1 DEF Reads
  <2>5. start.to <= Len(blocks)
    BY <1>2
  <2>. HIDE DEF start
  <2>. QED  BY <2>1, <2>4, <2>5 DEF FiguresInv
<1>5. CASE RangeIsBack
  <2>1. /\ Reads(reading) /\ reading.ranges # <<>>
        /\ reading' = [reading EXCEPT !.ranges = Tail(@),
                                      !.answered = @ \o Numbers(Head(reading.ranges))]
        /\ UNCHANGED <<blocks, shown>>
        /\ reading.to <= Len(blocks) /\ reading.to \in Nat
    BY <1>5 DEF RangeIsBack, FiguresInv, Reads
  <2>2. PICK n \in Nat : /\ reading.answered \o Numbers(Head(reading.ranges)) = UpTo(n)
                         /\ GoOn(Tail(reading.ranges), n + 1, reading.to)
    BY <2>1, RangeAdds
  <2>3. /\ reading' = [to |-> reading.to, ranges |-> Tail(reading.ranges),
                       answered |-> reading.answered \o Numbers(Head(reading.ranges))]
    BY <2>1 DEF Reads
  <2>4. Reads(reading') /\ reading'.to = reading.to
    BY <2>1, <2>2, <2>3 DEF Reads
  <2>. QED  BY <2>1, <2>4 DEF FiguresInv
<1>6. CASE RangeFails
  <2>1. /\ Reads(reading) /\ reading.ranges # <<>> /\ UNCHANGED <<blocks, shown>>
        /\ reading.to <= Len(blocks) /\ reading.to \in Nat
    BY <1>6 DEF RangeFails, FiguresInv, Reads
  <2>2. CASE Head(reading.ranges).to - Head(reading.ranges).from < MinSpan
    BY <1>6, <2>1, <2>2 DEF RangeFails, FiguresInv
  <2>3. CASE ~(Head(reading.ranges).to - Head(reading.ranges).from < MinSpan)
    <3>1. reading' = [reading EXCEPT !.ranges = Halves(Head(reading.ranges)) \o Tail(@)]
      BY <1>6, <2>3 DEF RangeFails
    <3>2. PICK n \in Nat : reading.answered = UpTo(n)
                           /\ GoOn(reading.ranges, n + 1, reading.to)
      BY <2>1 DEF Reads
    <3>3. GoOn(Halves(Head(reading.ranges)) \o Tail(reading.ranges), n + 1, reading.to)
      BY <2>1, <2>3, <3>2, HalvesFollow
    <3>4. reading' = [to |-> reading.to, answered |-> reading.answered,
                      ranges |-> Halves(Head(reading.ranges)) \o Tail(reading.ranges)]
      BY <2>1, <3>1 DEF Reads
    <3>5. Reads(reading') /\ reading'.to = reading.to
      BY <2>1, <3>2, <3>3, <3>4 DEF Reads
    <3>. QED  BY <2>1, <3>5 DEF FiguresInv
  <2>. QED  BY <2>2, <2>3
<1>7. CASE LogsAreBack
  <2>1. /\ Reads(reading) /\ reading.ranges = <<>> /\ reading' = None /\ UNCHANGED blocks
        /\ shown' = [to |-> reading.to, answered |-> reading.answered]
        /\ reading.to <= Len(blocks) /\ reading.to \in Nat
    BY <1>7 DEF LogsAreBack, FiguresInv, Reads
  <2>2. PICK n \in Nat : reading.answered = UpTo(n) /\ n + 1 = reading.to + 1
    BY <2>1 DEF Reads, GoOn
  <2>3. reading.answered = UpTo(reading.to)
    BY <2>1, <2>2
  <2>. QED  BY <2>1, <2>3 DEF FiguresInv
<1>8. CASE UNCHANGED figuresVars
  BY <1>8 DEF figuresVars, FiguresInv
<1>. QED  BY <1>3, <1>4, <1>5, <1>6, <1>7, <1>8 DEF FiguresNext

-----------------------------------------------------------------------------
(* Sums of a sequence (SumOf).                                              *)

\* p holds the sum of the first n of s, for every n.
SumsTo(s, p) ==
    /\ p \in [0 .. Len(s) -> Int] /\ p[0] = 0
    /\ \A n \in 1 .. Len(s) : p[n] = p[n - 1] + s[n]

\* There are such sums: there is no first place at which one would be missing.
LEMMA SumsExist ==
    ASSUME NEW s \in Seq(Int)
    PROVE  \E p : SumsTo(s, p)
<1>. DEFINE Upto(k, p) == /\ p \in [0 .. k -> Int] /\ p[0] = 0
                          /\ \A n \in 1 .. k : p[n] = p[n - 1] + s[n]
            missing == {k \in 0 .. Len(s) : ~ \E p : Upto(k, p)}
<1>1. Len(s) \in Nat /\ \A n \in 1 .. Len(s) : s[n] \in Int
  OBVIOUS
<1>2. \E p : Upto(0, p)
  <2>1. Upto(0, [n \in 0 .. 0 |-> 0])
    OBVIOUS
  <2>. HIDE DEF Upto
  <2>. QED  BY <2>1
<1>3. ASSUME NEW k \in 1 .. Len(s), NEW p, Upto(k - 1, p)
      PROVE  \E q : Upto(k, q)
  <2>. DEFINE q == [n \in 0 .. k |-> IF n = k THEN p[k - 1] + s[k] ELSE p[n]]
  <2>1. /\ p \in [0 .. k - 1 -> Int] /\ p[0] = 0
        /\ \A n \in 1 .. k - 1 : p[n] = p[n - 1] + s[n]
    BY <1>3
  <2>2. k \in Nat /\ k # 0 /\ s[k] \in Int /\ k - 1 \in 0 .. k - 1
    BY <1>1
  <2>3. q \in [0 .. k -> Int]
    BY <2>1, <2>2
  <2>4. \A n \in 0 .. k - 1 : n \in 0 .. k /\ n # k
    BY <2>2
  <2>5. \A n \in 0 .. k - 1 : q[n] = p[n]
    BY <2>4
  <2>6. q[k] = p[k - 1] + s[k]
    BY <2>2
  <2>. HIDE DEF q
  <2>7. q[0] = 0
    BY <2>1, <2>2, <2>5
  <2>8. ASSUME NEW n \in 1 .. k
        PROVE  q[n] = q[n - 1] + s[n]
    <3>1. n - 1 \in 0 .. k - 1 /\ (n # k => n \in 0 .. k - 1 /\ n \in 1 .. k - 1)
      BY <2>2
    <3>. QED  BY <2>1, <2>5, <2>6, <3>1
  <2>9. Upto(k, q)
    BY <2>3, <2>7, <2>8
  <2>. HIDE DEF Upto
  <2>. QED  BY <2>9
<1>. HIDE DEF Upto
<1>4. missing = {}
  <2>1. SUFFICES ASSUME missing # {} PROVE FALSE
    OBVIOUS
  <2>2. missing \in SUBSET Nat
    BY <1>1
  <2>3. PICK k \in missing : \A j \in missing : k <= j
    <3>. HIDE DEF missing
    <3>. QED  BY <2>1, <2>2, LeastPlace
  <2>4. k \in 0 .. Len(s) /\ ~ \E p : Upto(k, p)
    OBVIOUS
  <2>5. k # 0 /\ k \in 1 .. Len(s) /\ k - 1 \in 0 .. Len(s) /\ ~(k <= k - 1)
    BY <1>1, <1>2, <2>4
  <2>6. \E p : Upto(k - 1, p)
    BY <2>3, <2>5
  <2>. QED  BY <1>3, <2>4, <2>5, <2>6
<1>5. PICK p : Upto(Len(s), p)
  <2>1. Len(s) \in 0 .. Len(s)
    BY <1>1
  <2>. QED  BY <1>4, <2>1
<1>6. SumsTo(s, p)
  BY <1>5 DEF Upto, SumsTo
<1>. QED  BY <1>6

\* And no others: what SumOf computes is the last of them.
LEMMA SumOfIs ==
    ASSUME NEW s \in Seq(Int), NEW p, SumsTo(s, p)
    PROVE  SumOf(s) = p[Len(s)]
<1>. DEFINE Solves(f) == f = [n \in 0 .. Len(s) |-> IF n = 0 THEN 0 ELSE f[n - 1] + s[n]]
            sum == CHOOSE f : Solves(f)
            wrong == {n \in 0 .. Len(s) : sum[n] # p[n]}
<1>1. SumOf(s) = sum[Len(s)]
  BY DEF SumOf
<1>2. Len(s) \in Nat
  OBVIOUS
<1>3. Solves(p)
  <2>1. p = [n \in 0 .. Len(s) |-> p[n]]
    BY DEF SumsTo
  <2>2. \A n \in 0 .. Len(s) : p[n] = IF n = 0 THEN 0 ELSE p[n - 1] + s[n]
    BY <1>2 DEF SumsTo
  <2>. QED  BY <2>1, <2>2
<1>4. Solves(sum)
  <2>. HIDE DEF Solves
  <2>. QED  BY <1>3
<1>5. \A n \in 0 .. Len(s) : sum[n] = IF n = 0 THEN 0 ELSE sum[n - 1] + s[n]
  <2>. HIDE DEF sum
  <2>1. sum = [n \in 0 .. Len(s) |-> IF n = 0 THEN 0 ELSE sum[n - 1] + s[n]]
    BY <1>4
  <2>. QED  BY <2>1
<1>. HIDE DEF sum, Solves
<1>6. wrong = {}
  <2>1. SUFFICES ASSUME wrong # {} PROVE FALSE
    OBVIOUS
  <2>2. wrong \in SUBSET Nat
    BY <1>2
  <2>3. PICK n \in wrong : \A j \in wrong : n <= j
    <3>. HIDE DEF wrong
    <3>. QED  BY <2>1, <2>2, LeastPlace
  <2>4. n \in 0 .. Len(s) /\ sum[n] # p[n]
    OBVIOUS
  <2>5. n # 0
    BY <1>5, <2>4 DEF SumsTo
  <2>6. n \in 1 .. Len(s) /\ n - 1 \in 0 .. Len(s) /\ ~(n <= n - 1)
    BY <1>2, <2>4, <2>5
  <2>7. sum[n - 1] = p[n - 1]
    BY <2>3, <2>6
  <2>. QED  BY <1>5, <2>4, <2>5, <2>6, <2>7 DEF SumsTo
<1>7. Len(s) \in 0 .. Len(s)
  BY <1>2
<1>. QED  BY <1>1, <1>6, <1>7

\* A sum is an integer; one more at the end adds to it, and so does a change of
\* the last one.
LEMMA SumOfAppend ==
    ASSUME NEW s \in Seq(Int), NEW x \in Int
    PROVE  SumOf(s) \in Int /\ SumOf(Append(s, x)) = SumOf(s) + x
<1>1. PICK p : SumsTo(s, p)
  BY SumsExist
<1>. DEFINE n == Len(s)
            t == Append(s, x)
            q == [k \in 0 .. n + 1 |-> IF k = n + 1 THEN p[n] + x ELSE p[k]]
<1>2. /\ n \in Nat /\ p \in [0 .. n -> Int] /\ p[0] = 0 /\ p[n] \in Int
      /\ \A k \in 1 .. n : p[k] = p[k - 1] + s[k]
  BY <1>1 DEF SumsTo
<1>3. /\ t \in Seq(Int) /\ Len(t) = n + 1 /\ t[n + 1] = x
      /\ \A k \in 1 .. n : t[k] = s[k]
  OBVIOUS
<1>4. q[n + 1] = p[n] + x /\ \A k \in 0 .. n : q[k] = p[k]
  BY <1>2
<1>5. q \in [0 .. n + 1 -> Int]
  BY <1>2
<1>. HIDE DEF q, n, t
<1>6. ASSUME NEW k \in 1 .. n + 1
      PROVE  q[k] = q[k - 1] + t[k]
  <2>1. k - 1 \in 0 .. n /\ (k # n + 1 => k \in 1 .. n /\ k \in 0 .. n)
        /\ (k = n + 1 => k - 1 = n)
    BY <1>2
  <2>. QED  BY <1>2, <1>3, <1>4, <2>1
<1>7. q[0] = 0
  BY <1>2, <1>4
<1>8. SumsTo(t, q)
  BY <1>3, <1>5, <1>6, <1>7 DEF SumsTo
<1>9. SumOf(t) = q[n + 1]
  BY <1>3, <1>8, SumOfIs
<1>10. SumOf(s) = p[n]
  BY <1>1, SumOfIs DEF n
<1>. QED  BY <1>2, <1>4, <1>9, <1>10 DEF t

\* Another last amount.
LEMMA SumOfChange ==
    ASSUME NEW s \in Seq(Int), s # <<>>, NEW x \in Int
    PROVE  SumOf([s EXCEPT ![Len(s)] = x]) = SumOf(s) - s[Len(s)] + x
<1>. DEFINE t == [s EXCEPT ![Len(s)] = x]
            r == SubSeq(s, 1, Len(s) - 1)
<1>1. /\ Len(s) \in Nat \ {0} /\ s[Len(s)] \in Int
      /\ r \in Seq(Int) /\ Len(r) = Len(s) - 1 /\ \A i \in 1 .. Len(s) - 1 : r[i] = s[i]
  <2>1. Len(s) \in Nat \ {0} /\ s[Len(s)] \in Int
    <3>1. Len(s) \in Nat /\ Len(s) # 0
      BY EmptySeq
    <3>. QED  BY <3>1
  <2>2. r = [i \in 1 .. Len(s) - 1 |-> s[i]]
    BY <2>1
  <2>3. r \in [1 .. Len(s) - 1 -> Int] /\ Len(s) - 1 \in Nat
    <3>1. \A i \in 1 .. Len(s) - 1 : i \in 1 .. Len(s) /\ s[i] \in Int
      BY <2>1
    <3>. HIDE DEF r
    <3>. QED  BY <2>1, <2>2, <3>1
  <2>4. \A m \in Nat : \A f \in [1 .. m -> Int] : f \in Seq(Int) /\ Len(f) = m
    BY SeqDef, LenProperties
  <2>. HIDE DEF r
  <2>. QED  BY <2>1, <2>2, <2>3, <2>4
<1>. HIDE DEF r
<1>2. s = Append(r, s[Len(s)])
  <2>1. Append(r, s[Len(s)]) \in Seq(Int) /\ Len(Append(r, s[Len(s)])) = Len(s)
    BY <1>1
  <2>2. \A i \in 1 .. Len(s) : Append(r, s[Len(s)])[i] = s[i]
    BY <1>1
  <2>. QED  BY <2>1, <2>2, SeqEqual
<1>3. t = Append(r, x)
  <2>1. Append(r, x) \in Seq(Int) /\ Len(Append(r, x)) = Len(s)
    BY <1>1
  <2>2. t \in Seq(Int) /\ Len(t) = Len(s)
    BY <1>1
  <2>3. \A i \in 1 .. Len(s) : Append(r, x)[i] = t[i]
    BY <1>1
  <2>. QED  BY <2>1, <2>2, <2>3, SeqEqual
<1>4. SumOf(s) = SumOf(r) + s[Len(s)] /\ SumOf(r) \in Int
  BY <1>1, <1>2, SumOfAppend
<1>5. SumOf(t) = SumOf(r) + x
  BY <1>1, <1>3, SumOfAppend
<1>. QED  BY <1>1, <1>4, <1>5

\* The order they are added up in makes no difference when it is turned round.
LEMMA SumOfReverse ==
    ASSUME NEW s \in Seq(Int)
    PROVE  SumOf([i \in 1 .. Len(s) |-> s[Len(s) - i + 1]]) = SumOf(s)
<1>1. PICK p : SumsTo(s, p)
  BY SumsExist
<1>. DEFINE n == Len(s)
            t == [i \in 1 .. n |-> s[n - i + 1]]
            q == [k \in 0 .. n |-> p[n] - p[n - k]]
<1>2. /\ n \in Nat /\ p \in [0 .. n -> Int] /\ p[0] = 0 /\ p[n] \in Int
      /\ \A k \in 1 .. n : p[k] = p[k - 1] + s[k]
  BY <1>1 DEF SumsTo
<1>3. /\ t \in Seq(Int) /\ Len(t) = n
      /\ \A k \in 1 .. n : t[k] = s[n - k + 1]
  <2>1. \A k \in 1 .. n : n - k + 1 \in 1 .. n
    BY <1>2
  <2>2. \A k \in 1 .. n : s[n - k + 1] \in Int
    BY <2>1
  <2>3. t \in [1 .. n -> Int]
    BY <2>2
  <2>4. \A m \in Nat : \A f \in [1 .. m -> Int] : f \in Seq(Int) /\ Len(f) = m
    BY SeqDef, LenProperties
  <2>. HIDE DEF n
  <2>5. \A k \in 1 .. n : t[k] = s[n - k + 1]
    OBVIOUS
  <2>. HIDE DEF t
  <2>. QED  BY <1>2, <2>3, <2>4, <2>5
<1>4. q \in [0 .. n -> Int] /\ q[0] = 0 /\ q[n] = p[n]
  <2>1. \A k \in 0 .. n : n - k \in 0 .. n
    BY <1>2
  <2>2. n - 0 = n /\ n - n = 0 /\ 0 \in 0 .. n /\ n \in 0 .. n
    BY <1>2
  <2>. HIDE DEF n
  <2>. QED  BY <1>2, <2>1, <2>2
<1>5. ASSUME NEW k \in 1 .. n
      PROVE  q[k] = q[k - 1] + t[k]
  <2>1. /\ k \in 0 .. n /\ k - 1 \in 0 .. n /\ n - k \in 0 .. n /\ n - (k - 1) \in 1 .. n
        /\ n - (k - 1) \in 0 .. n /\ n - (k - 1) - 1 = n - k /\ n - (k - 1) = n - k + 1
    BY <1>2
  <2>2. q[k] = p[n] - p[n - k] /\ q[k - 1] = p[n] - p[n - (k - 1)]
    BY <2>1
  <2>3. p[n - (k - 1)] = p[n - k] + s[n - k + 1]
    BY <1>2, <2>1
  <2>4. p[n - k] \in Int /\ p[n - (k - 1)] \in Int /\ t[k] = s[n - k + 1]
        /\ s[n - k + 1] \in Int
    <3>1. t[k] \in Int
      BY <1>3
    <3>. QED  BY <1>2, <1>3, <2>1, <3>1
  <2>5. \A a, b, c, d \in Int : c = b + d => a - b = (a - c) + d
    OBVIOUS
  <2>6. p[n] - p[n - k] = (p[n] - p[n - (k - 1)]) + s[n - k + 1]
    <3>0. PICK a, b, c, d :
             a = p[n] /\ b = p[n - k] /\ c = p[n - (k - 1)] /\ d = s[n - k + 1]
      OBVIOUS
    <3>1. a \in Int /\ b \in Int /\ c \in Int /\ d \in Int /\ c = b + d
      BY <1>2, <2>3, <2>4, <3>0
    <3>. HIDE DEF t, q, n
    <3>2. a - b = (a - c) + d
      BY <2>5, <3>1
    <3>. QED  BY <3>0, <3>2
  <2>. HIDE DEF q, t, n
  <2>. QED  BY <2>2, <2>4, <2>6
<1>. HIDE DEF q, t
<1>6. SumsTo(t, q)
  BY <1>3, <1>4, <1>5 DEF SumsTo
<1>7. SumOf(t) = q[n] /\ SumOf(s) = p[n]
  BY <1>1, <1>3, <1>6, SumOfIs
<1>. QED  BY <1>4, <1>7 DEF t

\* h is f with v more at m.
Gains(f, h, S, m, v) ==
    /\ f \in [S -> Int] /\ h \in [S -> Int] /\ m \in S /\ v \in Int
    /\ h[m] = f[m] + v /\ \A x \in S \ {m} : h[x] = f[x]

FoldOf(F, f, S) == F \in [SUBSET S -> Int] /\ AddsUp(F, f, S)

\* One step of a fold.
LEMMA OneStep ==
    ASSUME NEW F, NEW f, NEW S, AddsUp(F, f, S), NEW s \in SUBSET S
    PROVE  F[s] = IF s = {} THEN 0 ELSE f[CHOOSE x \in s : TRUE] + F[s \ {CHOOSE x \in s : TRUE}]
  BY DEF AddsUp

\* So is its sum.
LEMMA SumMoves ==
    ASSUME NEW S, IsFiniteSet(S), NEW f, NEW h, NEW m, NEW v, Gains(f, h, S, m, v),
           NEW F, FoldOf(F, f, S), NEW H, FoldOf(H, h, S)
    PROVE  H[S] = F[S] + v
<1>. USE DEF Gains, FoldOf
<1>. DEFINE sizes == {n \in Nat : \E s \in SUBSET S : /\ Cardinality(s) = n
                                                      /\ H[s] # F[s] + IF m \in s THEN v ELSE 0}
<1>1. sizes = {}
  <2>1. SUFFICES ASSUME sizes # {} PROVE FALSE
    OBVIOUS
  <2>2. PICK n \in sizes : \A k \in sizes : n <= k
    <3>1. sizes \in SUBSET Nat
      OBVIOUS
    <3>. HIDE DEF sizes
    <3>. QED  BY <2>1, <3>1, LeastPlace
  <2>3. PICK s \in SUBSET S : Cardinality(s) = n /\ H[s] # F[s] + IF m \in s THEN v ELSE 0
    OBVIOUS
  <2>4. n \in Nat
    OBVIOUS
  <2>. PICK any : any = CHOOSE x \in s : TRUE
    OBVIOUS
  <2>. PICK rest : rest = s \ {any}
    OBVIOUS
  <2>5. /\ F[s] = IF s = {} THEN 0 ELSE f[any] + F[rest]
        /\ H[s] = IF s = {} THEN 0 ELSE h[any] + H[rest]
    <3>. HIDE DEF sizes
    <3>1. AddsUp(F, f, S) /\ AddsUp(H, h, S)
      OBVIOUS
    <3>. QED  BY <2>3, <3>1, OneStep
  <2>6. s # {}
    <3>. HIDE DEF sizes
    <3>. QED  BY <2>3, <2>5
  <2>7. any \in s /\ any \in S /\ rest \in SUBSET S
    BY <2>6
  <2>8. Cardinality(rest) \in Nat /\ Cardinality(rest) < n
    <3>1. IsFiniteSet(s)
      BY FS_Subset
    <3>2. /\ Cardinality(s) \in Nat /\ Cardinality(s \ {any}) = Cardinality(s) - 1
          /\ Cardinality(s \ {any}) \in Nat
      BY <2>7, <3>1, FS_RemoveElement, FS_CardinalityType
    <3>3. Cardinality(rest) = Cardinality(s \ {any})
      BY Zenon
    <3>4. Cardinality(s) = n
      BY <2>3
    <3>. HIDE DEF sizes
    <3>. QED  BY <3>2, <3>3, <3>4
  <2>9. H[rest] = F[rest] + IF m \in rest THEN v ELSE 0
    <3>. SUFFICES ASSUME H[rest] # F[rest] + IF m \in rest THEN v ELSE 0 PROVE FALSE
      OBVIOUS
    <3>1. Cardinality(rest) \in sizes
      BY <2>7, <2>8
    <3>. HIDE DEF sizes
    <3>. QED  BY <2>2, <2>4, <2>8, <3>1
  <2>. HIDE DEF sizes
  <2>10. f[any] \in Int /\ F[rest] \in Int /\ (m \in rest <=> m \in s /\ any # m)
    BY <2>7
  <2>11. CASE any = m
    <3>1. h[any] = f[any] + v /\ m \in s /\ m \notin rest
      BY <2>7, <2>10, <2>11
    <3>. QED  BY <2>3, <2>5, <2>6, <2>9, <2>10, <3>1
  <2>12. CASE any # m
    <3>1. h[any] = f[any] /\ (m \in rest <=> m \in s)
      BY <2>7, <2>10, <2>12
    <3>. QED  BY <2>3, <2>5, <2>6, <2>9, <2>10, <3>1
  <2>. QED  BY <2>11, <2>12
<1>2. Cardinality(S) \in Nat /\ S \in SUBSET S
  BY FS_CardinalityType
<1>3. H[S] = F[S] + IF m \in S THEN v ELSE 0
  <2>. SUFFICES ASSUME H[S] # F[S] + IF m \in S THEN v ELSE 0 PROVE FALSE
    OBVIOUS
  <2>1. Cardinality(S) \in sizes
    BY <1>2
  <2>. QED  BY <1>1, <2>1
<1>. QED  BY <1>3

\* What a vault holds of all (IsThat).
HeldSum(held) == Seqs!FoldFunction(+, 0, held)

\* The sum of what is held is the end of a fold over the members.
LEMMA HeldSumIs ==
    ASSUME NEW held \in [Members -> Int]
    PROVE  \E F : FoldOf(F, held, Members) /\ HeldSum(held) = F[Members]
<1>. PICK sum : sum = CHOOSE g : AddsUp(g, held, Members)
  OBVIOUS
<1>1. HeldSum(held) = sum[Members]
  <2>1. DOMAIN held = Members
    OBVIOUS
  <2>. QED  BY <2>1 DEF HeldSum, Seqs!FoldFunction, Seqs!FoldFunctionOnSet, Seqs!MapThenFoldSet, AddsUp
<1>2. IsFiniteSet(Members) /\ Int \in {Nat, Int} /\ \A a \in Members : held[a] \in Int
  BY FiguresAssumption
<1>3. sum \in [SUBSET Members -> Int] /\ AddsUp(sum, held, Members)
  BY <1>2, SumIs
<1>. QED  BY <1>1, <1>3 DEF FoldOf

\* It goes by what one of them gains or loses.
LEMMA HeldSumMoves ==
    ASSUME NEW held \in [Members -> Int], NEW a \in Members, NEW v \in Int
    PROVE  /\ HeldSum(held) \in Int
           /\ HeldSum([held EXCEPT ![a] = @ + v]) = HeldSum(held) + v
<1>. PICK next : next = [held EXCEPT ![a] = @ + v]
  OBVIOUS
<1>1. /\ next \in [Members -> Int] /\ next[a] = held[a] + v
      /\ \A x \in Members \ {a} : next[x] = held[x]
  OBVIOUS
<1>2. PICK F : FoldOf(F, held, Members) /\ HeldSum(held) = F[Members]
  BY HeldSumIs
<1>3. PICK H : FoldOf(H, next, Members) /\ HeldSum(next) = H[Members]
  BY <1>1, HeldSumIs
<1>4. IsFiniteSet(Members)
  BY FiguresAssumption
<1>5. Gains(held, next, Members, a, v)
  BY <1>1 DEF Gains
<1>6. H[Members] = F[Members] + v
  BY <1>2, <1>3, <1>4, <1>5, SumMoves
<1>7. F[Members] \in Int
  BY <1>2 DEF FoldOf
<1>. QED  BY <1>2, <1>3, <1>6, <1>7

\* Of a vault that holds nothing it is 0.
LEMMA NothingHeld == HeldSum([a \in Members |-> 0]) = 0
<1>. PICK held : held = [a \in Members |-> 0]
  OBVIOUS
<1>1. held \in [Members -> Int] /\ held \in [Members -> Nat]
  OBVIOUS
<1>2. PICK F : FoldOf(F, held, Members) /\ HeldSum(held) = F[Members]
  BY <1>1, HeldSumIs
<1>. DEFINE sizes == {n \in Nat : \E s \in SUBSET Members : Cardinality(s) = n /\ F[s] # 0}
<1>3. sizes = {}
  <2>1. SUFFICES ASSUME sizes # {} PROVE FALSE
    OBVIOUS
  <2>2. PICK n \in sizes : \A k \in sizes : n <= k
    <3>1. sizes \in SUBSET Nat
      OBVIOUS
    <3>. HIDE DEF sizes
    <3>. QED  BY <2>1, <3>1, LeastPlace
  <2>3. PICK s \in SUBSET Members : Cardinality(s) = n /\ F[s] # 0
    OBVIOUS
  <2>4. n \in Nat
    OBVIOUS
  <2>. PICK any : any = CHOOSE x \in s : TRUE
    OBVIOUS
  <2>. PICK rest : rest = s \ {any}
    OBVIOUS
  <2>5. F[s] = IF s = {} THEN 0 ELSE held[any] + F[rest]
    <3>. HIDE DEF sizes
    <3>. QED  BY <1>2 DEF FoldOf, AddsUp
  <2>6. s # {} /\ any \in s /\ any \in Members /\ rest \in SUBSET Members /\ held[any] = 0
    <3>. HIDE DEF sizes
    <3>1. s # {}
      BY <2>3, <2>5
    <3>. QED  BY <3>1
  <2>7. Cardinality(rest) \in Nat /\ Cardinality(rest) < n
    <3>1. IsFiniteSet(s)
      BY FiguresAssumption, FS_Subset
    <3>2. /\ Cardinality(s) \in Nat /\ Cardinality(s \ {any}) = Cardinality(s) - 1
          /\ Cardinality(s \ {any}) \in Nat
      BY <2>6, <3>1, FS_RemoveElement, FS_CardinalityType
    <3>3. Cardinality(rest) = Cardinality(s \ {any})
      BY Zenon
    <3>4. Cardinality(s) = n
      BY <2>3
    <3>. HIDE DEF sizes
    <3>. QED  BY <3>2, <3>3, <3>4
  <2>8. F[rest] = 0
    <3>. SUFFICES ASSUME F[rest] # 0 PROVE FALSE
      OBVIOUS
    <3>1. Cardinality(rest) \in sizes
      BY <2>6, <2>7
    <3>. HIDE DEF sizes
    <3>. QED  BY <2>2, <2>4, <2>7, <3>1
  <2>. HIDE DEF sizes
  <2>. QED  BY <2>3, <2>5, <2>6, <2>8
<1>4. F[Members] = 0
  <2>. SUFFICES ASSUME F[Members] # 0 PROVE FALSE
    OBVIOUS
  <2>1. Cardinality(Members) \in Nat /\ Members \in SUBSET Members
    BY FiguresAssumption, FS_CardinalityType
  <2>2. Cardinality(Members) \in sizes
    BY <2>1
  <2>. QED  BY <1>3, <2>2
<1>. QED  BY <1>2, <1>4

-----------------------------------------------------------------------------
(* Sequences from their beginnings, and the chosen elements of one.         *)

\* A sequence with an element more.
LEMMA LongerByOne ==
    ASSUME NEW V, NEW s \in Seq(V), NEW v \in V
    PROVE  /\ Append(s, v) \in Seq(V) /\ Append(s, v) # <<>>
           /\ Len(s) \in Nat /\ Len(Append(s, v)) = Len(s) + 1
           /\ DOMAIN s = 1 .. Len(s) /\ DOMAIN Append(s, v) = 1 .. Len(s) + 1
           /\ Append(s, v)[Len(s) + 1] = v
           /\ \A i \in 1 .. Len(s) : Append(s, v)[i] = s[i]
<1>. QED  OBVIOUS

\* Its elements are those there were, and the new one.
LEMMA AppendedIs ==
    ASSUME NEW V, NEW s \in Seq(V), NEW v \in V
    PROVE  /\ Append(s, v) \in Seq(V) /\ Append(s, v) # <<>>
           /\ \A i \in DOMAIN Append(s, v) : Append(s, v)[i] = v \/ (i \in DOMAIN s /\ Append(s, v)[i] = s[i])
<1>1. \A i \in 1 .. Len(s) + 1 : i = Len(s) + 1 \/ i \in 1 .. Len(s)
  OBVIOUS
<1>. QED  BY <1>1, LongerByOne

\* A set of sequences that has the empty one, and with one all that are one
\* longer, has them all.
LEMMA SeqInduction ==
    ASSUME NEW V, NEW T \in SUBSET Seq(V), <<>> \in T,
           \A s \in T : \A v \in V : Append(s, v) \in T
    PROVE  \A s \in Seq(V) : s \in T
<1>1. SUFFICES ASSUME NEW s \in Seq(V), s \notin T PROVE FALSE
  OBVIOUS
<1>. DEFINE begin(k) == [i \in 1 .. k |-> s[i]]
            missing == {k \in 0 .. Len(s) : begin(k) \notin T}
<1>2. Len(s) \in Nat /\ \A i \in 1 .. Len(s) : s[i] \in V
  OBVIOUS
<1>3. \A k \in 0 .. Len(s) : begin(k) \in Seq(V) /\ Len(begin(k)) = k
  <2>1. SUFFICES ASSUME NEW k \in 0 .. Len(s) PROVE begin(k) \in Seq(V) /\ Len(begin(k)) = k
    OBVIOUS
  <2>2. k \in Nat /\ begin(k) \in [1 .. k -> V]
    <3>1. \A i \in 1 .. k : i \in 1 .. Len(s)
      BY <1>2
    <3>. QED  BY <1>2, <3>1
  <2>3. \A m \in Nat : \A f \in [1 .. m -> V] : f \in Seq(V) /\ Len(f) = m
    BY SeqDef, LenProperties
  <2>. HIDE DEF begin
  <2>. QED  BY <2>2, <2>3
<1>4. begin(0) = <<>>
  OBVIOUS
<1>5. begin(Len(s)) = s
  <2>1. s \in [1 .. Len(s) -> V]
    OBVIOUS
  <2>. QED  BY <2>1
<1>6. \A k \in 1 .. Len(s) : begin(k) = Append(begin(k - 1), s[k])
  <2>1. SUFFICES ASSUME NEW k \in 1 .. Len(s) PROVE begin(k) = Append(begin(k - 1), s[k])
    OBVIOUS
  <2>2. k - 1 \in 0 .. Len(s) /\ k \in 0 .. Len(s) /\ s[k] \in V
    BY <1>2
  <2>3. begin(k - 1) \in Seq(V) /\ Len(begin(k - 1)) = k - 1 /\ begin(k) \in Seq(V) /\ Len(begin(k)) = k
    BY <1>3, <2>2
  <2>4. \A i \in 1 .. k - 1 : begin(k - 1)[i] = s[i]
    OBVIOUS
  <2>5. \A i \in 1 .. k : begin(k)[i] = s[i]
    OBVIOUS
  <2>. HIDE DEF begin
  <2>6. /\ Append(begin(k - 1), s[k]) \in Seq(V) /\ Len(Append(begin(k - 1), s[k])) = k
        /\ \A i \in 1 .. k : Append(begin(k - 1), s[k])[i] = s[i]
    <3>1. \A n, m \in Int : n = m - 1 => n + 1 = m
      OBVIOUS
    <3>2. Len(begin(k - 1)) + 1 = k /\ k - 1 \in Int
      BY <2>2, <2>3, <3>1
    <3>3. /\ Append(begin(k - 1), s[k]) \in Seq(V) /\ Len(Append(begin(k - 1), s[k])) = k
          /\ Append(begin(k - 1), s[k])[k] = s[k]
          /\ \A i \in 1 .. k - 1 : Append(begin(k - 1), s[k])[i] = begin(k - 1)[i]
      <4>. PICK b, e : b = begin(k - 1) /\ e = s[k]
        OBVIOUS
      <4>1. b \in Seq(V) /\ e \in V /\ Len(b) = k - 1 /\ Len(b) + 1 = k
        BY <2>2, <2>3, <3>2
      <4>2. /\ Append(b, e) \in Seq(V) /\ Len(Append(b, e)) = Len(b) + 1 /\ Append(b, e)[Len(b) + 1] = e
            /\ \A i \in 1 .. Len(b) : Append(b, e)[i] = b[i]
        BY <4>1, LongerByOne
      <4>3. /\ Append(b, e) \in Seq(V) /\ Len(Append(b, e)) = k /\ Append(b, e)[k] = e
            /\ \A i \in 1 .. k - 1 : Append(b, e)[i] = b[i]
        BY <4>1, <4>2
      <4>. QED  BY <4>3
    <3>4. \A i \in 1 .. k : i = k \/ i \in 1 .. k - 1
      OBVIOUS
    <3>. QED  BY <2>4, <3>3, <3>4
  <2>. QED  BY <2>3, <2>5, <2>6, SeqEqual
<1>. HIDE DEF begin
<1>7. missing = {}
  <2>1. SUFFICES ASSUME missing # {} PROVE FALSE
    OBVIOUS
  <2>2. missing \in SUBSET Nat
    BY <1>2
  <2>3. PICK k \in missing : \A j \in missing : k <= j
    <3>. HIDE DEF missing
    <3>. QED  BY <2>1, <2>2, LeastPlace
  <2>4. k \in 0 .. Len(s) /\ begin(k) \notin T
    OBVIOUS
  <2>5. k # 0 /\ k \in 1 .. Len(s) /\ k - 1 \in 0 .. Len(s) /\ ~(k <= k - 1)
    BY <1>2, <1>4, <2>4
  <2>6. begin(k - 1) \in T
    BY <2>3, <2>5
  <2>. QED  BY <1>2, <1>6, <2>4, <2>5, <2>6
<1>8. Len(s) \in 0 .. Len(s)
  BY <1>2
<1>. QED  BY <1>1, <1>5, <1>7, <1>8

\* c holds what is chosen of the first n of s, for every n.
Picks(c, s, places) ==
    c = [n \in 0 .. Len(s) |->
            IF n = 0 THEN <<>> ELSE IF n \in places THEN Append(c[n - 1], s[n]) ELSE c[n - 1]]

\* What Chosen computes is the last of these.
LEMMA ChosenIs ==
    ASSUME NEW s, Len(s) \in Nat, NEW places, NEW c, Picks(c, s, places)
    PROVE  Chosen(s, places) = c[Len(s)]
<1>. DEFINE n == Len(s)
            chosen == CHOOSE f : Picks(f, s, places)
            wrong == {k \in 0 .. n : chosen[k] # c[k]}
<1>1. Chosen(s, places) = chosen[n]
  BY DEF Chosen, Picks
<1>2. Picks(chosen, s, places)
  OBVIOUS
<1>. HIDE DEF chosen
<1>3. \A k \in 0 .. n : chosen[k] = IF k = 0 THEN <<>>
                                    ELSE IF k \in places THEN Append(chosen[k - 1], s[k]) ELSE chosen[k - 1]
  BY <1>2 DEF Picks
<1>4. \A k \in 0 .. n : c[k] = IF k = 0 THEN <<>>
                               ELSE IF k \in places THEN Append(c[k - 1], s[k]) ELSE c[k - 1]
  BY DEF Picks
<1>5. wrong = {}
  <2>1. SUFFICES ASSUME wrong # {} PROVE FALSE
    OBVIOUS
  <2>2. wrong \in SUBSET Nat
    OBVIOUS
  <2>3. PICK k \in wrong : \A j \in wrong : k <= j
    <3>. HIDE DEF wrong
    <3>. QED  BY <2>1, <2>2, LeastPlace
  <2>4. k \in 0 .. n /\ chosen[k] # c[k]
    OBVIOUS
  <2>5. k # 0
    BY <1>3, <1>4, <2>4
  <2>6. k - 1 \in 0 .. n /\ ~(k <= k - 1)
    BY <2>4, <2>5
  <2>7. chosen[k - 1] = c[k - 1]
    BY <2>3, <2>6
  <2>. QED  BY <1>3, <1>4, <2>4, <2>5, <2>7
<1>6. n \in 0 .. n
  OBVIOUS
<1>. QED  BY <1>1, <1>5, <1>6

\* There are such.
LEMMA PicksExist ==
    ASSUME NEW V, NEW s \in Seq(V), NEW places
    PROVE  \E c : Picks(c, s, places) /\ c \in [0 .. Len(s) -> Seq(V)]
<1>. DEFINE T == {t \in Seq(V) : \E c : Picks(c, t, places) /\ c \in [0 .. Len(t) -> Seq(V)]}
<1>1. <<>> \in T
  <2>. DEFINE c == [n \in 0 .. 0 |-> <<>>]
  <2>1. <<>> \in Seq(V) /\ Len(<<>>) = 0
    BY EmptySeq
  <2>2. Picks(c, <<>>, places) /\ c \in [0 .. 0 -> Seq(V)]
    BY <2>1 DEF Picks
  <2>. HIDE DEF c
  <2>. QED  BY <2>1, <2>2
<1>2. ASSUME NEW t \in T, NEW v \in V
      PROVE  Append(t, v) \in T
  <2>. DEFINE n == Len(t)
  <2>1. t \in Seq(V) /\ n \in Nat
    OBVIOUS
  <2>2. PICK c : Picks(c, t, places) /\ c \in [0 .. n -> Seq(V)]
    OBVIOUS
  <2>3. /\ Append(t, v) \in Seq(V) /\ Len(Append(t, v)) = n + 1
        /\ Append(t, v)[n + 1] = v /\ \A i \in 1 .. n : Append(t, v)[i] = t[i]
    BY <2>1
  <2>. DEFINE last == IF n + 1 \in places THEN Append(c[n], v) ELSE c[n]
              d == [k \in 0 .. n + 1 |-> IF k = n + 1 THEN last ELSE c[k]]
  <2>4. last \in Seq(V)
    <3>1. c[n] \in Seq(V)
      BY <2>1, <2>2
    <3>. QED  BY <3>1
  <2>. HIDE DEF last, n
  <2>5. \A k \in 0 .. n + 1 : k # n + 1 => k \in 0 .. n
    BY <2>1
  <2>6. d \in [0 .. n + 1 -> Seq(V)] /\ d[n + 1] = last /\ \A k \in 0 .. n : d[k] = c[k]
    BY <2>1, <2>2, <2>4, <2>5
  <2>. HIDE DEF d
  <2>7. ASSUME NEW k \in 0 .. n + 1
        PROVE  d[k] = IF k = 0 THEN <<>>
                      ELSE IF k \in places THEN Append(d[k - 1], Append(t, v)[k]) ELSE d[k - 1]
    <3>1. CASE k = n + 1
      <4>1. n \in 0 .. n /\ k - 1 = n /\ k # 0
        BY <2>1, <3>1
      <4>. QED  BY <2>3, <2>6, <3>1, <4>1 DEF last
    <3>2. CASE k = 0
      <4>1. 0 \in 0 .. n
        BY <2>1
      <4>2. c[0] = <<>>
        BY <2>2, <4>1 DEF Picks, n
      <4>. QED  BY <2>6, <3>2, <4>1, <4>2
    <3>3. CASE k # 0 /\ k # n + 1
      <4>1. k \in 0 .. n /\ k - 1 \in 0 .. n /\ k \in 1 .. n
        BY <2>1, <3>3
      <4>2. c[k] = IF k \in places THEN Append(c[k - 1], t[k]) ELSE c[k - 1]
        BY <2>2, <3>3, <4>1 DEF Picks, n
      <4>. QED  BY <2>3, <2>6, <3>3, <4>1, <4>2
    <3>. QED  BY <3>1, <3>2, <3>3
  <2>8. Picks(d, Append(t, v), places)
    <3>1. d = [k \in 0 .. n + 1 |-> d[k]]
      BY <2>6
    <3>. QED  BY <2>3, <2>7, <3>1 DEF Picks
  <2>. QED  BY <2>3, <2>6, <2>8
<1>. HIDE DEF T
<1>3. s \in T
  <2>1. T \in SUBSET Seq(V)
    BY DEF T
  <2>. QED  BY <1>1, <1>2, <2>1, SeqInduction
<1>. QED  BY <1>3 DEF T

\* The elements of s that are of W.
Those(s, W) == Chosen(s, {i \in DOMAIN s : s[i] \in W})

\* None of nothing, and the last of a sequence comes last.
LEMMA ThoseGrow ==
    ASSUME NEW V, NEW W
    PROVE  /\ Those(<<>>, W) = <<>>
           /\ \A s \in Seq(V) : \A v \in V :
                 /\ Those(s, W) \in Seq(V)
                 /\ Those(Append(s, v), W) = IF v \in W THEN Append(Those(s, W), v) ELSE Those(s, W)
<1>1. Those(<<>>, W) = <<>>
  <2>. DEFINE c == [n \in 0 .. 0 |-> <<>>]
  <2>1. Len(<<>>) = 0
    OBVIOUS
  <2>2. ASSUME NEW places PROVE Chosen(<<>>, places) = <<>>
    <3>1. Picks(c, <<>>, places)
      BY <2>1 DEF Picks
    <3>2. c[0] = <<>>
      OBVIOUS
    <3>. HIDE DEF c
    <3>. QED  BY <2>1, <3>1, <3>2, ChosenIs
  <2>. QED  BY <2>2 DEF Those
<1>2. ASSUME NEW s \in Seq(V), NEW v \in V
      PROVE  /\ Those(s, W) \in Seq(V)
             /\ Those(Append(s, v), W) = IF v \in W THEN Append(Those(s, W), v) ELSE Those(s, W)
  <2>. DEFINE n == Len(s)
              t == Append(s, v)
              P == {i \in DOMAIN s : s[i] \in W}
              Q == {i \in DOMAIN t : t[i] \in W}
  <2>1. /\ n \in Nat /\ t \in Seq(V) /\ Len(t) = n + 1 /\ t[n + 1] = v
        /\ DOMAIN s = 1 .. n /\ DOMAIN t = 1 .. n + 1 /\ \A i \in 1 .. n : t[i] = s[i]
    OBVIOUS
  <2>. HIDE DEF t, n
  <2>2. \A i \in 1 .. n : i \in P <=> i \in Q
    BY <2>1
  <2>3. n + 1 \in Q <=> v \in W
    BY <2>1
  <2>4. Those(s, W) = Chosen(s, P) /\ Those(t, W) = Chosen(t, Q)
    BY DEF Those
  <2>. HIDE DEF P, Q
  <2>5. PICK c : Picks(c, t, Q) /\ c \in [0 .. n + 1 -> Seq(V)]
    BY <2>1, PicksExist
  <2>6. \A k \in 0 .. n + 1 : c[k] = IF k = 0 THEN <<>> ELSE IF k \in Q THEN Append(c[k - 1], t[k]) ELSE c[k - 1]
    BY <2>1, <2>5 DEF Picks
  <2>. DEFINE b == [k \in 0 .. n |-> c[k]]
  <2>7. b \in [0 .. n -> Seq(V)] /\ \A k \in 0 .. n : b[k] = c[k]
    <3>1. \A k \in 0 .. n : k \in 0 .. n + 1
      BY <2>1
    <3>. QED  BY <2>5, <3>1
  <2>. HIDE DEF b
  <2>8. Picks(b, s, P)
    <3>1. ASSUME NEW k \in 0 .. n
          PROVE  b[k] = IF k = 0 THEN <<>> ELSE IF k \in P THEN Append(b[k - 1], s[k]) ELSE b[k - 1]
      <4>1. k \in 0 .. n + 1 /\ (k # 0 => k \in 1 .. n /\ k - 1 \in 0 .. n)
        BY <2>1
      <4>. QED  BY <2>1, <2>2, <2>6, <2>7, <4>1
    <3>2. b = [k \in 0 .. n |-> b[k]]
      BY <2>7
    <3>. QED  BY <2>1, <3>1, <3>2 DEF Picks, n
  <2>9. n \in 0 .. n /\ n \in 0 .. n + 1 /\ n + 1 \in 0 .. n + 1 /\ n + 1 # 0 /\ n + 1 - 1 = n
    BY <2>1
  <2>10. Chosen(s, P) = c[n]
    BY <2>1, <2>7, <2>8, <2>9, ChosenIs DEF n
  <2>11. Chosen(t, Q) = c[n + 1]
    <3>1. Len(t) \in Nat
      BY <2>1
    <3>2. Chosen(t, Q) = c[Len(t)]
      BY <2>5, <3>1, ChosenIs
    <3>. QED  BY <2>1, <3>2
  <2>12. c[n + 1] = IF n + 1 \in Q THEN Append(c[n], v) ELSE c[n]
    BY <2>1, <2>6, <2>9
  <2>13. c[n] \in Seq(V)
    BY <2>5, <2>9
  <2>. QED  BY <2>3, <2>4, <2>10, <2>11, <2>12, <2>13 DEF t
<1>. QED  BY <1>1, <1>2

\* They are of W, and are none only if none is.
LEMMA ThoseAre ==
    ASSUME NEW V, NEW W, NEW s \in Seq(V)
    PROVE  /\ Those(s, W) \in Seq(V) /\ \A i \in DOMAIN Those(s, W) : Those(s, W)[i] \in W
           /\ Those(s, W) = <<>> => \A i \in DOMAIN s : s[i] \notin W
<1>. DEFINE Good(t) == /\ \A i \in DOMAIN Those(t, W) : Those(t, W)[i] \in W
                       /\ Those(t, W) = <<>> => \A i \in DOMAIN t : t[i] \notin W
            T == {t \in Seq(V) : Good(t)}
<1>1. <<>> \in T
  BY ThoseGrow, EmptySeq
<1>2. ASSUME NEW t \in T, NEW v \in V
      PROVE  Append(t, v) \in T
  <2>1. t \in Seq(V) /\ Those(t, W) \in Seq(V) /\ Good(t)
        /\ Those(Append(t, v), W) = IF v \in W THEN Append(Those(t, W), v) ELSE Those(t, W)
    <3>1. t \in Seq(V) /\ Good(t)
      OBVIOUS
    <3>2. /\ Those(t, W) \in Seq(V)
          /\ Those(Append(t, v), W) = IF v \in W THEN Append(Those(t, W), v) ELSE Those(t, W)
      <4>. HIDE DEF Good, T
      <4>1. t \in Seq(V)
        BY <3>1
      <4>. QED  BY <4>1, ThoseGrow
    <3>. QED  BY <3>1, <3>2
  <2>2. /\ Append(t, v) \in Seq(V)
        /\ \A i \in DOMAIN Append(t, v) : Append(t, v)[i] = v \/ (i \in DOMAIN t /\ Append(t, v)[i] = t[i])
    BY <2>1, AppendedIs
  <2>3. CASE v \in W
    <3>1. /\ Append(Those(t, W), v) # <<>>
          /\ \A i \in DOMAIN Append(Those(t, W), v) :
                Append(Those(t, W), v)[i] = v
                \/ (i \in DOMAIN Those(t, W) /\ Append(Those(t, W), v)[i] = Those(t, W)[i])
      BY <2>1, AppendedIs
    <3>. QED  BY <2>1, <2>2, <2>3, <3>1
  <2>4. CASE v \notin W
    BY <2>1, <2>2, <2>4
  <2>. QED  BY <2>3, <2>4
<1>. HIDE DEF T
<1>3. s \in T
  <2>1. T \in SUBSET Seq(V)
    BY DEF T
  <2>. QED  BY <1>1, <1>2, <2>1, SeqInduction
<1>4. Good(s)
  BY <1>3 DEF T
<1>5. Those(s, W) \in Seq(V)
  <2>1. CASE V = {}
    <3>1. s = <<>>
      BY <2>1
    <3>. QED  BY <3>1, ThoseGrow, EmptySeq
  <2>2. CASE V # {}
    BY <2>2, ThoseGrow
  <2>. QED  BY <2>1, <2>2
<1>. QED  BY <1>4, <1>5

-----------------------------------------------------------------------------
(* Sums over a sequence, of a weight that each element has.                 *)

Weigh(s, f) == SumOf([i \in DOMAIN s |-> f[s[i]]])

\* An element more adds its weight.
LEMMA WeighGrow ==
    ASSUME NEW V, NEW f \in [V -> Int]
    PROVE  /\ Weigh(<<>>, f) = 0
           /\ \A s \in Seq(V) : Weigh(s, f) \in Int
           /\ \A s \in Seq(V) : \A v \in V : Weigh(Append(s, v), f) = Weigh(s, f) + f[v]
<1>. DEFINE g(s) == [i \in DOMAIN s |-> f[s[i]]]
<1>1. ASSUME NEW s \in Seq(V)
      PROVE  g(s) \in Seq(Int) /\ Len(g(s)) = Len(s) /\ DOMAIN s = 1 .. Len(s) /\ Len(s) \in Nat
             /\ \A i \in 1 .. Len(s) : g(s)[i] = f[s[i]]
  <2>1. Len(s) \in Nat /\ DOMAIN s = 1 .. Len(s) /\ g(s) \in [1 .. Len(s) -> Int]
    OBVIOUS
  <2>2. \A m \in Nat : \A h \in [1 .. m -> Int] : h \in Seq(Int) /\ Len(h) = m
    BY SeqDef, LenProperties
  <2>3. \A i \in 1 .. Len(s) : g(s)[i] = f[s[i]]
    BY <2>1
  <2>. HIDE DEF g
  <2>. QED  BY <2>1, <2>2, <2>3
<1>2. Weigh(<<>>, f) = 0
  <2>. DEFINE p == [n \in 0 .. 0 |-> 0]
  <2>1. <<>> \in Seq(Int) /\ Len(<<>>) = 0
    BY EmptySeq
  <2>2. SumsTo(<<>>, p) /\ p[0] = 0
    BY <2>1 DEF SumsTo
  <2>. HIDE DEF p
  <2>3. SumOf(<<>>) = 0
    BY <2>1, <2>2, SumOfIs
  <2>4. [i \in DOMAIN <<>> |-> f[<<>>[i]]] = <<>>
    OBVIOUS
  <2>. QED  BY <2>3, <2>4 DEF Weigh
<1>3. ASSUME NEW s \in Seq(V)
      PROVE  Weigh(s, f) \in Int
  <2>1. g(s) \in Seq(Int)
    BY <1>1
  <2>2. SumOf(g(s)) \in Int
    <3>. HIDE DEF g
    <3>1. 0 \in Int
      OBVIOUS
    <3>. QED  BY <2>1, <3>1, SumOfAppend
  <2>. QED  BY <2>2 DEF Weigh
<1>4. ASSUME NEW s \in Seq(V), NEW v \in V
      PROVE  Weigh(Append(s, v), f) = Weigh(s, f) + f[v]
  <2>1. /\ Append(s, v) \in Seq(V) /\ Len(Append(s, v)) = Len(s) + 1 /\ Append(s, v)[Len(s) + 1] = v
        /\ \A i \in 1 .. Len(s) : Append(s, v)[i] = s[i]
    BY LongerByOne
  <2>2. /\ g(s) \in Seq(Int) /\ Len(g(s)) = Len(s) /\ \A i \in 1 .. Len(s) : g(s)[i] = f[s[i]]
        /\ Len(s) \in Nat /\ f[v] \in Int
    BY <1>1
  <2>3. /\ g(Append(s, v)) \in Seq(Int) /\ Len(g(Append(s, v))) = Len(s) + 1
        /\ \A i \in 1 .. Len(s) + 1 : g(Append(s, v))[i] = f[Append(s, v)[i]]
    <3>. PICK t : t = Append(s, v)
      OBVIOUS
    <3>1. t \in Seq(V) /\ Len(t) = Len(s) + 1
      BY <2>1
    <3>. HIDE DEF g
    <3>. QED  BY <1>1, <3>1
  <2>. HIDE DEF g
  <2>4. g(Append(s, v)) = Append(g(s), f[v])
    <3>1. /\ Append(g(s), f[v]) \in Seq(Int) /\ Len(Append(g(s), f[v])) = Len(s) + 1
          /\ Append(g(s), f[v])[Len(s) + 1] = f[v]
          /\ \A i \in 1 .. Len(s) : Append(g(s), f[v])[i] = g(s)[i]
      <4>. PICK t, e : t = g(s) /\ e = f[v]
        OBVIOUS
      <4>1. t \in Seq(Int) /\ e \in Int /\ Len(t) = Len(s)
        BY <2>2
      <4>2. /\ Append(t, e) \in Seq(Int) /\ Len(Append(t, e)) = Len(t) + 1 /\ Append(t, e)[Len(t) + 1] = e
            /\ \A i \in 1 .. Len(t) : Append(t, e)[i] = t[i]
        BY <4>1, LongerByOne
      <4>. QED  BY <4>1, <4>2
    <3>2. \A i \in 1 .. Len(s) + 1 : i = Len(s) + 1 \/ i \in 1 .. Len(s)
      BY <2>2
    <3>3. \A i \in 1 .. Len(s) + 1 : g(Append(s, v))[i] = Append(g(s), f[v])[i]
      BY <2>1, <2>2, <2>3, <3>1, <3>2
    <3>. QED  BY <2>3, <3>1, <3>3, SeqEqual
  <2>5. SumOf(g(Append(s, v))) = SumOf(g(s)) + f[v]
    BY <2>2, <2>4, SumOfAppend
  <2>. QED  BY <2>5 DEF Weigh, g
<1>. QED  BY <1>2, <1>3, <1>4

\* The weights of the elements of W are those of all, where others weigh nothing.
LEMMA WeighThose ==
    ASSUME NEW V, NEW W, NEW f \in [V -> Int], NEW s \in Seq(V)
    PROVE  Weigh(Those(s, W), f) = Weigh(s, [v \in V |-> IF v \in W THEN f[v] ELSE 0])
<1>. DEFINE g == [v \in V |-> IF v \in W THEN f[v] ELSE 0]
            T == {t \in Seq(V) : Weigh(Those(t, W), f) = Weigh(t, g)}
<1>1. g \in [V -> Int] /\ \A v \in V : g[v] = IF v \in W THEN f[v] ELSE 0
  OBVIOUS
<1>. HIDE DEF g
<1>2. <<>> \in T
  <2>1. <<>> \in Seq(V) /\ Those(<<>>, W) = <<>>
    BY ThoseGrow, EmptySeq
  <2>. QED  BY <1>1, <2>1, WeighGrow
<1>3. ASSUME NEW t \in T, NEW v \in V
      PROVE  Append(t, v) \in T
  <2>1. t \in Seq(V) /\ Weigh(Those(t, W), f) = Weigh(t, g)
    OBVIOUS
  <2>. HIDE DEF T
  <2>2. /\ Those(t, W) \in Seq(V) /\ Append(t, v) \in Seq(V)
        /\ Those(Append(t, v), W) = IF v \in W THEN Append(Those(t, W), v) ELSE Those(t, W)
    <3>1. Append(t, v) \in Seq(V)
      BY <2>1, LongerByOne
    <3>2. /\ Those(t, W) \in Seq(V)
          /\ Those(Append(t, v), W) = IF v \in W THEN Append(Those(t, W), v) ELSE Those(t, W)
      BY <2>1, ThoseGrow
    <3>. QED  BY <3>1, <3>2
  <2>3. Weigh(Append(t, v), g) = Weigh(t, g) + g[v] /\ Weigh(t, g) \in Int /\ g[v] \in Int
    BY <1>1, <2>1, WeighGrow
  <2>4. Weigh(Append(Those(t, W), v), f) = Weigh(Those(t, W), f) + f[v]
    BY <2>2, WeighGrow
  <2>5. Weigh(Those(Append(t, v), W), f) = Weigh(Append(t, v), g)
    <3>1. CASE v \in W
      BY <1>1, <2>1, <2>2, <2>3, <2>4, <3>1
    <3>2. CASE v \notin W
      <4>1. \A n \in Int : n + 0 = n
        OBVIOUS
      <4>. QED  BY <1>1, <2>1, <2>2, <2>3, <3>2, <4>1
    <3>. QED  BY <3>1, <3>2
  <2>. QED  BY <2>2, <2>5 DEF T
<1>4. T \in SUBSET Seq(V)
  OBVIOUS
<1>. HIDE DEF T
<1>5. s \in T
  BY <1>2, <1>3, <1>4, SeqInduction
<1>. QED  BY <1>5 DEF T, g

\* Weights that add up to others do so over a sequence; so do smaller ones.
LEMMA WeighAdds ==
    ASSUME NEW V, NEW f \in [V -> Int], NEW g \in [V -> Int], NEW h \in [V -> Int],
           \A v \in V : h[v] = f[v] + g[v], NEW s \in Seq(V)
    PROVE  Weigh(s, h) = Weigh(s, f) + Weigh(s, g)
<1>. DEFINE T == {t \in Seq(V) : Weigh(t, h) = Weigh(t, f) + Weigh(t, g)}
<1>1. <<>> \in T
  <2>1. <<>> \in Seq(V)
    BY EmptySeq
  <2>2. Weigh(<<>>, f) = 0 /\ Weigh(<<>>, g) = 0
    BY WeighGrow
  <2>3. Weigh(<<>>, h) = 0
    BY WeighGrow
  <2>. QED  BY <2>1, <2>2, <2>3
<1>2. ASSUME NEW t \in T, NEW v \in V
      PROVE  Append(t, v) \in T
  <2>1. t \in Seq(V) /\ Weigh(t, h) = Weigh(t, f) + Weigh(t, g)
    OBVIOUS
  <2>. HIDE DEF T
  <2>2. Weigh(Append(t, v), h) = Weigh(t, h) + h[v]
    BY <2>1, WeighGrow
  <2>3. Weigh(Append(t, v), f) = Weigh(t, f) + f[v] /\ Weigh(t, f) \in Int
    BY <2>1, WeighGrow
  <2>4. Weigh(Append(t, v), g) = Weigh(t, g) + g[v] /\ Weigh(t, g) \in Int
    BY <2>1, WeighGrow
  <2>5. Append(t, v) \in Seq(V)
    BY <2>1, LongerByOne
  <2>. QED  BY <2>1, <2>2, <2>3, <2>4, <2>5 DEF T
<1>3. T \in SUBSET Seq(V)
  OBVIOUS
<1>. HIDE DEF T
<1>4. s \in T
  BY <1>1, <1>2, <1>3, SeqInduction
<1>. QED  BY <1>4 DEF T

\* Smaller weights come to no more.
LEMMA WeighBelow ==
    ASSUME NEW V, NEW f \in [V -> Int], NEW g \in [V -> Int],
           \A v \in V : f[v] <= g[v], NEW s \in Seq(V)
    PROVE  Weigh(s, f) <= Weigh(s, g)
<1>. DEFINE T == {t \in Seq(V) : Weigh(t, f) <= Weigh(t, g)}
<1>1. <<>> \in T
  <2>1. <<>> \in Seq(V)
    BY EmptySeq
  <2>2. Weigh(<<>>, f) = 0 /\ Weigh(<<>>, g) = 0
    BY WeighGrow
  <2>. QED  BY <2>1, <2>2
<1>2. ASSUME NEW t \in T, NEW v \in V
      PROVE  Append(t, v) \in T
  <2>1. t \in Seq(V) /\ Weigh(t, f) <= Weigh(t, g)
    OBVIOUS
  <2>. HIDE DEF T
  <2>2. Weigh(Append(t, v), f) = Weigh(t, f) + f[v] /\ Weigh(t, f) \in Int
    BY <2>1, WeighGrow
  <2>3. Weigh(Append(t, v), g) = Weigh(t, g) + g[v] /\ Weigh(t, g) \in Int
    BY <2>1, WeighGrow
  <2>4. Append(t, v) \in Seq(V)
    BY <2>1, LongerByOne
  <2>. QED  BY <2>1, <2>2, <2>3, <2>4 DEF T
<1>3. T \in SUBSET Seq(V)
  OBVIOUS
<1>. HIDE DEF T
<1>4. s \in T
  BY <1>1, <1>2, <1>3, SeqInduction
<1>. QED  BY <1>4 DEF T

\* Of the same weights on the elements there are, the sum is the same.
LEMMA WeighSame ==
    ASSUME NEW V, NEW s \in Seq(V), NEW f, NEW g, \A v \in V : f[v] = g[v]
    PROVE  Weigh(s, f) = Weigh(s, g)
<1>1. \A i \in DOMAIN s : s[i] \in V
  OBVIOUS
<1>2. [i \in DOMAIN s |-> f[s[i]]] = [i \in DOMAIN s |-> g[s[i]]]
  BY <1>1
<1>. QED  BY <1>2 DEF Weigh

\* Weights of zero come to nothing.
LEMMA WeighNothing ==
    ASSUME NEW V, NEW f, \A v \in V : f[v] = 0, NEW s \in Seq(V)
    PROVE  Weigh(s, f) = 0
<1>. DEFINE g == [v \in V |-> 0]
<1>1. g \in [V -> Int] /\ (\A v \in V : g[v] = 0) /\ (\A v \in V : g[v] = f[v])
      /\ (\A v \in V : g[v] = g[v] + g[v])
  OBVIOUS
<1>. HIDE DEF g
<1>2. Weigh(s, g) = Weigh(s, g) + Weigh(s, g)
  BY <1>1, WeighAdds
<1>3. Weigh(s, g) \in Int
  BY <1>1, WeighGrow
<1>4. Weigh(s, g) = Weigh(s, f)
  BY <1>1, WeighSame
<1>. QED  BY <1>2, <1>3, <1>4

\* Weights that are natural numbers come to one.
LEMMA WeighNat ==
    ASSUME NEW V, NEW f \in [V -> Nat], NEW s \in Seq(V)
    PROVE  Weigh(s, f) \in Nat
<1>. DEFINE g == [v \in V |-> 0]
<1>1. f \in [V -> Int] /\ g \in [V -> Int] /\ (\A v \in V : g[v] = 0) /\ (\A v \in V : g[v] <= f[v])
  OBVIOUS
<1>. HIDE DEF g
<1>2. Weigh(s, f) \in Int /\ Weigh(s, g) = 0 /\ Weigh(s, g) <= Weigh(s, f)
  BY <1>1, WeighGrow, WeighBelow, WeighNothing
<1>. QED  BY <1>2

\* Of one sequence after another, both.
LEMMA WeighJoined ==
    ASSUME NEW V, NEW f \in [V -> Int], NEW s \in Seq(V), NEW u \in Seq(V)
    PROVE  Weigh(s \o u, f) = Weigh(s, f) + Weigh(u, f)
<1>. DEFINE T == {t \in Seq(V) : Weigh(s \o t, f) = Weigh(s, f) + Weigh(t, f)}
<1>1. Weigh(s, f) \in Int
  BY WeighGrow
<1>2. <<>> \in T
  <2>1. <<>> \in Seq(V) /\ s \o <<>> = s
    BY EmptySeq, ConcatEmptySeq
  <2>2. Weigh(<<>>, f) = 0
    BY WeighGrow
  <2>. QED  BY <1>1, <2>1, <2>2
<1>3. ASSUME NEW t \in T, NEW v \in V
      PROVE  Append(t, v) \in T
  <2>1. t \in Seq(V) /\ Weigh(s \o t, f) = Weigh(s, f) + Weigh(t, f)
    OBVIOUS
  <2>. HIDE DEF T
  <2>2. Append(t, v) \in Seq(V) /\ s \o t \in Seq(V) /\ <<v>> \in Seq(V)
    BY <2>1, LongerByOne, ConcatProperties
  <2>3. s \o Append(t, v) = Append(s \o t, v)
    <3>1. Append(t, v) = t \o <<v>> /\ Append(s \o t, v) = (s \o t) \o <<v>>
      BY <2>1, <2>2, AppendIsConcat
    <3>2. (s \o t) \o <<v>> = s \o (t \o <<v>>)
      BY <2>1, <2>2, ConcatAssociative
    <3>. QED  BY <3>1, <3>2
  <2>4. Weigh(Append(s \o t, v), f) = Weigh(s \o t, f) + f[v]
    BY <2>2, WeighGrow
  <2>5. Weigh(Append(t, v), f) = Weigh(t, f) + f[v] /\ Weigh(t, f) \in Int /\ f[v] \in Int
    BY <2>1, WeighGrow
  <2>6. \A a, b, c \in Int : a + b + c = a + (b + c)
    OBVIOUS
  <2>7. Weigh(s \o Append(t, v), f) = Weigh(s, f) + Weigh(Append(t, v), f)
    BY <1>1, <2>1, <2>3, <2>4, <2>5, <2>6
  <2>. QED  BY <2>2, <2>7 DEF T
<1>4. T \in SUBSET Seq(V)
  OBVIOUS
<1>. HIDE DEF T
<1>5. u \in T
  BY <1>2, <1>3, <1>4, SeqInduction
<1>. QED  BY <1>5 DEF T

-----------------------------------------------------------------------------
(* Sums of two sequences that are as long, place by place.                  *)

\* A sum is that of its places, each weighing what is there; what holds of
\* weights holds of sums.
LEMMA SumAsWeigh ==
    ASSUME NEW n \in Nat, NEW s \in [1 .. n -> Int]
    PROVE  /\ [i \in 1 .. n |-> i] \in Seq(1 .. n) /\ SumOf(s) = Weigh([i \in 1 .. n |-> i], s)
           /\ s \in Seq(Int) /\ Len(s) = n
<1>1. \A m \in Nat : \A f \in [1 .. m -> Int] : f \in Seq(Int) /\ Len(f) = m
  BY SeqDef, LenProperties
<1>2. [i \in 1 .. n |-> i] \in Seq(1 .. n)
  <2>1. \A f \in [1 .. n -> 1 .. n] : f \in Seq(1 .. n)
    BY SeqDef
  <2>. QED  BY <2>1
<1>3. [k \in DOMAIN [i \in 1 .. n |-> i] |-> s[[i \in 1 .. n |-> i][k]]] = s
  OBVIOUS
<1>. QED  BY <1>1, <1>2, <1>3 DEF Weigh

\* The sum of what two sequences have in each place.
LEMMA SumAdds ==
    ASSUME NEW n \in Nat, NEW s \in [1 .. n -> Int], NEW t \in [1 .. n -> Int], NEW u \in [1 .. n -> Int],
           \A i \in 1 .. n : u[i] = s[i] + t[i]
    PROVE  SumOf(u) = SumOf(s) + SumOf(t)
<1>. DEFINE id == [i \in 1 .. n |-> i]
<1>1. id \in Seq(1 .. n) /\ SumOf(s) = Weigh(id, s) /\ SumOf(t) = Weigh(id, t) /\ SumOf(u) = Weigh(id, u)
  BY SumAsWeigh
<1>. HIDE DEF id
<1>2. Weigh(id, u) = Weigh(id, s) + Weigh(id, t)
  BY <1>1, WeighAdds
<1>. QED  BY <1>1, <1>2

\* A sum of integers is one.
LEMMA SumIsInt ==
    ASSUME NEW n \in Nat, NEW s \in [1 .. n -> Int]
    PROVE  SumOf(s) \in Int
<1>. DEFINE id == [i \in 1 .. n |-> i]
<1>1. id \in Seq(1 .. n) /\ SumOf(s) = Weigh(id, s)
  BY SumAsWeigh
<1>. HIDE DEF id
<1>. QED  BY <1>1, WeighGrow

\* A sum of natural numbers is one.
LEMMA SumIsNat ==
    ASSUME NEW n \in Nat, NEW s \in [1 .. n -> Nat]
    PROVE  SumOf(s) \in Nat
<1>. DEFINE id == [i \in 1 .. n |-> i]
<1>0. s \in [1 .. n -> Int]
  OBVIOUS
<1>1. id \in Seq(1 .. n) /\ SumOf(s) = Weigh(id, s)
  BY <1>0, SumAsWeigh
<1>. HIDE DEF id
<1>. QED  BY <1>1, WeighNat

\* One place that differs is the difference of the sums.
LEMMA SumDiffers ==
    ASSUME NEW n \in Nat, NEW s \in [1 .. n -> Int], NEW t \in [1 .. n -> Int], NEW k \in 1 .. n,
           \A i \in 1 .. n : i # k => t[i] = s[i]
    PROVE  SumOf(t) = SumOf(s) + (t[k] - s[k])
<1>. DEFINE d == t[k] - s[k]
            only == [i \in 1 .. n |-> IF i = k THEN d ELSE 0]
            p == [i \in 0 .. n |-> IF i >= k THEN d ELSE 0]
<1>1. d \in Int /\ k \in Nat /\ k >= 1 /\ k <= n
  OBVIOUS
<1>2. t[k] = s[k] + d
  OBVIOUS
<1>. HIDE DEF d
<1>3. only \in [1 .. n -> Int]
  BY <1>1
<1>4. \A i \in 1 .. n : t[i] = s[i] + only[i]
  <2>1. \A i \in 1 .. n : s[i] \in Int /\ s[i] + 0 = s[i]
    OBVIOUS
  <2>. QED  BY <1>2, <2>1
<1>5. SumOf(only) = d
  <2>1. only \in Seq(Int) /\ Len(only) = n
    <3>. HIDE DEF only
    <3>. QED  BY <1>3, SumAsWeigh
  <2>2. p \in [0 .. n -> Int] /\ p[0] = 0 /\ p[n] = d
    BY <1>1
  <2>3. \A i \in 1 .. n : p[i] = p[i - 1] + only[i]
    <3>1. SUFFICES ASSUME NEW i \in 1 .. n PROVE p[i] = p[i - 1] + only[i]
      OBVIOUS
    <3>2. p[i] = (IF i >= k THEN d ELSE 0) /\ only[i] = (IF i = k THEN d ELSE 0)
      OBVIOUS
    <3>3. p[i - 1] = IF i - 1 >= k THEN d ELSE 0
      OBVIOUS
    <3>. HIDE DEF p, only
    <3>. QED  BY <1>1, <3>2, <3>3
  <2>. HIDE DEF p, only
  <2>4. SumsTo(only, p)
    BY <2>1, <2>2, <2>3 DEF SumsTo
  <2>. QED  BY <2>1, <2>2, <2>4, SumOfIs
<1>. HIDE DEF only
<1>6. SumOf(t) = SumOf(s) + SumOf(only)
  BY <1>3, <1>4, SumAdds
<1>. QED  BY <1>5, <1>6 DEF d

\* Nothing at every place is nothing; and a sum of none below zero is as much as
\* any of them.
LEMMA SumNothing ==
    ASSUME NEW n \in Nat, NEW s \in [1 .. n -> Int], \A i \in 1 .. n : s[i] = 0
    PROVE  SumOf(s) = 0
<1>1. \A i \in 1 .. n : s[i] = s[i] + s[i]
  OBVIOUS
<1>2. SumOf(s) = SumOf(s) + SumOf(s)
  BY <1>1, SumAdds
<1>3. SumOf(s) \in Int
  BY SumIsInt
<1>. QED  BY <1>2, <1>3

\* No natural number of a sequence is more than their sum.
LEMMA SumHasEach ==
    ASSUME NEW n \in Nat, NEW s \in [1 .. n -> Nat], NEW k \in 1 .. n
    PROVE  s[k] <= SumOf(s)
<1>. DEFINE t == [s EXCEPT ![k] = 0]
<1>1. /\ s \in [1 .. n -> Int] /\ t \in [1 .. n -> Int] /\ t \in [1 .. n -> Nat] /\ t[k] = 0 /\ s[k] \in Nat
      /\ \A i \in 1 .. n : i # k => t[i] = s[i]
  OBVIOUS
<1>. HIDE DEF t
<1>2. SumOf(t) = SumOf(s) + (t[k] - s[k])
  BY <1>1, SumDiffers
<1>3. SumOf(t) \in Nat
  BY <1>1, SumIsNat
<1>4. SumOf(s) \in Int
  BY <1>1, SumIsInt
<1>. QED  BY <1>1, <1>2, <1>3, <1>4

-----------------------------------------------------------------------------
(* Largest-remainder rounding (Nudged, Corrected, RoundToTotal).            *)

TermType == [sign : {1, -1}, atto : Nat]

\* Of places with an error each, one is the first of those with the least.
LEMMA LeastError ==
    ASSUME NEW able \in SUBSET Nat, able # {}, NEW error, \A i \in able : error[i] \in Nat
    PROVE  \E i \in able : \A j \in able : error[i] < error[j] \/ (error[i] = error[j] /\ i <= j)
<1>. DEFINE errors == {error[i] : i \in able}
<1>1. errors \in SUBSET Nat /\ errors # {}
  OBVIOUS
<1>2. PICK e \in errors : \A f \in errors : e <= f
  <2>. HIDE DEF errors
  <2>. QED  BY <1>1, LeastPlace
<1>. DEFINE least == {i \in able : error[i] = e}
<1>3. least \in SUBSET Nat /\ least # {}
  OBVIOUS
<1>4. PICK i \in least : \A j \in least : i <= j
  <2>. HIDE DEF least
  <2>. QED  BY <1>3, LeastPlace
<1>5. ASSUME NEW j \in able
      PROVE  error[i] < error[j] \/ (error[i] = error[j] /\ i <= j)
  <2>1. error[j] \in errors /\ error[j] \in Nat /\ e \in Nat /\ error[i] = e
    BY <1>1
  <2>2. e <= error[j]
    BY <1>2, <2>1
  <2>3. e = error[j] => j \in least
    OBVIOUS
  <2>. HIDE DEF least, errors
  <2>. QED  BY <1>4, <2>1, <2>2, <2>3
<1>. QED  BY <1>5

\* The terms that a step does not put below zero.
Able(terms, values, step) == {i \in DOMAIN terms : values[i] + step * terms[i].sign >= 0}

\* A step moves one such term, and by that the sum; with none, it moves nothing.
LEMMA NudgedMoves ==
    ASSUME NEW n \in Nat, NEW terms \in [1 .. n -> TermType], NEW unit \in Nat,
           NEW values \in [1 .. n -> Nat], NEW step \in {1, -1},
           NEW v, v = Nudged(terms, unit, values, step)
    PROVE  /\ v \in [1 .. n -> Nat]
           /\ Signed(terms, values) \in Int
           /\ Able(terms, values, step) # {} => Signed(terms, v) = Signed(terms, values) + step
           /\ Able(terms, values, step) = {} => v = values
<1>. DEFINE next == [i \in DOMAIN terms |-> values[i] + step * terms[i].sign]
            error == [i \in DOMAIN terms |-> Abs(next[i] * unit - terms[i].atto)]
            able == {i \in DOMAIN terms : next[i] >= 0}
            best == CHOOSE i \in able : \A j \in able :
                       error[i] < error[j] \/ (error[i] = error[j] /\ i <= j)
<1>1. /\ DOMAIN terms = 1 .. n
      /\ \A i \in 1 .. n : terms[i].sign \in {1, -1} /\ terms[i].atto \in Nat /\ values[i] \in Nat
  BY DEF TermType
<1>2. \A i \in 1 .. n : step * terms[i].sign \in {1, -1} /\ terms[i].sign * (step * terms[i].sign) = step
  <2>1. (\A a, b \in {1, -1} : a * b \in {1, -1}) /\ (\A a, b \in {1, -1} : a * (b * a) = b)
    OBVIOUS
  <2>. QED  BY <1>1, <2>1
<1>3. \A i \in 1 .. n : next[i] \in Int /\ next[i] = values[i] + step * terms[i].sign
  BY <1>1, <1>2
<1>4. able = Able(terms, values, step)
  BY DEF Able
<1>5. v = [i \in DOMAIN terms |-> IF able # {} /\ i = best THEN next[i] ELSE values[i]]
  BY DEF Nudged
<1>6. \A i \in 1 .. n : error[i] \in Nat
  <2>1. SUFFICES ASSUME NEW i \in 1 .. n PROVE error[i] \in Nat
    OBVIOUS
  <2>2. error[i] = Abs(next[i] * unit - terms[i].atto)
    BY <1>1
  <2>3. next[i] \in Int /\ terms[i].atto \in Int
    BY <1>1, <1>3
  <2>. HIDE DEF next, error
  <2>4. \A a, b \in Int : a * b \in Int
    OBVIOUS
  <2>5. next[i] * unit - terms[i].atto \in Int
    <3>1. next[i] * unit \in Int
      BY <2>3, <2>4
    <3>. QED  BY <2>3, <3>1
  <2>6. \A a \in Int : Abs(a) \in Nat
    BY DEF Abs
  <2>. QED  BY <2>2, <2>5, <2>6
<1>7. able # {} => best \in able
  <2>1. ASSUME able # {} PROVE best \in able
    <3>1. able \in SUBSET Nat /\ \A i \in able : error[i] \in Nat
      BY <1>1, <1>6
    <3>. HIDE DEF able, error
    <3>2. \E i \in able : \A j \in able : error[i] < error[j] \/ (error[i] = error[j] /\ i <= j)
      BY <2>1, <3>1, LeastError
    <3>. QED  BY <3>2
  <2>. QED  BY <2>1
<1>8. best \in able => best \in 1 .. n /\ next[best] \in Nat
  <2>1. ASSUME NEW b \in able PROVE b \in 1 .. n /\ next[b] \in Nat
    <3>1. b \in 1 .. n /\ next[b] >= 0
      BY <1>1
    <3>2. next[b] \in Int
      BY <1>3, <3>1
    <3>. HIDE DEF next
    <3>. QED  BY <3>1, <3>2
  <2>. HIDE DEF best, able, next
  <2>. QED  BY <2>1
<1>. HIDE DEF best, error, next
<1>9. \A i \in 1 .. n : v[i] = IF able # {} /\ i = best THEN next[i] ELSE values[i]
  <2>. HIDE DEF able
  <2>. QED  BY <1>1, <1>5
<1>10. v \in [1 .. n -> Nat]
  <2>. HIDE DEF able
  <2>1. \A i \in 1 .. n : v[i] \in Nat
    BY <1>1, <1>7, <1>8, <1>9
  <2>. QED  BY <1>1, <1>5, <2>1
<1>. DEFINE Products(w) == [i \in DOMAIN terms |-> terms[i].sign * w[i]]
<1>11. \A w \in [1 .. n -> Nat] : /\ Products(w) \in [1 .. n -> Int]
                                  /\ \A i \in 1 .. n : Products(w)[i] = terms[i].sign * w[i]
  <2>1. \A a \in {1, -1} : \A x \in Nat : a * x \in Int
    OBVIOUS
  <2>2. \A w \in [1 .. n -> Nat] : \A i \in 1 .. n : terms[i].sign * w[i] \in Int
    BY <1>1, <2>1
  <2>. QED  BY <1>1, <2>2
<1>12. \A w : Signed(terms, w) = SumOf(Products(w))
  BY DEF Signed
<1>. HIDE DEF Products
<1>13. Signed(terms, values) \in Int
  BY <1>11, <1>12, SumIsInt
<1>14. ASSUME able # {}
       PROVE  Signed(terms, v) = Signed(terms, values) + step
  <2>. PICK b : b = best
    OBVIOUS
  <2>1. b \in 1 .. n /\ v[b] = values[b] + step * terms[b].sign /\ \A i \in 1 .. n : i # b => v[i] = values[i]
    <3>. HIDE DEF able
    <3>. QED  BY <1>3, <1>7, <1>8, <1>9, <1>14
  <2>2. \A i \in 1 .. n : i # b => Products(v)[i] = Products(values)[i]
    BY <1>10, <1>11, <2>1
  <2>3. Products(v)[b] - Products(values)[b] = step
    <3>1. Products(v)[b] = terms[b].sign * v[b] /\ Products(values)[b] = terms[b].sign * values[b]
      BY <1>10, <1>11, <2>1
    <3>2. terms[b].sign \in {1, -1} /\ values[b] \in Nat
      BY <1>1, <2>1
    <3>3. \A a, s \in {1, -1} : \A x \in Nat : a * (x + s * a) - a * x = s
      OBVIOUS
    <3>. QED  BY <2>1, <3>1, <3>2, <3>3
  <2>4. SumOf(Products(v)) = SumOf(Products(values)) + (Products(v)[b] - Products(values)[b])
    BY <1>10, <1>11, <2>1, <2>2, SumDiffers
  <2>. QED  BY <1>12, <2>3, <2>4
<1>15. ASSUME able = {}
       PROVE  v = values
  <2>. HIDE DEF able
  <2>1. \A i \in 1 .. n : v[i] = values[i]
    BY <1>9, <1>15
  <2>. QED  BY <1>10, <2>1
<1>. HIDE DEF able
<1>. QED  BY <1>4, <1>10, <1>13, <1>14, <1>15

\* What is repeated of a function, so many times.
Repeats(c, S, start, F, m) ==
    c \in [0 .. m -> S] /\ c[0] = start /\ \A k \in 1 .. m : c[k] = F[c[k - 1]]

\* A step repeated m times: the recursive function holds what each left.
LEMMA Repeated ==
    ASSUME NEW S, NEW start \in S, NEW F \in [S -> S], NEW m \in Nat
    PROVE  \E c : Repeats(c, S, start, F, m)
<1>. DEFINE Upto(k, c) == c \in [0 .. k -> S] /\ c[0] = start /\ \A j \in 1 .. k : c[j] = F[c[j - 1]]
            missing == {k \in 0 .. m : ~ \E c : Upto(k, c)}
<1>1. \E c : Upto(0, c)
  <2>1. Upto(0, [k \in 0 .. 0 |-> start])
    OBVIOUS
  <2>. HIDE DEF Upto
  <2>. QED  BY <2>1
<1>2. ASSUME NEW k \in 1 .. m, NEW c, Upto(k - 1, c)
      PROVE  \E d : Upto(k, d)
  <2>. DEFINE d == [j \in 0 .. k |-> IF j = k THEN F[c[k - 1]] ELSE c[j]]
  <2>1. c \in [0 .. k - 1 -> S] /\ c[0] = start /\ \A j \in 1 .. k - 1 : c[j] = F[c[j - 1]]
    BY <1>2
  <2>2. k \in Nat /\ k # 0 /\ k - 1 \in 0 .. k - 1 /\ \A j \in 0 .. k - 1 : j \in 0 .. k /\ j # k
    OBVIOUS
  <2>3. F[c[k - 1]] \in S
    BY <2>1, <2>2
  <2>4. \A j \in 0 .. k : j # k => j \in 0 .. k - 1
    OBVIOUS
  <2>5. d \in [0 .. k -> S]
    BY <2>1, <2>3, <2>4
  <2>6. d[k] = F[c[k - 1]] /\ \A j \in 0 .. k - 1 : d[j] = c[j]
    BY <2>2
  <2>. HIDE DEF d
  <2>7. d[0] = start
    BY <2>1, <2>2, <2>6
  <2>8. ASSUME NEW j \in 1 .. k
        PROVE  d[j] = F[d[j - 1]]
    <3>1. j - 1 \in 0 .. k - 1 /\ (j # k => j \in 0 .. k - 1 /\ j \in 1 .. k - 1)
      BY <2>2
    <3>. QED  BY <2>1, <2>6, <3>1
  <2>9. Upto(k, d)
    BY <2>5, <2>7, <2>8
  <2>. HIDE DEF Upto
  <2>. QED  BY <2>9
<1>. HIDE DEF Upto
<1>3. missing = {}
  <2>1. SUFFICES ASSUME missing # {} PROVE FALSE
    OBVIOUS
  <2>2. missing \in SUBSET Nat
    OBVIOUS
  <2>3. PICK k \in missing : \A j \in missing : k <= j
    <3>. HIDE DEF missing
    <3>. QED  BY <2>1, <2>2, LeastPlace
  <2>4. k \in 0 .. m /\ ~ \E c : Upto(k, c)
    OBVIOUS
  <2>5. k # 0 /\ k \in 1 .. m /\ k - 1 \in 0 .. m /\ ~(k <= k - 1)
    BY <1>1, <2>4
  <2>6. \E c : Upto(k - 1, c)
    BY <2>3, <2>5
  <2>. QED  BY <1>2, <2>4, <2>5, <2>6
<1>4. PICK c : Upto(m, c)
  <2>1. m \in 0 .. m
    OBVIOUS
  <2>. QED  BY <1>3, <2>1
<1>5. Repeats(c, S, start, F, m)
  BY <1>4 DEF Upto, Repeats
<1>. QED  BY <1>5

\* The steps of a correction, from the rounded terms to the corrected ones.
Corrects(c, n, terms, unit, rounded, diff) ==
    /\ c \in [0 .. Abs(diff) -> [1 .. n -> Nat]]
    /\ c[0] = rounded /\ Corrected(terms, unit, rounded, diff) = c[Abs(diff)]
    /\ \A k \in 1 .. Abs(diff) : c[k] = Nudged(terms, unit, c[k - 1], Direction(diff))

\* The correction steps by one unit, as many times as there is a difference.
LEMMA CorrectedSteps ==
    ASSUME NEW n \in Nat, NEW terms \in [1 .. n -> TermType], NEW unit \in Nat,
           NEW rounded \in [1 .. n -> Nat], NEW diff \in Int
    PROVE  \E c : Corrects(c, n, terms, unit, rounded, diff)
<1>. DEFINE S == [1 .. n -> Nat]
            F == [v \in S |-> Nudged(terms, unit, v, Direction(diff))]
            Solves(f) == f = [k \in 0 .. Abs(diff) |->
                                IF k = 0 THEN rounded ELSE Nudged(terms, unit, f[k - 1], Direction(diff))]
            values == CHOOSE f : Solves(f)
<1>1. Abs(diff) \in Nat /\ Direction(diff) \in {1, -1}
  BY DEF Abs, Direction
<1>. PICK m : m = Abs(diff)
  OBVIOUS
<1>. PICK dir : dir = Direction(diff)
  OBVIOUS
<1>2. F \in [S -> S] /\ \A v \in S : F[v] = Nudged(terms, unit, v, dir)
  <2>1. \A v \in S : Nudged(terms, unit, v, Direction(diff)) \in S
    <3>1. ASSUME NEW v \in [1 .. n -> Nat] PROVE Nudged(terms, unit, v, dir) \in [1 .. n -> Nat]
      <4>. PICK w : w = Nudged(terms, unit, v, dir)
        OBVIOUS
      <4>1. w \in [1 .. n -> Nat]
        BY <1>1, NudgedMoves
      <4>. QED  BY <4>1
    <3>. QED  BY <3>1
  <2>. HIDE DEF S
  <2>. QED  BY <2>1
<1>. HIDE DEF F
<1>3. PICK c : c \in [0 .. m -> S] /\ c[0] = rounded /\ \A k \in 1 .. m : c[k] = F[c[k - 1]]
  <2>1. rounded \in S /\ m \in Nat /\ F \in [S -> S]
    BY <1>1, <1>2
  <2>. HIDE DEF S
  <2>2. PICK c : Repeats(c, S, rounded, F, m)
    BY <2>1, Repeated
  <2>. QED  BY <2>2 DEF Repeats
<1>4. \A k \in 1 .. m : c[k] = Nudged(terms, unit, c[k - 1], dir)
  <2>1. \A k \in 1 .. m : k - 1 \in 0 .. m
    BY <1>1
  <2>. HIDE DEF S
  <2>2. \A k \in 1 .. m : c[k - 1] \in S
    BY <1>3, <2>1
  <2>. QED  BY <1>2, <1>3, <2>2
<1>5. Solves(c)
  <2>1. c = [k \in 0 .. m |-> c[k]]
    <3>. HIDE DEF S
    <3>. QED  BY <1>3
  <2>2. \A k \in 0 .. m : c[k] = IF k = 0 THEN rounded ELSE Nudged(terms, unit, c[k - 1], dir)
    <3>1. \A k \in 0 .. m : k = 0 \/ k \in 1 .. m
      BY <1>1
    <3>. QED  BY <1>3, <1>4, <3>1
  <2>3. c = [k \in 0 .. m |-> IF k = 0 THEN rounded ELSE Nudged(terms, unit, c[k - 1], dir)]
    BY <2>1, <2>2
  <2>. QED  BY <2>3
<1>6. Solves(values)
  <2>. HIDE DEF Solves
  <2>. QED  BY <1>5
<1>7. Corrected(terms, unit, rounded, diff) = values[m]
  BY DEF Corrected
<1>. HIDE DEF values
<1>8. \A k \in 0 .. m : values[k] = IF k = 0 THEN rounded ELSE Nudged(terms, unit, values[k - 1], dir)
  BY <1>6
<1>. DEFINE wrong == {k \in 0 .. m : values[k] # c[k]}
<1>. HIDE DEF Solves, S
<1>9. wrong = {}
  <2>1. SUFFICES ASSUME wrong # {} PROVE FALSE
    OBVIOUS
  <2>2. wrong \in SUBSET Nat
    BY <1>1
  <2>3. PICK k \in wrong : \A j \in wrong : k <= j
    <3>. HIDE DEF wrong
    <3>. QED  BY <2>1, <2>2, LeastPlace
  <2>4. k \in 0 .. m /\ values[k] # c[k]
    OBVIOUS
  <2>5. k # 0
    BY <1>3, <1>8, <2>4
  <2>6. k \in 1 .. m /\ k - 1 \in 0 .. m /\ ~(k <= k - 1)
    BY <1>1, <2>4, <2>5
  <2>7. values[k - 1] = c[k - 1]
    BY <2>3, <2>6
  <2>. QED  BY <1>4, <1>8, <2>4, <2>5, <2>6, <2>7
<1>10. m \in 0 .. m
  BY <1>1
<1>11. Corrected(terms, unit, rounded, diff) = c[m]
  BY <1>7, <1>9, <1>10
<1>12. Corrects(c, n, terms, unit, rounded, diff)
  BY <1>3, <1>4, <1>11 DEF S, Corrects
<1>. QED  BY <1>12

\* Rounding to the nearest unit, halves up.
LEMMA RoundIsNat ==
    ASSUME NEW unit \in Nat \ {0}
    PROVE  \A a \in Nat : RoundAtto(a, unit) \in Nat
<1>1. unit \div 2 \in Nat
  OBVIOUS
<1>2. ASSUME NEW a \in Nat
      PROVE  RoundAtto(a, unit) \in Nat
  <2>1. Abs(a) = a /\ ~(a < 0)
    BY DEF Abs
  <2>2. \A x \in Nat : x \div unit \in Nat
    OBVIOUS
  <2>. QED  BY <1>1, <2>1, <2>2 DEF RoundAtto
<1>. QED  BY <1>2

\* Where no term is taken off, there is a total of none below zero, or nothing.
LEMMA RoundedUp ==
    ASSUME NEW n \in Nat \ {0}, NEW terms \in [1 .. n -> TermType], \A i \in 1 .. n : terms[i].sign = 1,
           NEW unit \in Nat \ {0}, NEW total \in Int
    PROVE  LET r == RoundToTotal(terms, unit, total)
           IN  /\ r \in [1 .. n -> Nat]
               /\ total >= 0 => SumOf(r) = total
               /\ total < 0 => \A i \in 1 .. n : r[i] = 0
<1>. DEFINE rounded == [i \in DOMAIN terms |-> RoundAtto(terms[i].atto, unit)]
            diff == total - Signed(terms, rounded)
            r == RoundToTotal(terms, unit, total)
<1>1. rounded \in [1 .. n -> Nat]
  <2>1. \A i \in 1 .. n : terms[i].atto \in Nat
    BY DEF TermType
  <2>2. \A a \in Nat : RoundAtto(a, unit) \in Nat
    BY RoundIsNat
  <2>. QED  BY <2>1, <2>2
<1>2. \A w \in [1 .. n -> Nat] : Signed(terms, w) = SumOf(w) /\ SumOf(w) \in Nat
  <2>1. SUFFICES ASSUME NEW w \in [1 .. n -> Nat] PROVE Signed(terms, w) = SumOf(w) /\ SumOf(w) \in Nat
    OBVIOUS
  <2>2. \A x \in Nat : 1 * x = x
    OBVIOUS
  <2>3. [i \in DOMAIN terms |-> terms[i].sign * w[i]] = w
    BY <2>2
  <2>. QED  BY <2>3, SumIsNat DEF Signed
<1>3. r = Corrected(terms, unit, rounded, diff)
  BY DEF RoundToTotal
<1>. HIDE DEF rounded, r
<1>4. SumOf(rounded) \in Nat /\ diff = total - SumOf(rounded) /\ diff \in Int
  BY <1>1, <1>2
<1>. HIDE DEF diff
<1>5. PICK c : /\ c \in [0 .. Abs(diff) -> [1 .. n -> Nat]]
               /\ c[0] = rounded /\ r = c[Abs(diff)]
               /\ \A k \in 1 .. Abs(diff) : c[k] = Nudged(terms, unit, c[k - 1], Direction(diff))
  <2>1. n \in Nat /\ unit \in Nat
    OBVIOUS
  <2>2. PICK c : Corrects(c, n, terms, unit, rounded, diff)
    BY <1>1, <1>4, <2>1, CorrectedSteps
  <2>. QED  BY <1>3, <2>2 DEF Corrects
<1>. PICK m : m = Abs(diff)
  OBVIOUS
<1>. DEFINE start == SumOf(rounded)
            So(k) == /\ diff >= 0 => SumOf(c[k]) = start + k
                     /\ diff < 0 /\ k <= start => SumOf(c[k]) = start - k
                     /\ diff < 0 /\ k > start => SumOf(c[k]) = 0
            wrong == {k \in 0 .. m : ~So(k)}
<1>6. m \in Nat /\ (diff >= 0 => m = diff) /\ (diff < 0 => m = -diff)
  BY <1>4 DEF Abs
<1>7. start \in Nat
  BY <1>4
<1>8. So(0)
  BY <1>5, <1>6, <1>7
<1>9. ASSUME NEW k \in 1 .. m, So(k - 1)
      PROVE  So(k)
  <2>1. k - 1 \in 0 .. m /\ k \in 0 .. m /\ k \in Nat
    BY <1>6
  <2>. PICK v, w : v = c[k - 1] /\ w = c[k]
    OBVIOUS
  <2>2. v \in [1 .. n -> Nat] /\ w \in [1 .. n -> Nat] /\ w = Nudged(terms, unit, v, Direction(diff))
    BY <1>5, <2>1
  <2>3. /\ SumOf(v) \in Nat /\ SumOf(w) \in Nat
        /\ Direction(diff) \in {1, -1}
    BY <1>2, <2>2 DEF Direction
  <2>4. /\ Able(terms, v, Direction(diff)) # {} => SumOf(w) = SumOf(v) + Direction(diff)
        /\ Able(terms, v, Direction(diff)) = {} => w = v
    <3>1. n \in Nat /\ unit \in Nat
      OBVIOUS
    <3>2. /\ Able(terms, v, Direction(diff)) # {} => Signed(terms, w) = Signed(terms, v) + Direction(diff)
          /\ Able(terms, v, Direction(diff)) = {} => w = v
      <4>1. Direction(diff) \in {1, -1}
        BY <2>3
      <4>. PICK step : step = Direction(diff)
        OBVIOUS
      <4>2. step \in {1, -1} /\ w = Nudged(terms, unit, v, step) /\ v \in [1 .. n -> Nat]
        BY <2>2, <4>1
      <4>3. /\ Able(terms, v, step) # {} => Signed(terms, w) = Signed(terms, v) + step
            /\ Able(terms, v, step) = {} => w = v
        BY <3>1, <4>2, NudgedMoves
      <4>. QED  BY <4>3
    <3>. QED  BY <1>2, <2>2, <3>2
  <2>5. CASE diff > 0
    <3>1. Direction(diff) = 1
      BY <2>5 DEF Direction
    <3>2. 1 \in Able(terms, v, 1)
      <4>1. 1 \in 1 .. n /\ v[1] \in Nat /\ DOMAIN terms = 1 .. n
        BY <2>2
      <4>2. v[1] + 1 * 1 >= 0
        BY <4>1
      <4>. QED  BY <4>1, <4>2 DEF Able
    <3>3. SumOf(w) = SumOf(v) + 1
      BY <2>4, <3>1, <3>2
    <3>4. SumOf(v) = start + (k - 1)
      BY <1>4, <1>9, <2>5
    <3>5. SumOf(w) = start + k
      BY <1>7, <2>1, <3>3, <3>4
    <3>. QED  BY <1>4, <2>5, <3>5
  <2>6. CASE diff < 0 /\ SumOf(v) # 0
    <3>1. Direction(diff) = -1
      BY <1>4, <2>6 DEF Direction
    <3>2. Able(terms, v, -1) # {}
      <4>1. SUFFICES ASSUME \A i \in 1 .. n : v[i] = 0 PROVE FALSE
        <5>1. ASSUME NEW i \in 1 .. n, v[i] # 0 PROVE i \in Able(terms, v, -1)
          <6>1. v[i] \in Nat /\ i \in DOMAIN terms /\ terms[i].sign = 1
            BY <2>2
          <6>2. v[i] + (-1) * 1 >= 0
            BY <5>1, <6>1
          <6>. QED  BY <6>1, <6>2 DEF Able
        <5>. QED  BY <5>1
      <4>2. SumOf(v) = 0
        <5>1. v \in [1 .. n -> Int] /\ n \in Nat
          BY <2>2
        <5>. QED  BY <4>1, <5>1, SumNothing
      <4>. QED  BY <2>6, <4>2
    <3>3. SumOf(w) = SumOf(v) + (-1)
      BY <2>4, <3>1, <3>2
    <3>. QED  BY <1>4, <1>7, <1>9, <2>1, <2>3, <2>6, <3>3
  <2>7. CASE diff < 0 /\ SumOf(v) = 0
    <3>1. Direction(diff) = -1
      BY <1>4, <2>7 DEF Direction
    <3>2. \A i \in 1 .. n : v[i] = 0
      <4>1. \A i \in 1 .. n : v[i] <= SumOf(v)
        BY <2>2, SumHasEach
      <4>2. \A i \in 1 .. n : v[i] \in Nat
        BY <2>2
      <4>. QED  BY <2>7, <4>1, <4>2
    <3>3. Able(terms, v, -1) = {}
      <4>1. \A i \in 1 .. n : terms[i].sign = 1 /\ ~(0 + (-1) * 1 >= 0)
        OBVIOUS
      <4>. QED  BY <3>2, <4>1 DEF Able
    <3>4. SumOf(w) = 0
      BY <2>4, <2>7, <3>1, <3>3
    <3>. QED  BY <1>4, <1>7, <1>9, <2>1, <2>7, <3>4
  <2>8. diff # 0
    BY <1>6, <2>1
  <2>. QED  BY <1>4, <2>5, <2>6, <2>7, <2>8
<1>10. wrong = {}
  <2>1. SUFFICES ASSUME wrong # {} PROVE FALSE
    OBVIOUS
  <2>2. wrong \in SUBSET Nat
    BY <1>6
  <2>3. PICK k \in wrong : \A j \in wrong : k <= j
    <3>. HIDE DEF wrong
    <3>. QED  BY <2>1, <2>2, LeastPlace
  <2>4. k \in 0 .. m /\ ~So(k)
    OBVIOUS
  <2>. HIDE DEF So
  <2>5. k # 0 /\ k \in 1 .. m /\ k - 1 \in 0 .. m /\ ~(k <= k - 1)
    BY <1>6, <1>8, <2>4
  <2>6. So(k - 1)
    BY <2>3, <2>5
  <2>. QED  BY <1>9, <2>4, <2>5, <2>6
<1>11. So(m)
  <2>1. m \in 0 .. m
    BY <1>6
  <2>. HIDE DEF So
  <2>. QED  BY <1>10, <2>1
<1>12. r \in [1 .. n -> Nat] /\ r = c[m]
  <2>1. m \in 0 .. m
    BY <1>6
  <2>. QED  BY <1>5, <2>1
<1>13. total >= 0 => SumOf(r) = total
  <2>1. ASSUME total >= 0 PROVE SumOf(r) = total
    <3>1. CASE diff >= 0
      BY <1>4, <1>6, <1>11, <1>12, <3>1
    <3>2. CASE diff < 0
      <4>1. m <= start /\ start - m = total
        BY <1>4, <1>6, <2>1, <3>2
      <4>. QED  BY <1>11, <1>12, <3>2, <4>1
    <3>. QED  BY <1>4, <3>1, <3>2
  <2>. QED  BY <2>1
<1>14. total < 0 => \A i \in 1 .. n : r[i] = 0
  <2>1. ASSUME total < 0 PROVE \A i \in 1 .. n : r[i] = 0
    <3>1. diff < 0 /\ m > start
      BY <1>4, <1>6, <2>1
    <3>2. SumOf(r) = 0
      BY <1>11, <1>12, <3>1
    <3>3. n \in Nat /\ \A i \in 1 .. n : r[i] \in Nat
      BY <1>12
    <3>4. \A i \in 1 .. n : r[i] <= SumOf(r)
      BY <1>12, <3>3, SumHasEach
    <3>. QED  BY <3>2, <3>3, <3>4
  <2>. QED  BY <2>1
<1>15. r \in [1 .. n -> Nat] /\ (total >= 0 => SumOf(r) = total) /\ (total < 0 => \A i \in 1 .. n : r[i] = 0)
  BY <1>12, <1>13, <1>14
<1>. QED  BY <1>15 DEF r

\* Of what is added and what is taken off, the total is always met.
LEMMA RoundedDifference ==
    ASSUME NEW a \in Nat, NEW b \in Nat, NEW unit \in Nat \ {0}, NEW total \in Int
    PROVE  LET r == RoundToTotal(<<Term(1, a), Term(-1, b)>>, unit, total)
           IN  r \in [1 .. 2 -> Nat] /\ r[1] - r[2] = total
<1>0. PICK terms : terms = <<Term(1, a), Term(-1, b)>>
  OBVIOUS
<1>. DEFINE rounded == [i \in DOMAIN terms |-> RoundAtto(terms[i].atto, unit)]
            diff == total - Signed(terms, rounded)
            r == RoundToTotal(terms, unit, total)
<1>1. /\ terms \in [1 .. 2 -> TermType] /\ DOMAIN terms = 1 .. 2
      /\ terms[1].sign = 1 /\ terms[2].sign = -1 /\ 1 \in 1 .. 2 /\ 2 \in 1 .. 2
      /\ 2 \in Nat /\ unit \in Nat
  BY <1>0 DEF TermType, Term
<1>2. rounded \in [1 .. 2 -> Nat]
  <2>1. \A i \in 1 .. 2 : terms[i].atto \in Nat
    BY <1>1 DEF TermType
  <2>2. \A x \in Nat : RoundAtto(x, unit) \in Nat
    BY RoundIsNat
  <2>. QED  BY <1>1, <2>1, <2>2
<1>3. r = Corrected(terms, unit, rounded, diff)
  BY DEF RoundToTotal
<1>. HIDE DEF rounded, r
<1>4. Signed(terms, rounded) \in Int /\ diff \in Int
  <2>1. 1 \in {1, -1}
    OBVIOUS
  <2>2. Signed(terms, rounded) \in Int
    <3>. PICK w : w = Nudged(terms, unit, rounded, 1)
      OBVIOUS
    <3>. QED  BY <1>1, <1>2, <2>1, NudgedMoves
  <2>. QED  BY <2>2
<1>5. PICK c : /\ c \in [0 .. Abs(diff) -> [1 .. 2 -> Nat]]
               /\ c[0] = rounded /\ r = c[Abs(diff)]
               /\ \A k \in 1 .. Abs(diff) : c[k] = Nudged(terms, unit, c[k - 1], Direction(diff))
  <2>1. PICK c : Corrects(c, 2, terms, unit, rounded, diff)
    BY <1>1, <1>2, <1>4, CorrectedSteps
  <2>. QED  BY <1>3, <2>1 DEF Corrects
<1>14. PICK m, start, dir : m = Abs(diff) /\ start = Signed(terms, rounded) /\ dir = Direction(diff)
  OBVIOUS
<1>6. /\ m \in Nat /\ start \in Int /\ dir \in {1, -1}
      /\ (dir = 1 => start + m = total) /\ (dir = -1 => start - m = total)
  BY <1>4, <1>14 DEF Abs, Direction
<1>. HIDE DEF diff
<1>. DEFINE So(k) == /\ dir = 1 => Signed(terms, c[k]) = start + k
                     /\ dir = -1 => Signed(terms, c[k]) = start - k
            wrong == {k \in 0 .. m : ~So(k)}
<1>7. So(0)
  BY <1>5, <1>6, <1>14
<1>8. ASSUME NEW k \in 1 .. m, So(k - 1)
      PROVE  So(k)
  <2>1. k - 1 \in 0 .. m /\ k \in 0 .. m /\ k \in Nat
    BY <1>6
  <2>8. PICK v, w : v = c[k - 1] /\ w = c[k]
    OBVIOUS
  <2>2. v \in [1 .. 2 -> Nat] /\ w = Nudged(terms, unit, v, dir)
    BY <1>5, <1>14, <2>1, <2>8
  <2>3. Able(terms, v, dir) # {}
    <3>1. v[1] \in Nat /\ v[2] \in Nat
      BY <1>1, <2>2
    <3>2. dir = 1 => 1 \in Able(terms, v, dir)
      <4>1. v[1] + 1 * 1 >= 0
        BY <3>1
      <4>. QED  BY <1>1, <4>1 DEF Able
    <3>3. dir = -1 => 2 \in Able(terms, v, dir)
      <4>1. v[2] + (-1) * (-1) >= 0
        BY <3>1
      <4>. QED  BY <1>1, <4>1 DEF Able
    <3>. QED  BY <1>6, <3>2, <3>3
  <2>4. Signed(terms, v) \in Int /\ Signed(terms, w) = Signed(terms, v) + dir
    <3>1. dir \in {1, -1}
      BY <1>6
    <3>2. 2 \in Nat /\ unit \in Nat /\ terms \in [1 .. 2 -> TermType]
      BY <1>1
    <3>3. /\ Signed(terms, v) \in Int
          /\ Able(terms, v, dir) # {} => Signed(terms, w) = Signed(terms, v) + dir
      <4>1. PICK n : n = 2
        OBVIOUS
      <4>2. n \in Nat /\ terms \in [1 .. n -> TermType] /\ v \in [1 .. n -> Nat]
        BY <2>2, <3>2, <4>1
      <4>3. unit \in Nat /\ w = Nudged(terms, unit, v, dir)
        BY <2>2, <3>2
      <4>. QED  BY <3>1, <4>2, <4>3, NudgedMoves
    <3>. QED  BY <2>3, <3>3
  <2>. QED  BY <1>6, <1>8, <2>1, <2>4, <2>8
<1>9. wrong = {}
  <2>1. SUFFICES ASSUME wrong # {} PROVE FALSE
    OBVIOUS
  <2>2. wrong \in SUBSET Nat
    BY <1>6
  <2>3. PICK k \in wrong : \A j \in wrong : k <= j
    <3>. HIDE DEF wrong
    <3>. QED  BY <2>1, <2>2, LeastPlace
  <2>4. k \in 0 .. m /\ ~So(k)
    OBVIOUS
  <2>. HIDE DEF So
  <2>5. k # 0 /\ k \in 1 .. m /\ k - 1 \in 0 .. m /\ ~(k <= k - 1)
    BY <1>6, <1>7, <2>4
  <2>6. So(k - 1)
    BY <2>3, <2>5
  <2>. QED  BY <1>8, <2>4, <2>5, <2>6
<1>10. m \in 0 .. m
  BY <1>6
<1>11. Signed(terms, r) = total /\ r \in [1 .. 2 -> Nat]
  <2>1. So(m)
    <3>. HIDE DEF So
    <3>. QED  BY <1>9, <1>10
  <2>2. r = c[m]
    BY <1>5, <1>14
  <2>3. Signed(terms, r) = total
    BY <1>6, <2>1, <2>2
  <2>. QED  BY <1>5, <1>10, <1>14, <2>2, <2>3
<1>12. Signed(terms, r) = r[1] - r[2]
  <2>. DEFINE s == [i \in DOMAIN terms |-> terms[i].sign * r[i]]
              p == [i \in 0 .. 2 |-> IF i = 0 THEN 0 ELSE IF i = 1 THEN s[1] ELSE s[1] + s[2]]
  <2>1. r[1] \in Nat /\ r[2] \in Nat
    BY <1>1, <1>11
  <2>2. s[1] = r[1] /\ s[2] = -r[2] /\ DOMAIN s = 1 .. 2
    BY <1>1, <2>1
  <2>3. s \in [1 .. 2 -> Int]
    <3>1. \A i \in 1 .. 2 : i = 1 \/ i = 2
      OBVIOUS
    <3>2. \A i \in 1 .. 2 : s[i] \in Int
      BY <2>1, <2>2, <3>1
    <3>. QED  BY <1>1, <3>2
  <2>4. s \in Seq(Int) /\ Len(s) = 2
    <3>. HIDE DEF s
    <3>. QED  BY <1>1, <2>3, SumAsWeigh
  <2>5. Signed(terms, r) = SumOf(s)
    BY DEF Signed
  <2>. HIDE DEF s
  <2>6. SumsTo(s, p)
    <3>1. p \in [0 .. 2 -> Int] /\ p[0] = 0
      BY <2>1, <2>2
    <3>2. \A i \in 1 .. 2 : p[i] = p[i - 1] + s[i]
      BY <2>1, <2>2
    <3>. QED  BY <2>4, <3>1, <3>2 DEF SumsTo
  <2>7. p[2] = s[1] + s[2]
    OBVIOUS
  <2>. HIDE DEF p
  <2>8. SumOf(s) = p[2]
    BY <2>4, <2>6, SumOfIs
  <2>. QED  BY <2>1, <2>2, <2>5, <2>7, <2>8
<1>13. r \in [1 .. 2 -> Nat] /\ r[1] - r[2] = total
  BY <1>11, <1>12
<1>. QED  BY <1>0, <1>13 DEF r

-----------------------------------------------------------------------------
(* What the events add up to (VaultFigures).                                *)

GovernorLog == [event : {"GovernorTransferred"}, previous : Members \cup {Zero}, next : Members]
FeeLog == [event : {"FeeUpdated"}, previous : Nat, next : Nat]
Totals == [count : Nat, atto : Nat]

RowType ==
    [kind : {"deposit", "withdraw"}, tx : Nat, caller : Members \cup {Reserve},
     counterparty : Members \cup {None}, count : Nat, amount : Nat, fromReserve : BOOLEAN]

SummaryType ==
    [balances : [Members -> Int], credited : SUBSET Members, creditedAtto : Nat,
     fundingTxs : SUBSET Nat, otherDeposits : Totals, withdrawals : Totals,
     governorChanges : Seq(GovernorLog), feeChanges : Seq(FeeLog), rows : Seq(RowType)]

BlockState == [held : [Members -> Int], governor : Members, feeBps : Nat]

\* What a row of the activity list says the vault gained.
GainOf(row) == IF row.kind = "deposit" THEN row.amount ELSE -row.amount
Gained(rows) == SumOf([i \in DOMAIN rows |-> GainOf(rows[i])])

\* Of what the vault has come to, s says the same.
Matches(s, then) ==
    /\ s \in SummaryType /\ then \in BlockState
    /\ s.balances = then.held
    /\ s.creditedAtto + s.otherDeposits.atto - s.withdrawals.atto = HeldSum(then.held)
    /\ Gained(s.rows) = HeldSum(then.held)
    /\ s.governorChanges # <<>> /\ s.governorChanges[Len(s.governorChanges)].next = then.governor
    /\ then.feeBps = IF s.feeChanges = <<>> THEN 0 ELSE s.feeChanges[Len(s.feeChanges)].next

\* A row more at the end, or another amount in the last one.
LEMMA GainedMoves ==
    ASSUME NEW rows \in Seq(RowType), NEW row \in RowType
    PROVE  /\ Gained(rows) \in Int
           /\ Append(rows, row) \in Seq(RowType)
           /\ Gained(Append(rows, row)) = Gained(rows) + GainOf(row)
           /\ rows # <<>> =>
                 /\ [rows EXCEPT ![Len(rows)] = row] \in Seq(RowType)
                 /\ rows[Len(rows)] \in RowType
                 /\ Gained([rows EXCEPT ![Len(rows)] = row])
                       = Gained(rows) - GainOf(rows[Len(rows)]) + GainOf(row)
<1>. DEFINE gains(s) == [i \in DOMAIN s |-> GainOf(s[i])]
<1>1. \A r \in RowType : GainOf(r) \in Int
  BY DEF GainOf, RowType
<1>2. \A s \in Seq(RowType) : gains(s) \in Seq(Int) /\ Len(gains(s)) = Len(s)
  <2>. TAKE s \in Seq(RowType)
  <2>1. \A m \in Nat : \A f \in [1 .. m -> Int] : f \in Seq(Int) /\ Len(f) = m
    BY SeqDef, LenProperties
  <2>2. Len(s) \in Nat /\ DOMAIN s = 1 .. Len(s) /\ \A i \in 1 .. Len(s) : s[i] \in RowType
    OBVIOUS
  <2>3. gains(s) \in [1 .. Len(s) -> Int]
    BY <1>1, <2>2
  <2>. HIDE DEF gains
  <2>. QED  BY <2>1, <2>2, <2>3
<1>3. Append(rows, row) \in Seq(RowType)
  OBVIOUS
<1>4. gains(Append(rows, row)) = Append(gains(rows), GainOf(row))
  <2>. DEFINE t == Append(rows, row)
              u == Append(gains(rows), GainOf(row))
  <2>1. Len(t) = Len(rows) + 1 /\ Len(rows) \in Nat
    OBVIOUS
  <2>2. gains(t) \in Seq(Int) /\ Len(gains(t)) = Len(rows) + 1
    BY <1>2, <1>3, <2>1
  <2>3. gains(rows) \in Seq(Int) /\ Len(gains(rows)) = Len(rows) /\ GainOf(row) \in Int
    BY <1>1, <1>2
  <2>4. u \in Seq(Int) /\ Len(u) = Len(rows) + 1 /\ u[Len(rows) + 1] = GainOf(row)
        /\ \A i \in 1 .. Len(rows) : u[i] = gains(rows)[i]
    <3>. HIDE DEF gains
    <3>. QED  BY <2>1, <2>3
  <2>5. \A i \in 1 .. Len(rows) : gains(rows)[i] = GainOf(rows[i])
    BY <2>1
  <2>6. \A i \in 1 .. Len(rows) + 1 : gains(t)[i] = GainOf(t[i])
    BY <1>3, <2>1
  <2>7. t[Len(rows) + 1] = row /\ \A i \in 1 .. Len(rows) : t[i] = rows[i]
    OBVIOUS
  <2>8. \A i \in 1 .. Len(rows) + 1 : gains(t)[i] = u[i]
    <3>1. \A i \in 1 .. Len(rows) + 1 : i \in 1 .. Len(rows) \/ i = Len(rows) + 1
      BY <2>1
    <3>. HIDE DEF gains, t, u
    <3>. QED  BY <2>4, <2>5, <2>6, <2>7, <3>1
  <2>. HIDE DEF gains, t, u
  <2>9. gains(t) = u
    BY <2>2, <2>4, <2>8, SeqEqual
  <2>. QED  BY <2>9 DEF t, u
<1>5. ASSUME rows # <<>>
      PROVE  /\ [rows EXCEPT ![Len(rows)] = row] \in Seq(RowType) /\ rows[Len(rows)] \in RowType
             /\ gains([rows EXCEPT ![Len(rows)] = row])
                   = [gains(rows) EXCEPT ![Len(rows)] = GainOf(row)]
             /\ gains(rows)[Len(rows)] = GainOf(rows[Len(rows)]) /\ gains(rows) # <<>>
  <2>. DEFINE t == [rows EXCEPT ![Len(rows)] = row]
  <2>1. Len(rows) \in 1 .. Len(rows) /\ Len(rows) # 0 /\ DOMAIN rows = 1 .. Len(rows)
    BY <1>5, EmptySeq
  <2>2. t \in Seq(RowType) /\ DOMAIN t = DOMAIN rows
    BY <2>1
  <2>3. gains(t) = [i \in DOMAIN rows |-> GainOf(t[i])]
    BY <2>2
  <2>4. \A i \in DOMAIN rows : t[i] = IF i = Len(rows) THEN row ELSE rows[i]
    BY <2>1
  <2>5. gains(rows)[Len(rows)] = GainOf(rows[Len(rows)]) /\ rows[Len(rows)] \in RowType
    BY <2>1
  <2>6. gains(rows) # <<>>
    <3>1. Len(gains(rows)) = Len(rows) /\ gains(rows) \in Seq(Int)
      BY <1>2
    <3>. HIDE DEF gains
    <3>. QED  BY <2>1, <3>1
  <2>7. gains(t) = [gains(rows) EXCEPT ![Len(rows)] = GainOf(row)]
    <3>1. [gains(rows) EXCEPT ![Len(rows)] = GainOf(row)]
            = [i \in DOMAIN rows |-> IF i = Len(rows) THEN GainOf(row) ELSE GainOf(rows[i])]
      OBVIOUS
    <3>2. \A i \in DOMAIN rows :
            GainOf(t[i]) = IF i = Len(rows) THEN GainOf(row) ELSE GainOf(rows[i])
      BY <2>4
    <3>. HIDE DEF t
    <3>. QED  BY <2>3, <3>1, <3>2
  <2>. QED  BY <2>2, <2>5, <2>6, <2>7
<1>6. \A s : Gained(s) = SumOf(gains(s))
  BY DEF Gained
<1>. HIDE DEF gains
<1>7. Gained(rows) \in Int /\ Gained(Append(rows, row)) = Gained(rows) + GainOf(row)
  <2>. PICK g : g = gains(rows)
    OBVIOUS
  <2>1. g \in Seq(Int) /\ GainOf(row) \in Int
    BY <1>1, <1>2
  <2>2. SumOf(g) \in Int /\ SumOf(Append(g, GainOf(row))) = SumOf(g) + GainOf(row)
    BY <2>1, SumOfAppend
  <2>. QED  BY <1>4, <1>6, <2>2
<1>8. ASSUME rows # <<>>
      PROVE  Gained([rows EXCEPT ![Len(rows)] = row])
                = Gained(rows) - GainOf(rows[Len(rows)]) + GainOf(row)
  <2>. PICK g : g = gains(rows)
    OBVIOUS
  <2>1. g \in Seq(Int) /\ GainOf(row) \in Int /\ g # <<>> /\ Len(g) = Len(rows)
        /\ g[Len(rows)] = GainOf(rows[Len(rows)])
    BY <1>1, <1>2, <1>5, <1>8
  <2>2. SumOf([g EXCEPT ![Len(g)] = GainOf(row)]) = SumOf(g) - g[Len(g)] + GainOf(row)
    BY <2>1, SumOfChange
  <2>3. gains([rows EXCEPT ![Len(rows)] = row]) = [g EXCEPT ![Len(g)] = GainOf(row)]
    BY <1>5, <1>8, <2>1
  <2>. QED  BY <1>6, <2>1, <2>2, <2>3
<1>. QED  BY <1>3, <1>5, <1>7, <1>8

\* What was credited and deposited less what was withdrawn, after one more.
LEMMA BalanceMoves ==
    ASSUME NEW a, NEW b, NEW c, NEW h, NEW v,
           a \in Int /\ b \in Int /\ c \in Int /\ v \in Int /\ h \in Int, a + b - c = h
    PROVE  (a + v) + b - c = h + v /\ a + (b + v) - c = h + v /\ a + b - (c + v) = h - v
  OBVIOUS

\* A deposit is a row more or is added to the last one.
LEMMA JoinedGains ==
    ASSUME NEW rows \in Seq(RowType), NEW at \in Nat, NEW call \in Calls, call.event = "Deposit"
    PROVE  /\ Joined(rows, at, call) \in Seq(RowType)
           /\ Gained(Joined(rows, at, call)) = Gained(rows) + call.assets
<1>1. /\ call.caller \in Members \cup {Reserve} /\ call.delegator \in Members
      /\ call.assets \in Nat
  BY DEF Calls
<1>. DEFINE n == Len(rows)
            last == rows[n]
            joins == rows # <<>> /\ last.kind = "deposit" /\ last.tx = at /\ last.caller = call.caller
<1>2. CASE joins
  <2>. DEFINE row == [last EXCEPT !.count = @ + 1, !.amount = @ + call.assets,
                                  !.counterparty = IF @ = call.delegator THEN @ ELSE None]
  <2>1. n \in DOMAIN rows /\ last \in RowType /\ last.kind = "deposit"
    BY <1>2, GainedMoves
  <2>2. Joined(rows, at, call) = [rows EXCEPT ![n] = row]
    <3>. HIDE DEF last, n
    <3>1. Joined(rows, at, call) =
            [rows EXCEPT ![n].count = @ + 1, ![n].amount = @ + call.assets,
                         ![n].counterparty = IF @ = call.delegator THEN @ ELSE None]
      BY <1>2 DEF Joined, joins, last, n
    <3>2. \A r : [rows EXCEPT ![n] = r][n] = r
      BY <2>1
    <3>. QED  BY <2>1, <3>1, <3>2 DEF last
  <2>3. last.count \in Nat /\ last.amount \in Nat /\ last.counterparty \in Members \cup {None}
    <3>. HIDE DEF last
    <3>. QED  BY <2>1 DEF RowType
  <2>4. row \in RowType /\ row.kind = "deposit" /\ row.amount = last.amount + call.assets
    <3>. DEFINE whose == IF last.counterparty = call.delegator THEN last.counterparty ELSE None
    <3>1. whose \in Members \cup {None} /\ last.count + 1 \in Nat /\ last.amount + call.assets \in Nat
      <4>. HIDE DEF last
      <4>. QED  BY <1>1, <2>3
    <3>2. row = [last EXCEPT !.count = last.count + 1, !.amount = last.amount + call.assets,
                             !.counterparty = whose]
      OBVIOUS
    <3>. HIDE DEF last, whose, row
    <3>. QED  BY <2>1, <3>1, <3>2 DEF RowType
  <2>5. GainOf(row) = GainOf(last) + call.assets
    <3>. HIDE DEF row, last
    <3>. QED  BY <2>1, <2>3, <2>4 DEF GainOf
  <2>6. GainOf(last) \in Int
    <3>. HIDE DEF last
    <3>. QED  BY <2>1, <2>3 DEF GainOf
  <2>7. /\ [rows EXCEPT ![n] = row] \in Seq(RowType) /\ Gained(rows) \in Int
        /\ Gained([rows EXCEPT ![n] = row]) = Gained(rows) - GainOf(last) + GainOf(row)
    <3>. HIDE DEF row
    <3>. QED  BY <1>2, <2>4, GainedMoves
  <2>. HIDE DEF row, last, n
  <2>. QED  BY <1>1, <2>2, <2>5, <2>6, <2>7
<1>3. CASE ~joins
  <2>. DEFINE row == Row("deposit", at, call)
  <2>1. Joined(rows, at, call) = Append(rows, row)
    BY <1>3 DEF Joined
  <2>2. row \in RowType /\ GainOf(row) = call.assets
    BY <1>1 DEF Row, RowType, GainOf
  <2>. HIDE DEF row
  <2>. QED  BY <2>1, <2>2, GainedMoves
<1>. QED  BY <1>2, <1>3

\* A deposit adds to both sides alike, and so does a withdrawal.
LEMMA DepositMatches ==
    ASSUME NEW s, NEW then, Matches(s, then), NEW at \in Nat,
           NEW call \in Calls, call.event = "Deposit"
    PROVE  Matches(Deposited(s, at, call), After(then, call))
<1>. DEFINE d == call.delegator
            v == call.assets
            next == [then EXCEPT !.held[d] = @ + v]
            rows == Joined(s.rows, at, call)
<1>1. call.caller \in Members \cup {Reserve} /\ d \in Members /\ v \in Nat
  BY DEF Calls
<1>2. /\ s \in SummaryType /\ then \in BlockState /\ s.balances = then.held
      /\ s.creditedAtto + s.otherDeposits.atto - s.withdrawals.atto = HeldSum(then.held)
      /\ Gained(s.rows) = HeldSum(then.held)
      /\ s.governorChanges # <<>>
      /\ s.governorChanges[Len(s.governorChanges)].next = then.governor
      /\ then.feeBps = IF s.feeChanges = <<>> THEN 0 ELSE s.feeChanges[Len(s.feeChanges)].next
  BY DEF Matches
<1>3. /\ s.balances \in [Members -> Int] /\ s.credited \in SUBSET Members
      /\ s.creditedAtto \in Nat /\ s.fundingTxs \in SUBSET Nat
      /\ s.otherDeposits \in Totals /\ s.withdrawals \in Totals
      /\ s.governorChanges \in Seq(GovernorLog) /\ s.feeChanges \in Seq(FeeLog)
      /\ s.rows \in Seq(RowType)
  BY <1>2 DEF SummaryType
<1>4. After(then, call) = next
  BY DEF After
<1>5. /\ next \in BlockState /\ next.governor = then.governor /\ next.feeBps = then.feeBps
      /\ next.held = [then.held EXCEPT ![d] = @ + v] /\ then.held \in [Members -> Int]
  <2>1. then.held \in [Members -> Int]
    BY <1>2 DEF BlockState
  <2>2. [then.held EXCEPT ![d] = @ + v] \in [Members -> Int]
    BY <1>1, <2>1
  <2>. HIDE DEF d, v
  <2>. QED  BY <1>1, <1>2, <2>1, <2>2 DEF BlockState
<1>6. HeldSum(next.held) = HeldSum(then.held) + v /\ HeldSum(then.held) \in Int
  <2>. HIDE DEF next, d, v
  <2>. QED  BY <1>1, <1>5, HeldSumMoves
<1>7. rows \in Seq(RowType) /\ Gained(rows) = Gained(s.rows) + v
  BY <1>3, JoinedGains
<1>. HIDE DEF next, d, v, rows
<1>8. CASE call.caller = Reserve
  <2>. DEFINE t == [s EXCEPT !.balances[d] = @ + v, !.rows = rows,
                             !.credited = @ \cup {d}, !.creditedAtto = @ + v,
                             !.fundingTxs = @ \cup {at}]
  <2>1. Deposited(s, at, call) = t
    BY <1>2, <1>8 DEF Deposited, SummaryType, d, v, rows
  <2>2. /\ t \in SummaryType /\ t.balances = [s.balances EXCEPT ![d] = @ + v] /\ t.rows = rows
        /\ t.creditedAtto = s.creditedAtto + v /\ t.otherDeposits = s.otherDeposits
        /\ t.withdrawals = s.withdrawals /\ t.governorChanges = s.governorChanges
        /\ t.feeChanges = s.feeChanges
    <3>1. [s.balances EXCEPT ![d] = @ + v] \in [Members -> Int]
      BY <1>1, <1>3
    <3>2. s.credited \cup {d} \in SUBSET Members /\ s.creditedAtto + v \in Nat
          /\ s.fundingTxs \cup {at} \in SUBSET Nat
      BY <1>1, <1>3
    <3>. QED  BY <1>2, <1>7, <3>1, <3>2 DEF SummaryType
  <2>. HIDE DEF t
  <2>3. t.creditedAtto + t.otherDeposits.atto - t.withdrawals.atto = HeldSum(next.held)
    <3>1. s.otherDeposits.atto \in Nat /\ s.withdrawals.atto \in Nat
      BY <1>3 DEF Totals
    <3>3. (s.creditedAtto + v) + s.otherDeposits.atto - s.withdrawals.atto = HeldSum(then.held) + v
      <4>1. /\ s.creditedAtto \in Int /\ s.otherDeposits.atto \in Int /\ s.withdrawals.atto \in Int
            /\ v \in Int /\ HeldSum(then.held) \in Int
        BY <1>1, <1>2, <1>3, <1>6, <3>1
      <4>2. s.creditedAtto + s.otherDeposits.atto - s.withdrawals.atto = HeldSum(then.held)
        BY <1>2
      <4>. QED  BY <4>1, <4>2, BalanceMoves
    <3>. QED  BY <1>6, <2>2, <3>3
  <2>. QED  BY <1>2, <1>4, <1>5, <1>6, <1>7, <2>1, <2>2, <2>3 DEF Matches
<1>9. CASE call.caller # Reserve
  <2>. DEFINE more == Count(s.otherDeposits.count + 1, s.otherDeposits.atto + v)
              t == [s EXCEPT !.balances[d] = @ + v, !.rows = rows, !.otherDeposits = more]
  <2>1. Deposited(s, at, call) = t
    BY <1>2, <1>9 DEF Deposited, SummaryType, d, v, rows, Plus, Count
  <2>2. more \in Totals /\ more.atto = s.otherDeposits.atto + v /\ s.otherDeposits.atto \in Nat
    <3>. PICK o : o = s.otherDeposits
      OBVIOUS
    <3>1. o \in Totals /\ v \in Nat
      BY <1>1, <1>3
    <3>2. o.count \in Nat /\ o.atto \in Nat
      BY <3>1 DEF Totals
    <3>3. more = Count(o.count + 1, o.atto + v)
      OBVIOUS
    <3>. HIDE DEF more
    <3>. QED  BY <3>1, <3>2, <3>3 DEF Totals, Count
  <2>. HIDE DEF more
  <2>3. /\ t \in SummaryType /\ t.balances = [s.balances EXCEPT ![d] = @ + v] /\ t.rows = rows
        /\ t.creditedAtto = s.creditedAtto /\ t.otherDeposits = more
        /\ t.withdrawals = s.withdrawals /\ t.governorChanges = s.governorChanges
        /\ t.feeChanges = s.feeChanges
    <3>1. [s.balances EXCEPT ![d] = @ + v] \in [Members -> Int]
      BY <1>1, <1>3
    <3>. QED  BY <1>2, <1>7, <2>2, <3>1 DEF SummaryType
  <2>. HIDE DEF t
  <2>4. t.creditedAtto + t.otherDeposits.atto - t.withdrawals.atto = HeldSum(next.held)
    <3>1. s.withdrawals.atto \in Nat
      BY <1>3 DEF Totals
    <3>3. s.creditedAtto + (s.otherDeposits.atto + v) - s.withdrawals.atto = HeldSum(then.held) + v
      <4>1. /\ s.creditedAtto \in Int /\ s.otherDeposits.atto \in Int /\ s.withdrawals.atto \in Int
            /\ v \in Int /\ HeldSum(then.held) \in Int
        BY <1>1, <1>2, <1>3, <1>6, <2>2, <3>1
      <4>2. s.creditedAtto + s.otherDeposits.atto - s.withdrawals.atto = HeldSum(then.held)
        BY <1>2
      <4>. QED  BY <4>1, <4>2, BalanceMoves
    <3>. QED  BY <1>6, <2>2, <2>3, <3>3
  <2>. QED  BY <1>2, <1>4, <1>5, <1>6, <1>7, <2>1, <2>3, <2>4 DEF Matches
<1>. QED  BY <1>8, <1>9

LEMMA WithdrawalMatches ==
    ASSUME NEW s, NEW then, Matches(s, then), NEW at \in Nat,
           NEW call \in Calls, call.event = "Withdraw"
    PROVE  Matches(Withdrawn(s, at, call), After(then, call))
<1>. DEFINE c == call.caller
            v == call.assets
            next == [then EXCEPT !.held[c] = @ - v]
            row == Row("withdraw", at, call)
            more == Count(s.withdrawals.count + 1, s.withdrawals.atto + v)
            t == [s EXCEPT !.balances[c] = @ - v, !.withdrawals = more, !.rows = Append(@, row)]
<1>1. c \in Members /\ call.delegator \in Members /\ v \in Nat
  BY DEF Calls
<1>2. /\ s \in SummaryType /\ then \in BlockState /\ s.balances = then.held
      /\ s.creditedAtto + s.otherDeposits.atto - s.withdrawals.atto = HeldSum(then.held)
      /\ Gained(s.rows) = HeldSum(then.held)
      /\ s.governorChanges # <<>>
      /\ s.governorChanges[Len(s.governorChanges)].next = then.governor
      /\ then.feeBps = IF s.feeChanges = <<>> THEN 0 ELSE s.feeChanges[Len(s.feeChanges)].next
  BY DEF Matches
<1>3. /\ s.balances \in [Members -> Int] /\ s.creditedAtto \in Nat
      /\ s.otherDeposits \in Totals /\ s.withdrawals \in Totals /\ s.rows \in Seq(RowType)
  BY <1>2 DEF SummaryType
<1>4. After(then, call) = next
  BY DEF After
<1>5. /\ next \in BlockState /\ next.governor = then.governor /\ next.feeBps = then.feeBps
      /\ next.held = [then.held EXCEPT ![c] = @ - v] /\ then.held \in [Members -> Int]
  <2>1. then.held \in [Members -> Int]
    BY <1>2 DEF BlockState
  <2>2. [then.held EXCEPT ![c] = @ - v] \in [Members -> Int]
    BY <1>1, <2>1
  <2>. HIDE DEF c, v
  <2>. QED  BY <1>1, <1>2, <2>1, <2>2 DEF BlockState
<1>6. row \in RowType /\ GainOf(row) = -v
  BY <1>1 DEF Row, RowType, GainOf
<1>7. Withdrawn(s, at, call) = t
  BY <1>2 DEF Withdrawn, SummaryType, Plus, Count
<1>. HIDE DEF next, c, v, row
<1>8. HeldSum(next.held) = HeldSum(then.held) + (-v) /\ HeldSum(then.held) \in Int
  <2>. PICK held, w : held = then.held /\ w = -v
    OBVIOUS
  <2>1. w \in Int /\ held \in [Members -> Int] /\ \A x \in Int : x + w = x - v
    BY <1>1, <1>5
  <2>2. [held EXCEPT ![c] = @ + w] = [held EXCEPT ![c] = @ - v]
    BY <1>1, <2>1
  <2>3. HeldSum(held) \in Int /\ HeldSum([held EXCEPT ![c] = @ + w]) = HeldSum(held) + w
    BY <1>1, <2>1, HeldSumMoves
  <2>. QED  BY <1>5, <2>2, <2>3
<1>9. Append(s.rows, row) \in Seq(RowType) /\ Gained(Append(s.rows, row)) = Gained(s.rows) + (-v)
  BY <1>3, <1>6, GainedMoves
<1>10. more \in Totals /\ more.atto = s.withdrawals.atto + v /\ s.withdrawals.atto \in Nat
       /\ s.otherDeposits.atto \in Nat
  BY <1>1, <1>3 DEF Totals, Count
<1>. HIDE DEF more
<1>11. /\ t \in SummaryType /\ t.balances = [s.balances EXCEPT ![c] = @ - v]
       /\ t.rows = Append(s.rows, row)
       /\ t.creditedAtto = s.creditedAtto /\ t.otherDeposits = s.otherDeposits
       /\ t.withdrawals = more /\ t.governorChanges = s.governorChanges
       /\ t.feeChanges = s.feeChanges
  <2>1. [s.balances EXCEPT ![c] = @ - v] \in [Members -> Int]
    BY <1>1, <1>3
  <2>. QED  BY <1>2, <1>9, <1>10, <2>1 DEF SummaryType
<1>. HIDE DEF t
<1>12. t.creditedAtto + t.otherDeposits.atto - t.withdrawals.atto = HeldSum(next.held)
  <2>1. /\ s.creditedAtto \in Int /\ s.otherDeposits.atto \in Int /\ s.withdrawals.atto \in Int
        /\ v \in Int /\ HeldSum(then.held) \in Int
    BY <1>1, <1>3, <1>8, <1>10
  <2>2. s.creditedAtto + s.otherDeposits.atto - s.withdrawals.atto = HeldSum(then.held)
    BY <1>2
  <2>3. s.creditedAtto + s.otherDeposits.atto - (s.withdrawals.atto + v) = HeldSum(then.held) - v
    BY <2>1, <2>2, BalanceMoves
  <2>4. HeldSum(then.held) - v = HeldSum(then.held) + (-v)
    BY <2>1
  <2>. QED  BY <1>8, <1>10, <1>11, <2>3, <2>4
<1>. QED  BY <1>2, <1>4, <1>5, <1>7, <1>8, <1>9, <1>11, <1>12 DEF Matches

EntryOf(log, block, logIndex) == [log |-> log, block |-> block, logIndex |-> logIndex]

\* One more event leaves what is added up in line with the vault.
LEMMA EventMatches ==
    ASSUME NEW s, NEW then, Matches(s, then), NEW at \in Nat, NEW i \in Nat,
           NEW call \in Calls, NEW state \in BlockState
    PROVE  Matches(Summed(s, EntryOf(Emitted(state, call), at, i)), After(then, call))
<1>. DEFINE log == Emitted(state, call)
            entry == EntryOf(log, at, i)
<1>1. call.event \in {"Deposit", "Withdraw", "FeeUpdated", "GovernorTransferred"}
  BY DEF Calls
<1>2. /\ s \in SummaryType /\ then \in BlockState /\ s.balances = then.held
      /\ s.creditedAtto + s.otherDeposits.atto - s.withdrawals.atto = HeldSum(then.held)
      /\ Gained(s.rows) = HeldSum(then.held)
      /\ s.governorChanges # <<>>
      /\ s.governorChanges[Len(s.governorChanges)].next = then.governor
      /\ then.feeBps = IF s.feeChanges = <<>> THEN 0 ELSE s.feeChanges[Len(s.feeChanges)].next
      /\ s.governorChanges \in Seq(GovernorLog) /\ s.feeChanges \in Seq(FeeLog)
  BY DEF Matches, SummaryType
<1>3. entry.log = log /\ entry.block = at
  BY DEF EntryOf
<1>. HIDE DEF entry
<1>4. CASE call.event = "Deposit"
  <2>1. log = call
    BY <1>4 DEF Emitted
  <2>2. Summed(s, entry) = Deposited(s, at, call)
    BY <1>3, <1>4, <2>1 DEF Summed
  <2>. QED  BY <1>4, <2>2, DepositMatches DEF entry
<1>5. CASE call.event = "Withdraw"
  <2>1. log = call
    BY <1>5 DEF Emitted
  <2>2. Summed(s, entry) = Withdrawn(s, at, call)
    BY <1>3, <1>5, <2>1 DEF Summed
  <2>. QED  BY <1>5, <2>2, WithdrawalMatches DEF entry
<1>6. CASE call.event = "FeeUpdated"
  <2>. DEFINE t == [s EXCEPT !.feeChanges = Append(@, log)]
              next == [then EXCEPT !.feeBps = call.next]
  <2>1. log = [event |-> "FeeUpdated", previous |-> state.feeBps, next |-> call.next]
        /\ call.next \in Nat
    BY <1>6 DEF Emitted, Calls
  <2>2. log \in FeeLog /\ log.event = "FeeUpdated" /\ log.next = call.next
    BY <2>1 DEF FeeLog, BlockState
  <2>. HIDE DEF log
  <2>3. Summed(s, entry) = t
    BY <1>3, <2>2 DEF Summed
  <2>4. After(then, call) = next
    BY <1>6 DEF After
  <2>5. /\ next \in BlockState /\ next.held = then.held /\ next.governor = then.governor
        /\ next.feeBps = call.next
    BY <1>2, <2>1 DEF BlockState
  <2>6. /\ Append(s.feeChanges, log) \in Seq(FeeLog) /\ Append(s.feeChanges, log) # <<>>
        /\ Append(s.feeChanges, log)[Len(Append(s.feeChanges, log))] = log
    BY <1>2, <2>2
  <2>7. /\ t \in SummaryType /\ t.feeChanges = Append(s.feeChanges, log)
        /\ t.balances = s.balances /\ t.creditedAtto = s.creditedAtto
        /\ t.otherDeposits = s.otherDeposits /\ t.withdrawals = s.withdrawals
        /\ t.governorChanges = s.governorChanges /\ t.rows = s.rows
    BY <1>2, <2>6 DEF SummaryType
  <2>. HIDE DEF t, next
  <2>8. next.feeBps = t.feeChanges[Len(t.feeChanges)].next /\ t.feeChanges # <<>>
    BY <2>2, <2>5, <2>6, <2>7
  <2>9. Matches(t, next)
    BY <1>2, <2>5, <2>7, <2>8 DEF Matches
  <2>. QED  BY <2>3, <2>4, <2>9 DEF entry, log
<1>7. CASE call.event = "GovernorTransferred"
  <2>. DEFINE t == [s EXCEPT !.governorChanges = Append(@, log)]
              next == [then EXCEPT !.governor = call.next]
  <2>1. log = [event |-> "GovernorTransferred", previous |-> state.governor, next |-> call.next]
        /\ call.next \in Members
    BY <1>7 DEF Emitted, Calls
  <2>2. log \in GovernorLog /\ log.event = "GovernorTransferred" /\ log.next = call.next
    BY <2>1 DEF GovernorLog, BlockState
  <2>. HIDE DEF log
  <2>3. Summed(s, entry) = t
    BY <1>3, <2>2 DEF Summed
  <2>4. After(then, call) = next
    BY <1>7 DEF After
  <2>5. /\ next \in BlockState /\ next.held = then.held /\ next.feeBps = then.feeBps
        /\ next.governor = call.next
    BY <1>2, <2>1 DEF BlockState
  <2>6. /\ Append(s.governorChanges, log) \in Seq(GovernorLog)
        /\ Append(s.governorChanges, log) # <<>>
        /\ Append(s.governorChanges, log)[Len(Append(s.governorChanges, log))] = log
    BY <1>2, <2>2
  <2>7. /\ t \in SummaryType /\ t.governorChanges = Append(s.governorChanges, log)
        /\ t.balances = s.balances /\ t.creditedAtto = s.creditedAtto
        /\ t.otherDeposits = s.otherDeposits /\ t.withdrawals = s.withdrawals
        /\ t.feeChanges = s.feeChanges /\ t.rows = s.rows
    BY <1>2, <2>6 DEF SummaryType
  <2>. HIDE DEF t, next
  <2>8. t.governorChanges[Len(t.governorChanges)].next = next.governor /\ t.governorChanges # <<>>
    BY <2>2, <2>5, <2>6, <2>7
  <2>9. Matches(t, next)
    BY <1>2, <2>5, <2>7, <2>8 DEF Matches
  <2>. QED  BY <2>3, <2>4, <2>9 DEF entry, log
<1>. QED  BY <1>1, <1>4, <1>5, <1>6, <1>7

-----------------------------------------------------------------------------
(* The events of all blocks, one after the other.                           *)

Entries == [log : Calls \cup FeeLog \cup GovernorLog, block : Nat, logIndex : Nat]

\* acc holds what the first k events add up to, and aft what the vault is after
\* the first k calls, for every k.
SummedUp(acc, logs) ==
    acc = [k \in 0 .. Len(logs) |-> IF k = 0 THEN NothingYet ELSE Summed(acc[k - 1], logs[k])]
CalledUp(aft, state, calls) ==
    aft = [k \in 0 .. Len(calls) |-> IF k = 0 THEN state ELSE After(aft[k - 1], calls[k])]

\* There is one such function, so the last of them is what is computed.
LEMMA SummaryOfIs ==
    ASSUME NEW logs, Len(logs) \in Nat, NEW acc, SummedUp(acc, logs)
    PROVE  SummaryOf(logs) = acc[Len(logs)]
<1>. DEFINE n == Len(logs)
            sum == CHOOSE f : SummedUp(f, logs)
            wrong == {k \in 0 .. n : sum[k] # acc[k]}
<1>1. SummaryOf(logs) = sum[n]
  BY DEF SummaryOf, SummedUp
<1>2. SummedUp(sum, logs)
  OBVIOUS
<1>. HIDE DEF sum
<1>3. \A k \in 0 .. n : sum[k] = IF k = 0 THEN NothingYet ELSE Summed(sum[k - 1], logs[k])
  BY <1>2 DEF SummedUp
<1>4. \A k \in 0 .. n : acc[k] = IF k = 0 THEN NothingYet ELSE Summed(acc[k - 1], logs[k])
  BY DEF SummedUp
<1>5. wrong = {}
  <2>1. SUFFICES ASSUME wrong # {} PROVE FALSE
    OBVIOUS
  <2>2. wrong \in SUBSET Nat
    OBVIOUS
  <2>3. PICK k \in wrong : \A j \in wrong : k <= j
    <3>. HIDE DEF wrong
    <3>. QED  BY <2>1, <2>2, LeastPlace
  <2>4. k \in 0 .. n /\ sum[k] # acc[k]
    OBVIOUS
  <2>5. k # 0
    BY <1>3, <1>4, <2>4
  <2>6. k - 1 \in 0 .. n /\ ~(k <= k - 1)
    BY <2>4, <2>5
  <2>7. sum[k - 1] = acc[k - 1]
    BY <2>3, <2>6
  <2>8. sum[k] = Summed(sum[k - 1], logs[k]) /\ acc[k] = Summed(acc[k - 1], logs[k])
    BY <1>3, <1>4, <2>4, <2>5
  <2>. QED  BY <2>4, <2>7, <2>8
<1>6. n \in 0 .. n
  OBVIOUS
<1>. QED  BY <1>1, <1>5, <1>6

\* The same of the vault after these calls.
LEMMA AfterAllIs ==
    ASSUME NEW calls, Len(calls) \in Nat, NEW state, NEW aft, CalledUp(aft, state, calls)
    PROVE  AfterAll(state, calls) = aft[Len(calls)]
<1>. DEFINE n == Len(calls)
            after == CHOOSE f : CalledUp(f, state, calls)
            wrong == {k \in 0 .. n : after[k] # aft[k]}
<1>1. AfterAll(state, calls) = after[n]
  BY DEF AfterAll, CalledUp
<1>2. CalledUp(after, state, calls)
  OBVIOUS
<1>. HIDE DEF after
<1>3. \A k \in 0 .. n : after[k] = IF k = 0 THEN state ELSE After(after[k - 1], calls[k])
  BY <1>2 DEF CalledUp
<1>4. \A k \in 0 .. n : aft[k] = IF k = 0 THEN state ELSE After(aft[k - 1], calls[k])
  BY DEF CalledUp
<1>5. wrong = {}
  <2>1. SUFFICES ASSUME wrong # {} PROVE FALSE
    OBVIOUS
  <2>2. wrong \in SUBSET Nat
    OBVIOUS
  <2>3. PICK k \in wrong : \A j \in wrong : k <= j
    <3>. HIDE DEF wrong
    <3>. QED  BY <2>1, <2>2, LeastPlace
  <2>4. k \in 0 .. n /\ after[k] # aft[k]
    OBVIOUS
  <2>5. k # 0
    BY <1>3, <1>4, <2>4
  <2>6. k - 1 \in 0 .. n /\ ~(k <= k - 1)
    BY <2>4, <2>5
  <2>7. after[k - 1] = aft[k - 1]
    BY <2>3, <2>6
  <2>8. after[k] = After(after[k - 1], calls[k]) /\ aft[k] = After(aft[k - 1], calls[k])
    BY <1>3, <1>4, <2>4, <2>5
  <2>. QED  BY <2>4, <2>7, <2>8
<1>6. n \in 0 .. n
  OBVIOUS
<1>. QED  BY <1>1, <1>5, <1>6

\* Events in the order they happened in, of blocks up to the n-th.
InOrder(logs, n) ==
    /\ logs \in Seq(Entries)
    /\ \A i \in DOMAIN logs : logs[i].block <= n
    /\ \A i, j \in DOMAIN logs : i < j =>
          \/ logs[i].block < logs[j].block
          \/ logs[i].block = logs[j].block /\ logs[i].logIndex < logs[j].logIndex

SummedAs(logs, n, then) ==
    /\ InOrder(logs, n)
    /\ \E acc : SummedUp(acc, logs) /\ Matches(acc[Len(logs)], then)

\* The events of a block, of these calls.
EventsOf(state, calls, n) == [i \in DOMAIN calls |-> EntryOf(Emitted(state, calls[i]), n, i)]

\* They are events, one per call.
LEMMA EventsAreEntries ==
    ASSUME NEW state \in BlockState, NEW calls \in Seq(Calls), NEW n \in Nat
    PROVE  /\ EventsOf(state, calls, n) \in Seq(Entries)
           /\ Len(EventsOf(state, calls, n)) = Len(calls)
           /\ \A i \in DOMAIN calls :
                 EventsOf(state, calls, n)[i] = EntryOf(Emitted(state, calls[i]), n, i)
<1>1. ASSUME NEW call \in Calls
      PROVE  Emitted(state, call) \in Calls \cup FeeLog \cup GovernorLog
  <2>1. call.event \in {"Deposit", "Withdraw", "FeeUpdated", "GovernorTransferred"}
    BY DEF Calls
  <2>2. CASE call.event \in {"Deposit", "Withdraw"}
    BY <2>2 DEF Emitted
  <2>3. CASE call.event = "FeeUpdated"
    BY <2>3 DEF Emitted, Calls, FeeLog, BlockState
  <2>4. CASE call.event = "GovernorTransferred"
    BY <2>4 DEF Emitted, Calls, GovernorLog, BlockState
  <2>. QED  BY <2>1, <2>2, <2>3, <2>4
<1>2. \A i \in DOMAIN calls : calls[i] \in Calls /\ i \in Nat
  OBVIOUS
<1>3. \A i \in DOMAIN calls : EntryOf(Emitted(state, calls[i]), n, i) \in Entries
  BY <1>1, <1>2 DEF EntryOf, Entries
<1>4. EventsOf(state, calls, n) \in [1 .. Len(calls) -> Entries] /\ Len(calls) \in Nat
      /\ DOMAIN calls = 1 .. Len(calls)
  BY <1>3 DEF EventsOf
<1>5. \A m \in Nat : \A f \in [1 .. m -> Entries] : f \in Seq(Entries) /\ Len(f) = m
  BY SeqDef, LenProperties
<1>6. \A i \in DOMAIN calls :
         EventsOf(state, calls, n)[i] = EntryOf(Emitted(state, calls[i]), n, i)
  BY DEF EventsOf
<1>. QED  BY <1>4, <1>5, <1>6

\* One sequence behind another.
LEMMA Behind ==
    ASSUME NEW S, NEW s \in Seq(S), NEW t \in Seq(S)
    PROVE  /\ s \o t \in Seq(S) /\ Len(s \o t) = Len(s) + Len(t)
           /\ \A i \in 1 .. Len(s) : (s \o t)[i] = s[i]
           /\ \A i \in 1 .. Len(t) : (s \o t)[Len(s) + i] = t[i]
<1>1. s \o t \in Seq(S) /\ Len(s \o t) = Len(s) + Len(t) /\ Len(s) \in Nat /\ Len(t) \in Nat
      /\ \A i \in 1 .. Len(s) + Len(t) :
            (s \o t)[i] = IF i <= Len(s) THEN s[i] ELSE t[i - Len(s)]
  BY ConcatProperties, LenProperties
<1>2. \A i \in 1 .. Len(s) : i \in 1 .. Len(s) + Len(t) /\ i <= Len(s)
  BY <1>1
<1>3. \A i \in 1 .. Len(t) : /\ Len(s) + i \in 1 .. Len(s) + Len(t) /\ ~(Len(s) + i <= Len(s))
                             /\ (Len(s) + i) - Len(s) = i
  BY <1>1
<1>. QED  BY <1>1, <1>2, <1>3

\* The next block's events come after those there are,
LEMMA BlockInOrder ==
    ASSUME NEW n \in Nat, NEW logs, InOrder(logs, n), NEW state \in BlockState, NEW calls \in Seq(Calls)
    PROVE  InOrder(logs \o EventsOf(state, calls, n + 1), n + 1)
<1>. PICK block : block = EventsOf(state, calls, n + 1)
  OBVIOUS
<1>. PICK whole : whole = logs \o block
  OBVIOUS
<1>1. /\ block \in Seq(Entries) /\ Len(block) = Len(calls) /\ DOMAIN calls = 1 .. Len(calls)
      /\ \A i \in 1 .. Len(block) : block[i].block = n + 1 /\ block[i].logIndex = i
  <2>. PICK m : m = n + 1
    OBVIOUS
  <2>1. m \in Nat /\ DOMAIN calls = 1 .. Len(calls) /\ block = EventsOf(state, calls, m)
    OBVIOUS
  <2>2. /\ block \in Seq(Entries) /\ Len(block) = Len(calls)
        /\ \A i \in DOMAIN calls : block[i] = EntryOf(Emitted(state, calls[i]), m, i)
    BY <2>1, EventsAreEntries
  <2>3. \A i \in 1 .. Len(block) : block[i].block = m /\ block[i].logIndex = i
    <3>1. \A log, i : EntryOf(log, m, i).block = m /\ EntryOf(log, m, i).logIndex = i
      BY DEF EntryOf
    <3>2. \A i \in 1 .. Len(block) : i \in DOMAIN calls
      BY <2>1, <2>2
    <3>. QED  BY <2>2, <3>1, <3>2
  <2>. QED  BY <2>1, <2>2, <2>3
<1>2. logs \in Seq(Entries) /\ DOMAIN logs = 1 .. Len(logs) /\ Len(logs) \in Nat
      /\ Len(block) \in Nat
  BY <1>1 DEF InOrder
<1>3. /\ whole \in Seq(Entries) /\ Len(whole) = Len(logs) + Len(block)
      /\ \A i \in 1 .. Len(logs) : whole[i] = logs[i]
      /\ \A i \in 1 .. Len(block) : whole[Len(logs) + i] = block[i]
  BY <1>1, <1>2, Behind
<1>4. DOMAIN whole = 1 .. Len(whole)
  BY <1>3
<1>5. ASSUME NEW i \in DOMAIN whole
      PROVE  /\ i \in 1 .. Len(logs) => i \in DOMAIN logs /\ whole[i] = logs[i]
                                        /\ whole[i].block \in Nat /\ whole[i].block <= n
             /\ i \notin 1 .. Len(logs) => i - Len(logs) \in 1 .. Len(block) /\ whole[i].block = n + 1
                                           /\ whole[i].logIndex = i - Len(logs)
  <2>1. i \in 1 .. Len(logs) => i \in DOMAIN logs /\ whole[i] = logs[i]
    BY <1>2, <1>3
  <2>2. i \in 1 .. Len(logs) => whole[i].block \in Nat /\ whole[i].block <= n
    <3>1. i \in 1 .. Len(logs) => logs[i] \in Entries
      BY <1>2
    <3>. QED  BY <2>1, <3>1 DEF InOrder, Entries
  <2>3. i \notin 1 .. Len(logs) => i - Len(logs) \in 1 .. Len(block)
                                   /\ Len(logs) + (i - Len(logs)) = i
    BY <1>2, <1>3, <1>4
  <2>. QED  BY <1>1, <1>3, <2>1, <2>2, <2>3
<1>6. \A i \in DOMAIN whole : whole[i].block <= n + 1
  BY <1>5
<1>7. ASSUME NEW i \in DOMAIN whole, NEW j \in DOMAIN whole, i < j
      PROVE  \/ whole[i].block < whole[j].block
             \/ whole[i].block = whole[j].block /\ whole[i].logIndex < whole[j].logIndex
  <2>0. i \in Nat /\ j \in Nat
    BY <1>2, <1>3, <1>4
  <2>1. CASE j \in 1 .. Len(logs)
    <3>1. i \in 1 .. Len(logs)
      BY <1>2, <1>4, <1>7, <2>0, <2>1
    <3>2. i \in DOMAIN logs /\ j \in DOMAIN logs /\ whole[i] = logs[i] /\ whole[j] = logs[j]
      BY <1>5, <2>1, <3>1
    <3>. QED  BY <1>7, <3>2 DEF InOrder
  <2>2. CASE i \in 1 .. Len(logs) /\ j \notin 1 .. Len(logs)
    <3>1. whole[i].block \in Nat /\ whole[i].block <= n /\ whole[j].block = n + 1
      BY <1>5, <2>2
    <3>. QED  BY <3>1
  <2>3. CASE i \notin 1 .. Len(logs) /\ j \notin 1 .. Len(logs)
    <3>1. /\ whole[i].block = n + 1 /\ whole[j].block = n + 1
          /\ whole[i].logIndex = i - Len(logs) /\ whole[j].logIndex = j - Len(logs)
      BY <1>5, <2>3
    <3>2. \A x, y, z \in Nat : x < y => x - z < y - z
      OBVIOUS
    <3>3. i - Len(logs) < j - Len(logs)
      BY <1>2, <1>7, <2>0, <3>2
    <3>. QED  BY <3>1, <3>3
  <2>. QED  BY <2>1, <2>2, <2>3
<1>. QED  BY <1>3, <1>6, <1>7, ZenonT(60) DEF InOrder

\* and add up to what the vault is after them: there is no first call after which
\* they would not.
LEMMA BlockSums ==
    ASSUME NEW n \in Nat, NEW logs, NEW then, SummedAs(logs, n, then), NEW calls \in Seq(Calls)
    PROVE  SummedAs(logs \o EventsOf(then, calls, n + 1), n + 1, AfterAll(then, calls))
<1>. PICK block : block = EventsOf(then, calls, n + 1)
  OBVIOUS
<1>. PICK whole : whole = logs \o block
  OBVIOUS
<1>1. PICK old : SummedUp(old, logs) /\ Matches(old[Len(logs)], then)
  BY DEF SummedAs
<1>2. then \in BlockState
  BY <1>1 DEF Matches
<1>. PICK l, c : l = Len(logs) /\ c = Len(calls)
  OBVIOUS
<1>3. /\ logs \in Seq(Entries) /\ l \in Nat /\ c \in Nat /\ DOMAIN calls = 1 .. c
      /\ block \in Seq(Entries) /\ Len(block) = c
      /\ \A i \in 1 .. c : block[i] = EntryOf(Emitted(then, calls[i]), n + 1, i) /\ calls[i] \in Calls
  <2>1. logs \in Seq(Entries) /\ n + 1 \in Nat
    BY DEF SummedAs, InOrder
  <2>2. l \in Nat /\ c \in Nat /\ DOMAIN calls = 1 .. c /\ \A i \in 1 .. c : calls[i] \in Calls
    BY <2>1
  <2>. QED  BY <1>2, <2>1, <2>2, EventsAreEntries
<1>4. /\ whole \in Seq(Entries) /\ Len(whole) = l + c
      /\ \A i \in 1 .. l : whole[i] = logs[i]
      /\ \A i \in 1 .. c : whole[l + i] = block[i]
  <2>1. /\ logs \o block \in Seq(Entries) /\ Len(logs \o block) = Len(logs) + Len(block)
        /\ \A i \in 1 .. Len(logs) : (logs \o block)[i] = logs[i]
        /\ \A i \in 1 .. Len(block) : (logs \o block)[Len(logs) + i] = block[i]
    BY <1>3, Behind
  <2>2. Len(logs) = l /\ Len(block) = c /\ whole = logs \o block
    BY <1>3
  <2>. QED  BY <2>1, <2>2
<1>. DEFINE sums(acc, k) == acc = [m \in 0 .. l + k |->
                                     IF m = 0 THEN NothingYet ELSE Summed(acc[m - 1], whole[m])]
            comes(aft, k) == aft = [m \in 0 .. k |->
                                     IF m = 0 THEN then ELSE After(aft[m - 1], calls[m])]
            Upto(k, acc, aft) == sums(acc, k) /\ comes(aft, k) /\ Matches(acc[l + k], aft[k])
            missing == {k \in 0 .. c : ~ \E acc, aft : Upto(k, acc, aft)}
<1>5. \E acc, aft : Upto(0, acc, aft)
  <2>. DEFINE aft == [m \in 0 .. 0 |-> then]
  <2>1. comes(aft, 0)
    OBVIOUS
  <2>2. sums(old, 0)
    <3>1. old = [m \in 0 .. l |-> IF m = 0 THEN NothingYet ELSE Summed(old[m - 1], logs[m])]
      BY <1>1 DEF SummedUp
    <3>2. l + 0 = l /\ \A m \in 0 .. l : m # 0 => whole[m] = logs[m]
      BY <1>3, <1>4
    <3>. QED  BY <3>1, <3>2
  <2>3. Matches(old[l + 0], aft[0])
    <3>1. l + 0 = l /\ aft[0] = then
      BY <1>3
    <3>. QED  BY <1>1, <3>1
  <2>4. Upto(0, old, aft)
    <3>. HIDE DEF sums, comes, aft
    <3>. QED  BY <2>1, <2>2, <2>3
  <2>. HIDE DEF Upto
  <2>. QED  BY <2>4
<1>6. ASSUME NEW k \in 1 .. c, NEW acc, NEW aft, Upto(k - 1, acc, aft)
      PROVE  \E acc2, aft2 : Upto(k, acc2, aft2)
  <2>. DEFINE acc2 == [m \in 0 .. l + k |->
                         IF m = l + k THEN Summed(acc[l + (k - 1)], whole[l + k]) ELSE acc[m]]
              aft2 == [m \in 0 .. k |->
                         IF m = k THEN After(aft[k - 1], calls[k]) ELSE aft[m]]
  <2>1. /\ sums(acc, k - 1) /\ comes(aft, k - 1) /\ Matches(acc[l + (k - 1)], aft[k - 1])
    <3>. HIDE DEF sums, comes
    <3>. QED  BY <1>6
  <2>2. /\ k \in Nat /\ k # 0 /\ k - 1 \in 0 .. k /\ l + k \in Nat /\ l + k # 0
        /\ (l + k) - 1 = l + (k - 1) /\ l + (k - 1) \in 0 .. l + k
    BY <1>3
  <2>3. \A m \in 0 .. l + (k - 1) :
           acc[m] = IF m = 0 THEN NothingYet ELSE Summed(acc[m - 1], whole[m])
    <3>1. acc = [m \in 0 .. l + (k - 1) |->
                    IF m = 0 THEN NothingYet ELSE Summed(acc[m - 1], whole[m])]
      BY <2>1
    <3>. QED  BY <3>1
  <2>4. \A m \in 0 .. k - 1 : aft[m] = IF m = 0 THEN then ELSE After(aft[m - 1], calls[m])
    <3>1. aft = [m \in 0 .. k - 1 |-> IF m = 0 THEN then ELSE After(aft[m - 1], calls[m])]
      BY <2>1
    <3>. QED  BY <3>1
  <2>5. /\ \A m \in 0 .. l + (k - 1) : m \in 0 .. l + k /\ m # l + k /\ acc2[m] = acc[m]
        /\ acc2[l + k] = Summed(acc[l + (k - 1)], whole[l + k])
        /\ DOMAIN acc2 = 0 .. l + k
        /\ acc2 = [m \in 0 .. l + k |-> acc2[m]]
    BY <1>3, <2>2
  <2>6. /\ \A m \in 0 .. k - 1 : m \in 0 .. k /\ m # k /\ aft2[m] = aft[m]
        /\ aft2[k] = After(aft[k - 1], calls[k])
        /\ aft2 = [m \in 0 .. k |-> aft2[m]]
    BY <2>2
  <2>. HIDE DEF acc2, aft2
  <2>7. ASSUME NEW m \in 0 .. l + k
        PROVE  acc2[m] = IF m = 0 THEN NothingYet ELSE Summed(acc2[m - 1], whole[m])
    <3>1. CASE m = l + k
      <4>1. acc2[m - 1] = acc[l + (k - 1)] /\ m # 0
        <5>1. m - 1 = l + (k - 1) /\ l + (k - 1) \in 0 .. l + (k - 1)
          BY <2>2, <3>1
        <5>. QED  BY <2>2, <2>5, <3>1, <5>1
      <4>. QED  BY <2>5, <3>1, <4>1
    <3>2. CASE m # l + k
      <4>1. m \in 0 .. l + (k - 1) /\ (m # 0 => m - 1 \in 0 .. l + (k - 1))
        <5>1. l \in Nat /\ k \in Nat
          BY <1>3
        <5>. QED  BY ONLY <5>1, <3>2, m \in 0 .. l + k
      <4>. QED  BY <2>3, <2>5, <4>1
    <3>. QED  BY <3>1, <3>2
  <2>8. ASSUME NEW m \in 0 .. k
        PROVE  aft2[m] = IF m = 0 THEN then ELSE After(aft2[m - 1], calls[m])
    <3>1. CASE m = k
      <4>1. aft2[m - 1] = aft[k - 1] /\ m # 0
        <5>1. m - 1 = k - 1 /\ k - 1 \in 0 .. k - 1
          BY <2>2, <3>1
        <5>. QED  BY <2>2, <2>6, <3>1, <5>1
      <4>. QED  BY <2>6, <3>1, <4>1
    <3>2. CASE m # k
      <4>1. m \in 0 .. k - 1 /\ (m # 0 => m - 1 \in 0 .. k - 1)
        BY <2>2, <3>2
      <4>. QED  BY <2>4, <2>6, <4>1
    <3>. QED  BY <3>1, <3>2
  <2>9. Matches(acc2[l + k], aft2[k])
    <3>1. whole[l + k] = EntryOf(Emitted(then, calls[k]), n + 1, k) /\ calls[k] \in Calls
      BY <1>3, <1>4
    <3>2. n + 1 \in Nat /\ k \in Nat
      BY <2>2
    <3>. PICK s, state, call : s = acc[l + (k - 1)] /\ state = aft[k - 1] /\ call = calls[k]
      OBVIOUS
    <3>3. Matches(s, state)
      <4>. HIDE DEF sums, comes
      <4>. QED  BY <2>1
    <3>4. Matches(Summed(s, EntryOf(Emitted(then, call), n + 1, k)), After(state, call))
      BY <1>2, <3>1, <3>2, <3>3, EventMatches
    <3>. QED  BY <2>5, <2>6, <3>1, <3>4
  <2>10. sums(acc2, k)
    BY <2>5, <2>7
  <2>11. comes(aft2, k)
    BY <2>6, <2>8
  <2>12. Upto(k, acc2, aft2)
    <3>. HIDE DEF sums, comes
    <3>. QED  BY <2>9, <2>10, <2>11
  <2>. HIDE DEF Upto
  <2>. QED  BY <2>12
<1>. HIDE DEF Upto
<1>7. missing = {}
  <2>1. SUFFICES ASSUME missing # {} PROVE FALSE
    OBVIOUS
  <2>2. missing \in SUBSET Nat
    BY <1>3
  <2>3. PICK k \in missing : \A j \in missing : k <= j
    <3>. HIDE DEF missing
    <3>. QED  BY <2>1, <2>2, LeastPlace
  <2>4. k \in 0 .. c /\ ~ \E acc, aft : Upto(k, acc, aft)
    OBVIOUS
  <2>5. k # 0 /\ k \in 1 .. c /\ k - 1 \in 0 .. c /\ ~(k <= k - 1)
    BY <1>3, <1>5, <2>4
  <2>6. \E acc, aft : Upto(k - 1, acc, aft)
    BY <2>3, <2>5
  <2>. QED  BY <1>6, <2>4, <2>5, <2>6
<1>8. PICK acc, aft : Upto(c, acc, aft)
  <2>1. c \in 0 .. c
    BY <1>3
  <2>. QED  BY <1>7, <2>1
<1>9. sums(acc, c) /\ comes(aft, c) /\ Matches(acc[l + c], aft[c])
  <2>. HIDE DEF sums, comes
  <2>. QED  BY <1>8 DEF Upto
<1>10. SummedUp(acc, whole) /\ CalledUp(aft, then, calls)
  BY <1>4, <1>9 DEF SummedUp, CalledUp
<1>. HIDE DEF sums, comes
<1>11. AfterAll(then, calls) = aft[c]
  BY <1>3, <1>10, AfterAllIs
<1>12. InOrder(whole, n + 1)
  BY <1>2, BlockInOrder DEF SummedAs
<1>. QED  BY <1>4, <1>9, <1>10, <1>11, <1>12 DEF SummedAs

\* Sorting events that are in order changes nothing: before the i-th there are
\* i - 1 others.
LEMMA OrderedIs ==
    ASSUME NEW logs, NEW n, InOrder(logs, n)
    PROVE  Ordered(logs) = logs
<1>. DEFINE D == DOMAIN logs
            before == {p \in D \X D : Comes(logs, p[1], p[2])}
            order == Listed(D, before)
<1>1. logs \in Seq(Entries) /\ Len(logs) \in Nat /\ D = 1 .. Len(logs)
  BY DEF InOrder
<1>2. \A i \in D : logs[i].block \in Nat /\ logs[i].logIndex \in Nat /\ i \in Nat
  <2>1. \A i \in D : logs[i] \in Entries /\ i \in Nat
    BY <1>1
  <2>. QED  BY <2>1 DEF Entries
<1>3. ASSUME NEW i \in D, NEW j \in D
      PROVE  Comes(logs, i, j) <=> i < j
  <2>1. CASE i < j
    BY <1>2, <2>1 DEF InOrder, Comes
  <2>2. CASE j < i
    BY <1>2, <2>2 DEF InOrder, Comes
  <2>3. CASE i = j
    BY <1>2, <2>3 DEF Comes
  <2>. QED  BY <1>2, <2>1, <2>2, <2>3
<1>4. ASSUME NEW i \in D
      PROVE  Cardinality(Earlier(D, before, i)) = i - 1
  <2>1. i \in Nat /\ i - 1 \in Nat /\ i <= Len(logs)
    BY <1>1
  <2>2. Earlier(D, before, i) = {j \in D : j < i}
    <3>1. \A j \in D : <<j, i>> \in before <=> Comes(logs, j, i)
      OBVIOUS
    <3>. HIDE DEF before
    <3>. QED  BY <1>3, <3>1 DEF Earlier
  <2>3. {j \in D : j < i} = 1 .. i - 1
    BY <1>1, <2>1
  <2>4. Cardinality(1 .. i - 1) = i - 1
    <3>. PICK k : k = i - 1
      OBVIOUS
    <3>1. k \in Nat /\ 1 \in Int /\ k \in Int
      BY <2>1
    <3>2. Cardinality(1 .. k) = IF 1 > k THEN 0 ELSE k - 1 + 1
      BY <3>1, FS_Interval
    <3>. QED  BY <3>1, <3>2
  <2>. HIDE DEF D, before
  <2>. QED  BY <2>2, <2>3, <2>4
<1>5. Cardinality(D) = Len(logs)
  <2>. PICK k : k = Len(logs)
    OBVIOUS
  <2>1. k \in Nat /\ 1 \in Int /\ k \in Int
    BY <1>1
  <2>2. Cardinality(1 .. k) = IF 1 > k THEN 0 ELSE k - 1 + 1
    BY <2>1, FS_Interval
  <2>. HIDE DEF D
  <2>. QED  BY <1>1, <2>1, <2>2
<1>6. ASSUME NEW i \in D
      PROVE  order[i] = i
  <2>1. i \in 1 .. Cardinality(D)
    BY <1>1, <1>5
  <2>2. order[i] = CHOOSE x \in D : Cardinality(Earlier(D, before, x)) = i - 1
    <3>. HIDE DEF D, before
    <3>. QED  BY <2>1 DEF Listed
  <2>. HIDE DEF before, order
  <2>3. \A x \in D : Cardinality(Earlier(D, before, x)) = i - 1 => x = i
    BY <1>2, <1>4
  <2>4. Cardinality(Earlier(D, before, i)) = i - 1
    BY <1>4
  <2>. HIDE DEF D
  <2>. QED  BY <2>2, <2>3, <2>4
<1>7. Ordered(logs) = [i \in D |-> logs[order[i]]]
  BY DEF Ordered
<1>8. logs = [i \in D |-> logs[i]]
  BY <1>1
<1>. HIDE DEF D, order, before
<1>. QED  BY <1>6, <1>7, <1>8

\* The events of the first n blocks, one block behind the other.
Joins(flat, of) == flat = [i \in DOMAIN of |-> IF i = 1 THEN of[1] ELSE flat[i - 1] \o of[i]]

\* What FlattenSeq makes of them.
LEMMA BlocksFlatten ==
    ASSUME NEW of, NEW S, of \in Seq(S), NEW flat, Joins(flat, of), NEW n \in 1 .. Len(of)
    PROVE  Seqs!FlattenSeq([i \in 1 .. n |-> of[i]]) = flat[n]
<1>. PICK s : s = [i \in 1 .. n |-> of[i]]
  OBVIOUS
<1>. DEFINE Solves(f) == f = [i \in 1 .. n |-> IF i = 1 THEN s[i] ELSE f[i - 1] \o s[i]]
            g == [i \in 1 .. n |-> flat[i]]
            flatten == CHOOSE f : Solves(f)
            wrong == {i \in 1 .. n : flatten[i] # g[i]}
<1>1. n \in Nat /\ n # 0 /\ \A i \in 1 .. n : i \in DOMAIN of /\ s[i] = of[i]
  OBVIOUS
<1>2. Len(s) = n
  <2>1. \A i \in 1 .. n : of[i] \in S
    BY <1>1
  <2>2. s \in [1 .. n -> S]
    BY <2>1
  <2>3. \A m \in Nat : \A f \in [1 .. m -> S] : f \in Seq(S) /\ Len(f) = m
    BY SeqDef, LenProperties
  <2>. QED  BY <1>1, <2>2, <2>3
<1>3. Seqs!FlattenSeq(s) = flatten[n]
  BY <1>1, <1>2 DEF Seqs!FlattenSeq
<1>4. Solves(g)
  <2>1. ASSUME NEW i \in 1 .. n
        PROVE  g[i] = IF i = 1 THEN s[i] ELSE g[i - 1] \o s[i]
    <3>1. flat[i] = IF i = 1 THEN of[1] ELSE flat[i - 1] \o of[i]
      BY <1>1 DEF Joins
    <3>2. i # 1 => i - 1 \in 1 .. n
      BY <1>1
    <3>. QED  BY <1>1, <3>1, <3>2
  <2>2. g = [i \in 1 .. n |-> g[i]]
    OBVIOUS
  <2>. HIDE DEF g
  <2>. QED  BY <2>1, <2>2
<1>5. Solves(flatten)
  <2>. HIDE DEF Solves
  <2>. QED  BY <1>4
<1>6. /\ \A i \in 1 .. n : g[i] = IF i = 1 THEN s[i] ELSE g[i - 1] \o s[i]
      /\ \A i \in 1 .. n : flatten[i] = IF i = 1 THEN s[i] ELSE flatten[i - 1] \o s[i]
  <2>. HIDE DEF g, flatten
  <2>1. g = [i \in 1 .. n |-> IF i = 1 THEN s[i] ELSE g[i - 1] \o s[i]]
    BY <1>4
  <2>2. flatten = [i \in 1 .. n |-> IF i = 1 THEN s[i] ELSE flatten[i - 1] \o s[i]]
    BY <1>5
  <2>3. \A i \in 1 .. n : g[i] = IF i = 1 THEN s[i] ELSE g[i - 1] \o s[i]
    BY <2>1
  <2>. QED  BY <2>2, <2>3
<1>. HIDE DEF g, flatten, Solves
<1>7. wrong = {}
  <2>1. SUFFICES ASSUME wrong # {} PROVE FALSE
    OBVIOUS
  <2>2. wrong \in SUBSET Nat
    BY <1>1
  <2>3. PICK i \in wrong : \A j \in wrong : i <= j
    <3>. HIDE DEF wrong
    <3>. QED  BY <2>1, <2>2, LeastPlace
  <2>4. i \in 1 .. n /\ flatten[i] # g[i]
    OBVIOUS
  <2>5. i # 1
    BY <1>6, <2>4
  <2>6. i - 1 \in 1 .. n /\ ~(i <= i - 1)
    BY <1>1, <2>4, <2>5
  <2>7. flatten[i - 1] = g[i - 1]
    BY <2>3, <2>6
  <2>8. flatten[i] = flatten[i - 1] \o s[i] /\ g[i] = g[i - 1] \o s[i]
    BY <1>6, <2>4, <2>5
  <2>. QED  BY <2>4, <2>7, <2>8
<1>8. n \in 1 .. n /\ g[n] = flat[n]
  BY <1>1 DEF g
<1>. QED  BY <1>3, <1>7, <1>8

-----------------------------------------------------------------------------
(* The page's sums are the vault's, block by block (VaultFigures).          *)

FiguresShape ==
    /\ blocks \in Seq(Seq(Entries)) /\ contract \in Seq(BlockState) /\ Len(contract) = Len(blocks)
    /\ Len(blocks) \in 1 .. MaxBlocks
    /\ reading # None => reading.to >= 1
    /\ shown # None => shown.to >= 1
    /\ cutoff \in Cutoffs

\* For every block, the events up to it add up to the vault after it.
BlocksAddUp ==
    \E flat : /\ Joins(flat, blocks)
              /\ \A n \in DOMAIN blocks : SummedAs(flat[n], n, contract[n])

\* FiguresInv says that what is shown was read of every block up to shown.to; the
\* rest is the chain's alone, and does not depend on the page.
SumsInv == FiguresInv /\ FiguresShape /\ BlocksAddUp

\* The governor the vault begins with is the first event's.
LEMMA FirstEventSums ==
    ASSUME NEW g \in Members
    PROVE  SummedAs(<<[log |-> [event |-> "GovernorTransferred", previous |-> Zero, next |-> g],
                       block |-> 1, logIndex |-> 1]>>, 1,
                    [held |-> [a \in Members |-> 0], governor |-> g, feeBps |-> 0])
<1>. PICK log : log = [event |-> "GovernorTransferred", previous |-> Zero, next |-> g]
  OBVIOUS
<1>. PICK entry : entry = [log |-> log, block |-> 1, logIndex |-> 1]
  OBVIOUS
<1>. PICK first : first = <<entry>>
  OBVIOUS
<1>. PICK none : none = [a \in Members |-> 0]
  OBVIOUS
<1>. PICK then : then = [held |-> none, governor |-> g, feeBps |-> 0]
  OBVIOUS
<1>1. log \in GovernorLog /\ log.event = "GovernorTransferred" /\ log.next = g
  BY DEF GovernorLog
<1>2. entry \in Entries /\ entry.log = log /\ entry.block = 1 /\ entry.logIndex = 1
  BY <1>1 DEF Entries
<1>3. first \in Seq(Entries) /\ Len(first) = 1 /\ DOMAIN first = {1} /\ first[1] = entry
  BY <1>2
<1>4. InOrder(first, 1)
  BY <1>2, <1>3 DEF InOrder
<1>5. then \in BlockState /\ then.held = none /\ then.governor = g /\ then.feeBps = 0
      /\ none \in [Members -> Int]
  BY DEF BlockState
<1>. DEFINE t == [NothingYet EXCEPT !.governorChanges = Append(@, log)]
            acc == [k \in 0 .. 1 |-> IF k = 0 THEN NothingYet ELSE t]
<1>6. Summed(NothingYet, entry) = t
  BY <1>1, <1>2 DEF Summed
<1>7. /\ t \in SummaryType /\ t.balances = none /\ t.creditedAtto = 0
      /\ t.otherDeposits.atto = 0 /\ t.withdrawals.atto = 0 /\ t.rows = <<>> /\ t.feeChanges = <<>>
      /\ t.governorChanges = <<log>>
  <2>1. Append(<<>>, log) = <<log>> /\ <<log>> \in Seq(GovernorLog)
    BY <1>1
  <2>0. PICK yet : yet = NothingYet
    OBVIOUS
  <2>. yet = [balances |-> none, credited |-> {}, creditedAtto |-> 0, fundingTxs |-> {},
              otherDeposits |-> Count(0, 0), withdrawals |-> Count(0, 0),
              governorChanges |-> <<>>, feeChanges |-> <<>>, rows |-> <<>>]
    BY <2>0 DEF NothingYet
  <2>. t = [yet EXCEPT !.governorChanges = <<log>>]
    <3>1. t = [yet EXCEPT !.governorChanges = Append(yet.governorChanges, log)]
      BY <2>0
    <3>2. Append(yet.governorChanges, log) = <<log>>
      BY <2>1
    <3>. HIDE DEF t
    <3>. QED  BY <3>1, <3>2
  <2>2. t = [balances |-> none, credited |-> {}, creditedAtto |-> 0, fundingTxs |-> {},
             otherDeposits |-> Count(0, 0), withdrawals |-> Count(0, 0),
             governorChanges |-> <<log>>, feeChanges |-> <<>>, rows |-> <<>>]
    <3>. HIDE DEF t
    <3>. QED  OBVIOUS
  <2>5. none \in [Members -> Int] /\ {} \in SUBSET Members /\ {} \in SUBSET Nat
    BY <1>5
  <2>3. Count(0, 0) \in Totals /\ Count(0, 0).atto = 0
    BY DEF Count, Totals
  <2>4. <<>> \in Seq(FeeLog) /\ <<>> \in Seq(RowType)
    OBVIOUS
  <2>. HIDE DEF t
  <2>6. PICK governors, zero, nothing : governors = <<log>> /\ zero = Count(0, 0) /\ nothing = <<>>
    OBVIOUS
  <2>7. t = [balances |-> none, credited |-> {}, creditedAtto |-> 0, fundingTxs |-> {},
             otherDeposits |-> zero, withdrawals |-> zero,
             governorChanges |-> governors, feeChanges |-> nothing, rows |-> nothing]
    BY <2>2, <2>6
  <2>8. /\ governors \in Seq(GovernorLog) /\ nothing \in Seq(FeeLog) /\ nothing \in Seq(RowType)
        /\ zero \in Totals /\ zero.atto = 0
    BY <2>1, <2>3, <2>4, <2>6
  <2>9. t \in SummaryType
    BY <2>5, <2>7, <2>8 DEF SummaryType
  <2>10. /\ t.balances = none /\ t.creditedAtto = 0 /\ t.otherDeposits = zero /\ t.withdrawals = zero
         /\ t.rows = nothing /\ t.feeChanges = nothing /\ t.governorChanges = governors
    BY <2>7
  <2>. QED  BY <2>6, <2>8, <2>9, <2>10
<1>8. Gained(<<>>) = 0
  <2>. PICK s : s = [i \in DOMAIN <<>> |-> GainOf(<<>>[i])]
    OBVIOUS
  <2>. PICK p : p = [n \in 0 .. 0 |-> 0]
    OBVIOUS
  <2>1. s = <<>> /\ s \in Seq(Int) /\ Len(s) = 0
    OBVIOUS
  <2>2. SumsTo(s, p) /\ p[0] = 0
    BY <2>1 DEF SumsTo
  <2>3. SumOf(s) = 0
    BY <2>1, <2>2, SumOfIs
  <2>. QED  BY <2>3 DEF Gained
<1>9. HeldSum(none) = 0
  BY NothingHeld
<1>. HIDE DEF t
<1>10. Matches(t, then)
  <2>1. t.governorChanges # <<>> /\ t.governorChanges[Len(t.governorChanges)].next = g
    BY <1>1, <1>7
  <2>2. t.creditedAtto + t.otherDeposits.atto - t.withdrawals.atto = 0
    BY <1>7
  <2>3. Gained(t.rows) = 0
    BY <1>7, <1>8
  <2>. QED  BY <1>5, <1>7, <1>9, <2>1, <2>2, <2>3 DEF Matches
<1>11. SummedUp(acc, first) /\ acc[Len(first)] = t
  <2>1. \A k \in 0 .. 1 : acc[k] = IF k = 0 THEN NothingYet ELSE Summed(acc[k - 1], first[k])
    <3>1. \A k \in 0 .. 1 : k # 0 => k = 1 /\ k - 1 = 0
      OBVIOUS
    <3>2. acc[0] = NothingYet /\ acc[1] = t
      OBVIOUS
    <3>. HIDE DEF acc
    <3>. QED  BY <1>3, <1>6, <3>1, <3>2
  <2>2. acc = [k \in 0 .. 1 |-> acc[k]] /\ acc[1] = t
    OBVIOUS
  <2>. HIDE DEF acc
  <2>. QED  BY <1>3, <2>1, <2>2 DEF SummedUp
<1>. HIDE DEF acc
<1>12. SummedAs(first, 1, then)
  BY <1>4, <1>10, <1>11 DEF SummedAs
<1>. QED  BY <1>12

\* The chain begins with one block, of one event.
LEMMA SumsInit == FiguresInit => SumsInv
<1>. SUFFICES ASSUME FiguresInit PROVE SumsInv
  OBVIOUS
<1>1. PICK g \in Members :
        /\ contract = <<[held |-> [a \in Members |-> 0], governor |-> g, feeBps |-> 0]>>
        /\ blocks = << <<[log |-> [event |-> "GovernorTransferred", previous |-> Zero, next |-> g],
                          block |-> 1, logIndex |-> 1]>> >>
  BY DEF FiguresInit
<1>. PICK state : state = [held |-> [a \in Members |-> 0], governor |-> g, feeBps |-> 0]
  OBVIOUS
<1>. PICK first : first = <<[log |-> [event |-> "GovernorTransferred", previous |-> Zero, next |-> g],
                             block |-> 1, logIndex |-> 1]>>
  OBVIOUS
<1>2. contract = <<state>> /\ blocks = <<first>> /\ SummedAs(first, 1, state)
  BY <1>1, FirstEventSums
<1>3. first \in Seq(Entries) /\ state \in BlockState
  BY <1>2 DEF SummedAs, InOrder, Matches
<1>4. FiguresInv
  BY FiguresInitHolds
<1>5. FiguresShape
  <2>1. reading = None /\ shown = None /\ cutoff \in Cutoffs
    BY DEF FiguresInit
  <2>2. 1 \in 1 .. MaxBlocks
    BY FiguresAssumption
  <2>. QED  BY <1>2, <1>3, <2>1, <2>2 DEF FiguresShape
<1>6. BlocksAddUp
  <2>. DEFINE flat == [i \in DOMAIN blocks |-> first]
  <2>1. DOMAIN blocks = {1} /\ blocks[1] = first /\ contract[1] = state
    BY <1>2
  <2>2. Joins(flat, blocks)
    BY <2>1 DEF Joins
  <2>3. \A n \in DOMAIN blocks : SummedAs(flat[n], n, contract[n])
    BY <1>2, <2>1
  <2>. HIDE DEF flat
  <2>. QED  BY <2>2, <2>3 DEF BlocksAddUp
<1>. QED  BY <1>4, <1>5, <1>6 DEF SumsInv

\* A block more: its events come last.
LEMMA MineSums ==
    ASSUME SumsInv, NEW calls \in Transactions, MineBlock(calls)
    PROVE  FiguresShape' /\ BlocksAddUp'
<1>. PICK l, then, new, after : /\ l = Len(blocks) /\ then = Latest
                                /\ new = EventsOf(then, calls, l + 1) /\ after = AfterAll(then, calls)
  OBVIOUS
<1>1. PICK flat : Joins(flat, blocks) /\ \A n \in DOMAIN blocks : SummedAs(flat[n], n, contract[n])
  BY DEF SumsInv, BlocksAddUp
<1>2. /\ blocks \in Seq(Seq(Entries)) /\ contract \in Seq(BlockState) /\ Len(contract) = l
      /\ l \in Nat /\ l >= 1 /\ DOMAIN blocks = 1 .. l /\ calls \in Seq(Calls)
  BY FiguresAssumption DEF SumsInv, FiguresShape
<1>3. /\ blocks' = Append(blocks, new) /\ contract' = Append(contract, after) /\ l < MaxBlocks
      /\ UNCHANGED <<reading, shown, cutoff>>
  <2>1. Logs(then, calls) = EventsOf(then, calls, l + 1)
    BY DEF Logs, EventsOf, EntryOf
  <2>. QED  BY <2>1 DEF MineBlock
<1>4. then = contract[l] /\ then \in BlockState
  BY <1>2 DEF Latest
<1>5. SummedAs(flat[l] \o new, l + 1, after)
  <2>1. l \in DOMAIN blocks
    BY <1>2
  <2>2. SummedAs(flat[l], l, then)
    BY <1>1, <1>4, <2>1
  <2>. QED  BY <1>2, <2>2, BlockSums
<1>6. after \in BlockState /\ new \in Seq(Entries)
  <2>. PICK m : m = l + 1
    OBVIOUS
  <2>1. m \in Nat /\ new = EventsOf(then, calls, m)
    BY <1>2
  <2>. QED  BY <1>2, <1>4, <1>5, <2>1, EventsAreEntries DEF SummedAs, Matches
<1>7. /\ blocks' \in Seq(Seq(Entries)) /\ contract' \in Seq(BlockState)
      /\ Len(blocks') = l + 1 /\ Len(contract') = l + 1 /\ DOMAIN blocks' = 1 .. l + 1
      /\ blocks'[l + 1] = new /\ contract'[l + 1] = after
      /\ \A i \in 1 .. l : blocks'[i] = blocks[i] /\ contract'[i] = contract[i]
  BY <1>2, <1>3, <1>6
<1>8. FiguresShape'
  <2>1. l + 1 \in 1 .. MaxBlocks
    BY <1>2, <1>3, FiguresAssumption
  <2>. QED  BY <1>3, <1>7, <2>1 DEF SumsInv, FiguresShape
<1>9. BlocksAddUp'
  <2>. DEFINE next == [i \in 1 .. l + 1 |-> IF i = l + 1 THEN flat[l] \o new ELSE flat[i]]
  <2>0. l + 1 \in 1 .. l + 1 /\ \A i \in 1 .. l : i \in 1 .. l + 1 /\ i # l + 1
    BY <1>2
  <2>1. /\ next[l + 1] = flat[l] \o new
        /\ \A i \in 1 .. l : next[i] = flat[i]
        /\ next = [i \in 1 .. l + 1 |-> next[i]]
    BY <2>0
  <2>. HIDE DEF next
  <2>2. ASSUME NEW i \in 1 .. l + 1
        PROVE  next[i] = IF i = 1 THEN blocks'[1] ELSE next[i - 1] \o blocks'[i]
    <3>1. CASE i = l + 1
      <4>1. i - 1 = l /\ l \in 1 .. l /\ i # 1
        BY <1>2, <3>1
      <4>. QED  BY <1>7, <2>1, <3>1, <4>1
    <3>2. CASE i # l + 1
      <4>1. i \in 1 .. l /\ 1 \in 1 .. l /\ (i # 1 => i - 1 \in 1 .. l)
        BY <1>2, <3>2
      <4>2. flat[i] = IF i = 1 THEN blocks[1] ELSE flat[i - 1] \o blocks[i]
        BY <1>1, <1>2, <4>1 DEF Joins
      <4>. QED  BY <1>7, <2>1, <4>1, <4>2
    <3>. QED  BY <3>1, <3>2
  <2>3. Joins(next, blocks')
    BY <1>7, <2>1, <2>2 DEF Joins
  <2>4. ASSUME NEW n \in DOMAIN blocks'
        PROVE  SummedAs(next[n], n, contract'[n])
    <3>1. CASE n = l + 1
      BY <1>5, <1>7, <2>1, <3>1
    <3>2. CASE n # l + 1
      <4>1. n \in 1 .. l
        BY <1>2, <1>7, <3>2
      <4>. QED  BY <1>1, <1>2, <1>7, <2>1, <4>1
    <3>. QED  BY <3>1, <3>2
  <2>. QED  BY <2>3, <2>4 DEF BlocksAddUp
<1>. QED  BY <1>8, <1>9

LEMMA SumsNext == SumsInv /\ [FiguresNext]_figuresVars => SumsInv'
<1>. SUFFICES ASSUME SumsInv, [FiguresNext]_figuresVars PROVE SumsInv'
  OBVIOUS
<1>1. FiguresInv'
  BY FiguresNextKeeps DEF SumsInv
<1>. SUFFICES FiguresShape' /\ BlocksAddUp'
  BY <1>1 DEF SumsInv
<1>2. Len(blocks) >= 1 /\ FiguresShape /\ BlocksAddUp /\ FiguresInv
  BY DEF SumsInv, FiguresShape
<1>3. ASSUME NEW calls \in Transactions, MineBlock(calls)
      PROVE  FiguresShape' /\ BlocksAddUp'
  BY <1>3, MineSums
<1>4. ASSUME UNCHANGED <<blocks, contract, cutoff>>,
             reading' # None => reading'.to >= 1, shown' # None => shown'.to >= 1
      PROVE  FiguresShape' /\ BlocksAddUp'
  BY <1>2, <1>4 DEF FiguresShape, BlocksAddUp
<1>5. CASE ReadVaultLogs
  <2>1. UNCHANGED <<blocks, contract, cutoff, shown>> /\ reading'.to = Len(blocks)
    BY <1>5 DEF ReadVaultLogs
  <2>. QED  BY <1>2, <1>4, <2>1 DEF FiguresShape
<1>6. CASE RangeIsBack
  <2>1. UNCHANGED <<blocks, contract, cutoff, shown>> /\ reading # None
        /\ reading' = [reading EXCEPT !.ranges = Tail(@), !.answered = @ \o Numbers(Head(reading.ranges))]
    BY <1>6 DEF RangeIsBack
  <2>2. reading'.to = reading.to
    BY <1>2, <2>1 DEF FiguresInv, Reads
  <2>. QED  BY <1>2, <1>4, <2>1, <2>2 DEF FiguresShape
<1>7. CASE RangeFails
  <2>1. UNCHANGED <<blocks, contract, cutoff, shown>> /\ reading # None
        /\ \/ reading' = None
           \/ reading' = [reading EXCEPT !.ranges = Halves(Head(reading.ranges)) \o Tail(@)]
    BY <1>7 DEF RangeFails
  <2>2. reading' = None \/ reading'.to = reading.to
    BY <1>2, <2>1 DEF FiguresInv, Reads
  <2>. QED  BY <1>2, <1>4, <2>1, <2>2 DEF FiguresShape
<1>8. CASE LogsAreBack
  <2>1. UNCHANGED <<blocks, contract, cutoff>> /\ reading # None /\ reading' = None
        /\ shown'.to = reading.to
    BY <1>8 DEF LogsAreBack
  <2>. QED  BY <1>2, <1>4, <2>1 DEF FiguresShape
<1>9. CASE UNCHANGED figuresVars
  BY <1>2, <1>4, <1>9 DEF figuresVars, FiguresShape
<1>. QED  BY <1>3, <1>5, <1>6, <1>7, <1>8, <1>9 DEF FiguresNext

LEMMA SumsInvariance == FiguresSpec => []SumsInv
<1>. QED  BY SumsInit, SumsNext, PTL DEF FiguresSpec

\* The types follow.
LEMMA SumsTyped == SumsInv => FiguresTypeOK
<1>. SUFFICES ASSUME SumsInv PROVE FiguresTypeOK
  OBVIOUS
<1>1. /\ DOMAIN contract = DOMAIN blocks /\ Len(blocks) \in 1 .. MaxBlocks /\ cutoff \in Cutoffs
      /\ Len(blocks) \in Nat
  BY DEF SumsInv, FiguresShape
<1>2. \A n \in Nat : UpTo(n) \in Seq(Nat)
  <2>1. \A n \in Nat : UpTo(n) \in [1 .. n -> Nat]
    BY DEF UpTo
  <2>2. \A m \in Nat : \A f \in [1 .. m -> Nat] : f \in Seq(Nat)
    BY SeqDef
  <2>. QED  BY <2>1, <2>2
<1>3. ASSUME reading # None
      PROVE  /\ reading.to \in 1 .. Len(blocks) /\ reading.ranges \in Seq([from : Nat, to : Nat])
             /\ reading.answered \in Seq(Nat)
  <2>1. Reads(reading) /\ reading.to <= Len(blocks) /\ reading.to >= 1
    BY <1>3 DEF SumsInv, FiguresInv, FiguresShape
  <2>2. PICK n \in Nat : reading.answered = UpTo(n) /\ GoOn(reading.ranges, n + 1, reading.to)
                         /\ reading.to \in Nat
    BY <2>1 DEF Reads
  <2>3. reading.ranges \in Seq([from : Nat, to : Nat])
    BY <2>2 DEF GoOn, BlockRange
  <2>4. reading.answered \in Seq(Nat)
    BY <1>2, <2>2
  <2>5. \A k, m \in Nat : k <= m /\ k >= 1 => k \in 1 .. m
    OBVIOUS
  <2>. QED  BY <1>1, <2>1, <2>2, <2>3, <2>4, <2>5
<1>4. ASSUME shown # None
      PROVE  shown.to \in 1 .. Len(blocks) /\ shown.answered \in Seq(Nat)
  <2>1. shown.to \in Nat /\ shown.to <= Len(blocks) /\ shown.to >= 1 /\ shown.answered = UpTo(shown.to)
    BY <1>4 DEF SumsInv, FiguresInv, FiguresShape
  <2>2. \A n, m \in Nat : n <= m /\ n >= 1 => n \in 1 .. m
    OBVIOUS
  <2>. QED  BY <1>1, <1>2, <2>1, <2>2
<1>. QED  BY <1>1, <1>3, <1>4 DEF FiguresTypeOK

\* What is read is summed up in the order of the chain, to what the vault was.
LEMMA SummaryMatches == SumsInv /\ shown # None => Matches(Summary, contract[shown.to])
<1>. SUFFICES ASSUME SumsInv, shown # None PROVE Matches(Summary, contract[shown.to])
  OBVIOUS
<1>. PICK n : n = shown.to
  OBVIOUS
<1>1. PICK flat : Joins(flat, blocks) /\ \A k \in DOMAIN blocks : SummedAs(flat[k], k, contract[k])
  BY DEF SumsInv, BlocksAddUp
<1>2. /\ n \in 1 .. Len(blocks) /\ blocks \in Seq(Seq(Entries)) /\ n \in DOMAIN blocks
      /\ shown.answered = UpTo(n)
  BY DEF SumsInv, FiguresInv, FiguresShape
<1>3. ShownLogs = flat[n]
  <2>1. Mapped(LAMBDA k : blocks[k], UpTo(n)) = [i \in 1 .. n |-> blocks[i]]
    BY <1>2 DEF Mapped, UpTo
  <2>2. Seqs!FlattenSeq([i \in 1 .. n |-> blocks[i]]) = flat[n]
    BY <1>1, <1>2, BlocksFlatten
  <2>. QED  BY <1>2, <2>1, <2>2 DEF ShownLogs
<1>4. SummedAs(flat[n], n, contract[n])
  BY <1>1, <1>2
<1>5. Ordered(flat[n]) = flat[n]
  BY <1>4, OrderedIs DEF SummedAs
<1>6. PICK acc : SummedUp(acc, flat[n]) /\ Matches(acc[Len(flat[n])], contract[n])
  BY <1>4 DEF SummedAs
<1>7. Len(flat[n]) \in Nat
  BY <1>4 DEF SummedAs, InOrder
<1>8. Summary = acc[Len(flat[n])]
  <2>1. SummaryOf(flat[n]) = acc[Len(flat[n])]
    BY <1>6, <1>7, SummaryOfIs
  <2>. QED  BY <1>3, <1>5, <2>1 DEF Summary
<1>. QED  BY <1>6, <1>8

\* So what the page says of the vault is what the vault was.
LEMMA SumsAreTheVault == SumsInv => SummaryIsTheVault
<1>. SUFFICES ASSUME SumsInv, shown # None PROVE IsThat(Summary, contract[shown.to])
  BY DEF SummaryIsTheVault
<1>. PICK s, then : s = Summary /\ then = contract[shown.to]
  OBVIOUS
<1>1. Matches(s, then)
  BY SummaryMatches
<1>2. /\ s \in SummaryType /\ s.balances = then.held
       /\ s.creditedAtto + s.otherDeposits.atto - s.withdrawals.atto = HeldSum(then.held)
       /\ Gained(s.rows) = HeldSum(then.held)
       /\ s.governorChanges # <<>> /\ s.governorChanges[Len(s.governorChanges)].next = then.governor
       /\ then.feeBps = IF s.feeChanges = <<>> THEN 0 ELSE s.feeChanges[Len(s.feeChanges)].next
  BY <1>1 DEF Matches
<1>3. HeldSum(then.held) = Seqs!FoldFunction(+, 0, then.held)
  BY DEF HeldSum
<1>4. DelegatorsNow(s) = Cardinality({a \in Members : then.held[a] > 0})
  BY <1>2 DEF DelegatorsNow
<1>5. SumOf(Mapped(GainOf, Activity(s))) = Gained(s.rows)
  <2>. DEFINE rows == s.rows
              gains == [i \in DOMAIN rows |-> GainOf(rows[i])]
  <2>1. rows \in Seq(RowType) /\ Len(rows) \in Nat /\ DOMAIN rows = 1 .. Len(rows)
    BY <1>2 DEF SummaryType
  <2>. HIDE DEF rows
  <2>2. \A i \in 1 .. Len(rows) : GainOf(rows[i]) \in Int
    <3>1. \A i \in 1 .. Len(rows) : rows[i] \in RowType
      BY <2>1
    <3>. QED  BY <3>1 DEF RowType, GainOf
  <2>3. gains \in Seq(Int) /\ Len(gains) = Len(rows)
    <3>1. gains \in [1 .. Len(rows) -> Int]
      BY <2>1, <2>2
    <3>2. \A m \in Nat : \A f \in [1 .. m -> Int] : f \in Seq(Int) /\ Len(f) = m
      BY SeqDef, LenProperties
    <3>. HIDE DEF gains
    <3>. QED  BY <2>1, <3>1, <3>2
  <2>4. Activity(s) = [i \in 1 .. Len(rows) |-> rows[(Len(rows) - i) + 1]]
    BY DEF Activity, Seqs!Reverse, rows
  <2>5. \A i \in 1 .. Len(rows) : (Len(rows) - i) + 1 \in DOMAIN rows
    BY <2>1
  <2>6. Mapped(GainOf, Activity(s)) = [i \in 1 .. Len(rows) |-> gains[Len(rows) - i + 1]]
    BY <2>4, <2>5 DEF Mapped
  <2>. HIDE DEF gains
  <2>7. SumOf([i \in 1 .. Len(gains) |-> gains[Len(gains) - i + 1]]) = SumOf(gains)
    BY <2>3, SumOfReverse
  <2>8. Gained(s.rows) = SumOf(gains)
    BY DEF Gained, gains, rows
  <2>. QED  BY <2>3, <2>6, <2>7, <2>8
<1>6. Seqs!Last(s.governorChanges).next = then.governor
       /\ then.feeBps = IF s.feeChanges = <<>> THEN 0 ELSE Seqs!Last(s.feeChanges).next
  BY <1>2 DEF Seqs!Last
<1>7. IsThat(s, then)
  BY <1>2, <1>3, <1>4, <1>5, <1>6 DEF IsThat, GainOf, Mapped
<1>. QED  BY <1>7

\* What the page adds up of the events is what the vault held, and who governed
\* it at which fee, after the block it read up to, for any events, members and
\* number of blocks, and however the endpoint refused ranges and they were halved
\* (chain.ts readVaultLogs, activity.ts summarize).
THEOREM SummaryMatchesVault == FiguresSpec => []SummaryIsTheVault
<1>. QED  BY SumsInvariance, SumsAreTheVault, PTL

\* The read and what is shown have their types, and the chain is as long as the
\* contract's history (chain.ts).
THEOREM FiguresTyped == FiguresSpec => []FiguresTypeOK
<1>. QED  BY SumsInvariance, SumsTyped, PTL

=============================================================================
