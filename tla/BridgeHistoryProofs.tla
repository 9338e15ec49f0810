------------------------- MODULE BridgeHistoryProofs -------------------------
(***************************************************************************)
(* Proofs about the bridge page and the history page: BridgeClaims for any *)
(* rows, funds and number of claims, BridgeLookup for any contract lists   *)
(* and proof files, History for any archives.                              *)
(***************************************************************************)
EXTENDS BridgeClaims, BridgeLookup, History, Integers, FiniteSetTheorems, SequenceTheorems, TLAPS

-----------------------------------------------------------------------------
(* A chain's card (BridgeClaims).                                          *)

\* The read under way, without saying what amounts it found.
ReadForm == \E s, c, a : read = [step |-> s, claimed |-> c, available |-> a]

TypeInv ==
    /\ payer \in [Rows -> Hashes \cup {Someone, None}]
    /\ sent \in [Hashes -> SentTx \cup {None}]
    /\ tx \in ClaimTx
    /\ ReadForm

PaidBy(h) == {r \in Rows : payer[r] = h}

\* What became of a transaction says which rows it can have paid.
FateOf(h) ==
    /\ sent[h] = None \/ sent[h].end \in {"open", "reverted", "cancelled"} => PaidBy(h) = {}
    /\ sent[h] # None /\ sent[h].end \in {"included", "repriced"} => sent[h].batch \subseteq Claimed

\* The rows the page knows to be paid are.
ViewInv ==
    /\ view # None => view.claimed \subseteq Claimed
    /\ read.claimed # None => read.claimed \subseteq Claimed

\* A claim that is followed, or has ended, is of a transaction that was sent.
TxInv ==
    /\ tx.phase \in {"pending", "done"} \/ (tx.phase = "error" /\ tx.retry) => tx.hash # None
    /\ tx.phase \in {"pending", "done", "error"} /\ tx.hash # None
       => sent[tx.hash] # None /\ sent[tx.hash].batch = tx.batch
    /\ tx.phase = "done" =>
          /\ tx.paid # {} /\ tx.paid = tx.batch \cap PaidBy(tx.hash)
          /\ sent[tx.hash].end # "open"
    /\ tx.phase = "error" /\ tx.hash # None /\ ~tx.retry =>
          /\ tx.batch \cap PaidBy(tx.hash) = {}
          /\ sent[tx.hash].end # "open"

IInv == TypeInv /\ (\A h \in Hashes : FateOf(h)) /\ ViewInv /\ TxInv

-----------------------------------------------------------------------------
(* The contract.                                                           *)

\* A payment leaves what was paid, and adds nothing to other transactions.
LEMMA PayKeeps ==
    ASSUME TypeInv, NEW batch \in SUBSET Rows, NEW by \in Hashes \cup {Someone}, Pay(batch, by)
    PROVE  /\ payer' \in [Rows -> Hashes \cup {Someone, None}]
           /\ Claimed \subseteq Claimed'
           /\ \A h \in Hashes : h # by => PaidBy(h)' = PaidBy(h)
           /\ by \in Hashes => batch \subseteq Claimed' /\ (batch = {} => PaidBy(by)' = PaidBy(by))
<1>1. payer' = [r \in Rows |-> IF r \in Transfers(batch) THEN by ELSE payer[r]]
  BY DEF Pay
<1>2. \A r \in Rows : r \in Transfers(batch) <=> r \in batch /\ payer[r] = None
  BY DEF Transfers, Claimed
<1>3. payer \in [Rows -> Hashes \cup {Someone, None}]
  BY DEF TypeInv
<1>4. payer' \in [Rows -> Hashes \cup {Someone, None}]
  BY <1>1, <1>3
<1>5. \A r \in Rows : payer[r] # None => payer'[r] = payer[r]
  BY <1>1, <1>2
<1>6. Claimed \subseteq Claimed'
  BY <1>5 DEF Claimed
<1>7. ASSUME NEW h \in Hashes, h # by
      PROVE  PaidBy(h)' = PaidBy(h)
  <2>1. \A r \in Rows : payer'[r] = h <=> payer[r] = h
    BY <1>1, <1>2, <1>7, SendersAssumption
  <2>2. QED
    BY <2>1 DEF PaidBy
<1>8. ASSUME by \in Hashes
      PROVE  batch \subseteq Claimed' /\ (batch = {} => PaidBy(by)' = PaidBy(by))
  <2>1. by # None
    BY <1>8, SendersAssumption
  <2>2. \A r \in batch : payer'[r] # None
    BY <1>1, <1>2, <2>1
  <2>3. batch = {} => \A r \in Rows : payer'[r] = payer[r]
    BY <1>1, <1>2
  <2>4. QED
    BY <2>2, <2>3 DEF Claimed, PaidBy
<1>9. QED
  BY <1>4, <1>6, <1>7, <1>8

\* The page and what was sent do not move, and no payment is lost or is of theirs.
LEMMA OthersKeep ==
    ASSUME IInv, payer' \in [Rows -> Hashes \cup {Someone, None}], Claimed \subseteq Claimed',
           \A h \in Hashes : PaidBy(h)' = PaidBy(h),
           UNCHANGED <<sent, queryVars, cardVars>>
    PROVE  IInv'
<1>1. sent' = sent /\ read' = read /\ view' = view /\ tx' = tx
  BY DEF queryVars, cardVars
<1>2. TypeInv'
  BY <1>1 DEF IInv, TypeInv, ReadForm
<1>3. ASSUME NEW h \in Hashes
      PROVE  FateOf(h)'
  BY <1>1 DEF IInv, FateOf
<1>4. ViewInv'
  BY <1>1 DEF IInv, ViewInv
<1>5. TxInv'
  <2>1. tx.hash \in Hashes \cup {None}
    BY DEF IInv, TypeInv, ClaimTx
  <2>2. tx.hash # None => PaidBy(tx.hash)' = PaidBy(tx.hash)
    BY <1>1, <2>1 DEF PaidBy
  <2>3. QED
    BY <1>1, <2>2 DEF IInv, TxInv
<1>6. QED
  BY <1>2, <1>3, <1>4, <1>5 DEF IInv

\* An open transaction h comes to an end that says what it paid.
LEMMA EndKeeps ==
    ASSUME IInv, NEW h \in Hashes, NEW end \in Ends, end # "open",
           sent[h] # None, sent[h].end = "open", sent' = [sent EXCEPT ![h].end = end],
           payer' \in [Rows -> Hashes \cup {Someone, None}], Claimed \subseteq Claimed',
           \A g \in Hashes : g # h => PaidBy(g)' = PaidBy(g),
           end \in {"reverted", "cancelled"} => PaidBy(h)' = {},
           end \in {"included", "repriced"} => sent[h].batch \subseteq Claimed',
           UNCHANGED <<queryVars, cardVars>>
    PROVE  IInv'
<1>1. read' = read /\ view' = view /\ tx' = tx
  BY DEF queryVars, cardVars
<1>2. sent[h] \in SentTx /\ sent \in [Hashes -> SentTx \cup {None}] /\ tx \in ClaimTx
  BY DEF IInv, TypeInv
<1> DEFINE s == [sent[h] EXCEPT !.end = end]
<1>3. sent' = [sent EXCEPT ![h] = s]
  OBVIOUS
<1>4. s \in SentTx /\ s.batch = sent[h].batch /\ s.end = end
  BY <1>2 DEF SentTx
<1> HIDE DEF s
<1>5. /\ sent'[h] = s /\ \A g \in Hashes : g # h => sent'[g] = sent[g]
      /\ sent' \in [Hashes -> SentTx \cup {None}]
  BY <1>2, <1>3, <1>4
<1>6. s # None
  BY <1>4, NoneAssumption
<1>7. TypeInv'
  BY <1>1, <1>5 DEF IInv, TypeInv, ReadForm
<1>8. ASSUME NEW g \in Hashes
      PROVE  FateOf(g)'
  <2>1. CASE g # h
    BY <1>5, <2>1 DEF IInv, FateOf
  <2>2. CASE g = h
    BY <1>4, <1>5, <1>6, <2>2 DEF FateOf, Ends
  <2>3. QED
    BY <2>1, <2>2
<1>9. ViewInv'
  BY <1>1 DEF IInv, ViewInv
<1>10. TxInv'
  <2>1. CASE tx.hash = h
    <3>1. sent'[tx.hash].batch = sent[tx.hash].batch /\ sent'[tx.hash] # None
      BY <1>4, <1>5, <1>6, <2>1
    <3>2. ~(tx.phase = "done") /\ ~(tx.phase = "error" /\ tx.hash # None /\ ~tx.retry)
      BY <2>1, SendersAssumption DEF IInv, TxInv
    <3>3. QED
      BY <1>1, <3>1, <3>2 DEF IInv, TxInv
  <2>2. CASE tx.hash # h /\ tx.hash \in Hashes
    <3>1. sent'[tx.hash] = sent[tx.hash] /\ PaidBy(tx.hash)' = PaidBy(tx.hash)
      BY <1>1, <1>5, <2>2 DEF PaidBy
    <3>2. QED
      BY <1>1, <3>1 DEF IInv, TxInv
  <2>3. CASE tx.hash = None
    BY <1>1, <2>3 DEF IInv, TxInv
  <2>4. QED
    BY <1>2, <2>1, <2>2, <2>3 DEF ClaimTx
<1>11. QED
  BY <1>7, <1>8, <1>9, <1>10 DEF IInv

-----------------------------------------------------------------------------
(* The steps of everybody else.                                            *)

\* Blocks include claims, of the page's and of others, and transactions end.
LEMMA ChainSteps == ASSUME IInv, ChainStep PROVE IInv'
<1>1. payer \in [Rows -> Hashes \cup {Someone, None}] /\ TypeInv
  BY DEF IInv, TypeInv
<1>2. ASSUME NEW batch \in SUBSET Rows, OtherClaim(batch)
      PROVE  IInv'
  <2>1. Pay(batch, Someone) /\ UNCHANGED <<sent, queryVars, cardVars>>
    BY <1>2 DEF OtherClaim
  <2>2. /\ payer' \in [Rows -> Hashes \cup {Someone, None}] /\ Claimed \subseteq Claimed'
        /\ \A h \in Hashes : h # Someone => PaidBy(h)' = PaidBy(h)
    BY <1>1, <2>1, PayKeeps
  <2>3. QED
    BY <2>1, <2>2, OthersKeep, SendersAssumption
<1>3. CASE \E a \in Assets : TokenMoves(a) \/ \E n \in 0 .. MaxFunds : SafeMoves(a, n)
  <2>1. payer' = payer /\ UNCHANGED <<sent, queryVars, cardVars>>
    BY <1>3 DEF TokenMoves, SafeMoves
  <2>2. Claimed' = Claimed /\ \A h \in Hashes : PaidBy(h)' = PaidBy(h)
    BY <2>1 DEF Claimed, PaidBy
  <2>3. QED
    BY <1>1, <2>1, <2>2, OthersKeep
<1>4. ASSUME NEW h \in Hashes, NEW how \in {"included", "repriced"}, Include(h, how)
      PROVE  IInv'
  <2>1. sent[h] # None /\ sent[h].end = "open" /\ UNCHANGED <<queryVars, cardVars>>
    BY <1>4 DEF Include
  <2>2. PaidBy(h) = {} /\ sent[h].batch \in SUBSET Rows
    BY <2>1 DEF IInv, FateOf, TypeInv, SentTx
  <2>3. CASE Accepts(sent[h].batch)
    <3>1. sent' = [sent EXCEPT ![h].end = how] /\ Pay(sent[h].batch, h)
      BY <1>4, <2>3 DEF Include
    <3>2. /\ payer' \in [Rows -> Hashes \cup {Someone, None}] /\ Claimed \subseteq Claimed'
          /\ \A g \in Hashes : g # h => PaidBy(g)' = PaidBy(g)
          /\ sent[h].batch \subseteq Claimed'
      BY <1>1, <2>2, <3>1, PayKeeps
    <3>3. QED
      BY <2>1, <3>1, <3>2, EndKeeps DEF Ends
  <2>4. CASE ~Accepts(sent[h].batch)
    <3>1. sent' = [sent EXCEPT ![h].end = "reverted"] /\ payer' = payer
      BY <1>4, <2>4 DEF Include, chainVars
    <3>2. Claimed' = Claimed /\ \A g \in Hashes : PaidBy(g)' = PaidBy(g)
      BY <3>1 DEF Claimed, PaidBy
    <3>3. QED
      BY <1>1, <2>1, <2>2, <3>1, <3>2, EndKeeps DEF Ends
  <2>5. QED
    BY <2>3, <2>4
<1>5. ASSUME NEW h \in Hashes, NEW how \in {"cancelled", "replaced"}, NEW batch \in SUBSET Rows,
             Replace(h, how, batch)
      PROVE  IInv'
  <2>1. /\ sent[h] # None /\ sent[h].end = "open" /\ UNCHANGED <<queryVars, cardVars>>
        /\ sent' = [sent EXCEPT ![h].end = how] /\ Pay(batch, h)
        /\ how = "cancelled" => batch = {}
    BY <1>5 DEF Replace
  <2>2. PaidBy(h) = {}
    BY <2>1 DEF IInv, FateOf
  <2>3. /\ payer' \in [Rows -> Hashes \cup {Someone, None}] /\ Claimed \subseteq Claimed'
        /\ \A g \in Hashes : g # h => PaidBy(g)' = PaidBy(g)
        /\ batch = {} => PaidBy(h)' = PaidBy(h)
    BY <1>1, <2>1, PayKeeps
  <2>4. QED
    BY <2>1, <2>2, <2>3, EndKeeps DEF Ends
<1>6. QED
  BY <1>2, <1>3, <1>4, <1>5 DEF ChainStep

-----------------------------------------------------------------------------
(* The steps of the card: none of them touches the contract.               *)

\* A read of the contract starts, is answered, ends or fails.
LEMMA ReadSteps == ASSUME IInv, StartRead \/ ReadStep \/ FailRead PROVE IInv'
<1>1. payer' = payer /\ sent' = sent /\ tx' = tx
  BY DEF StartRead, ReadStep, ReadClaimed, ReadAvailable, FinishRead, FailRead, chainVars, cardVars
<1>2. Claimed' = Claimed /\ \A h : PaidBy(h)' = PaidBy(h)
  BY <1>1 DEF Claimed, PaidBy
<1>3. ReadForm' /\ ViewInv'
  <2>1. PICK s, c, a : read = [step |-> s, claimed |-> c, available |-> a]
    BY DEF IInv, TypeInv, ReadForm
  <2>2. view # None => view.claimed \subseteq Claimed
    BY DEF IInv, ViewInv
  <2>3. read.claimed # None => read.claimed \subseteq Claimed
    BY DEF IInv, ViewInv
  <2>4. CASE StartRead /\ read' = [NoRead EXCEPT !.step = "calls"] /\ view' = view
    <3>1. read' = [step |-> "calls", claimed |-> None, available |-> None] /\ view' = view
      BY <2>4 DEF NoRead
    <3>2. QED
      BY <1>2, <2>2, <3>1 DEF ReadForm, ViewInv
  <2>5. CASE view' = [code |-> code, claimed |-> {}, available |-> [b \in Assets |-> 0]] /\ read' = read
    BY <1>2, <2>1, <2>3, <2>5 DEF ReadForm, ViewInv
  <2>6. CASE ReadClaimed
    <3>1. read' = [step |-> s, claimed |-> Claimed, available |-> a] /\ view' = view
      BY <2>1, <2>6 DEF ReadClaimed
    <3>2. QED
      BY <1>2, <2>2, <3>1 DEF ReadForm, ViewInv
  <2>7. CASE ReadAvailable
    <3>1. read' = [step |-> s, claimed |-> c, available |-> available] /\ view' = view
      BY <2>1, <2>7 DEF ReadAvailable
    <3>2. QED
      BY <1>2, <2>1, <2>2, <2>3, <3>1 DEF ReadForm, ViewInv
  <2>8. CASE FinishRead
    <3>1. /\ read' = [step |-> "none", claimed |-> None, available |-> None]
          /\ view' = [code |-> "ok", claimed |-> c, available |-> a]
          /\ c # None
      BY <2>1, <2>8 DEF FinishRead, NoRead
    <3>2. QED
      BY <1>2, <2>1, <2>3, <3>1 DEF ReadForm, ViewInv
  <2>9. CASE FailRead
    <3>1. read' = [step |-> "none", claimed |-> None, available |-> None] /\ view' = view
      BY <2>9 DEF FailRead, NoRead
    <3>2. QED
      BY <1>2, <2>2, <3>1 DEF ReadForm, ViewInv
  <2>10. QED
    BY <2>4, <2>5, <2>6, <2>7, <2>8, <2>9 DEF StartRead, ReadStep
<1>4. QED
  BY <1>1, <1>2, <1>3 DEF IInv, TypeInv, FateOf, TxInv

\* The claim changes, and what is read stays or is dropped.
LEMMA CardKeeps ==
    ASSUME IInv, payer' = payer, sent' \in [Hashes -> SentTx \cup {None}],
           \A h \in Hashes : sent[h] # None => sent'[h] = sent[h],
           \A h \in Hashes : sent'[h] # sent[h] => sent'[h].end = "open",
           view' = view, read' = read \/ read' = NoRead,
           tx' \in ClaimTx, TxInv'
    PROVE  IInv'
<1>1. Claimed' = Claimed /\ \A h : PaidBy(h)' = PaidBy(h)
  BY DEF Claimed, PaidBy
<1>2. TypeInv'
  BY DEF IInv, TypeInv, ReadForm, NoRead
<1>3. ViewInv'
  BY <1>1 DEF IInv, ViewInv, NoRead
<1>4. ASSUME NEW h \in Hashes
      PROVE  FateOf(h)'
  <2>1. CASE sent'[h] = sent[h]
    BY <1>1, <2>1 DEF IInv, FateOf
  <2>2. CASE sent'[h] # sent[h]
    <3>1. sent[h] = None /\ sent'[h].end = "open"
      BY <2>2
    <3>2. QED
      BY <1>1, <3>1 DEF IInv, FateOf
  <2>3. QED
    BY <2>1, <2>2
<1>5. QED
  BY <1>2, <1>3, <1>4 DEF IInv

\* A claim starts, is checked, refused, not sent, or the card is put up anew.
LEMMA CheckSteps ==
    ASSUME IInv, Claim \/ CheckStep \/ FailSimulation \/ Reject \/ LookAway
    PROVE  IInv'
<1>1. tx \in ClaimTx /\ sent \in [Hashes -> SentTx \cup {None}]
  BY DEF IInv, TypeInv
<1>2. payer' = payer /\ view' = view /\ (read' = read \/ read' = NoRead)
  BY DEF Claim, CheckStep, SimulateBatch, SimulateRow, FinishAlone, SimulateLeft, FailSimulation,
         Reject, LookAway, Invalidate, chainVars, queryVars
<1>3. /\ tx' \in ClaimTx
      /\ \/ tx' = tx
         \/ tx'.phase \in {"idle", "checking", "wallet", "refused"}
         \/ tx'.phase = "error" /\ tx'.hash = None /\ tx'.retry = FALSE
  <2>1. CASE tx' = tx
    BY <1>1, <2>1
  <2>2. ASSUME NEW p \in {"wallet", "refused"}, tx' = [tx EXCEPT !.phase = p]
        PROVE  tx' \in ClaimTx /\ tx'.phase = p
    BY <1>1, <2>2 DEF ClaimTx, Phases
  <2>3. CASE Failed(None, FALSE)
    BY <1>1, <2>3 DEF ClaimTx, Failed, Phases
  <2>4. CASE tx' = IdleTx
    BY <2>4 DEF IdleTx, ClaimTx, Phases
  <2>5. CASE Claim
    <3>1. Payable \in SUBSET Rows
      BY DEF Payable, PayableRows
    <3>2. tx' = [phase |-> "checking", batch |-> Payable, hash |-> None, paid |-> {}, retry |-> FALSE]
      BY <2>5 DEF Claim, IdleTx
    <3>3. QED
      BY <3>1, <3>2 DEF ClaimTx, Phases
  <2>6. CASE CheckStep \/ FailSimulation \/ Reject \/ LookAway
    <3>1. \/ tx' = tx \/ tx' = [tx EXCEPT !.phase = "wallet"] \/ tx' = [tx EXCEPT !.phase = "refused"]
          \/ Failed(None, FALSE) \/ tx' = IdleTx
      BY <2>6 DEF CheckStep, SimulateBatch, SimulateRow, FinishAlone, SimulateLeft, Refuse,
                  FailSimulation, Reject, LookAway
    <3>2. QED
      BY <2>1, <2>2, <2>3, <2>4, <3>1
  <2>7. QED
    BY <2>5, <2>6
<1>4. /\ sent' \in [Hashes -> SentTx \cup {None}]
      /\ \A h \in Hashes : sent[h] # None => sent'[h] = sent[h]
      /\ \A h \in Hashes : sent'[h] # sent[h] => sent'[h].end = "open"
  <2>1. CASE sent' = sent
    BY <1>1, <2>1
  <2>2. CASE (LookAway \/ Reject) /\ sent' # sent
    <3>1. PICK h \in Hashes : /\ sent[h] = None
                              /\ sent' = [sent EXCEPT ![h] = [batch |-> tx.batch, end |-> "open"]]
      BY <2>2 DEF LookAway, Reject, LeftToWallet
    <3>2. [batch |-> tx.batch, end |-> "open"] \in SentTx
      BY <1>1 DEF SentTx, Ends, ClaimTx
    <3>3. QED
      BY <1>1, <3>1, <3>2
  <2>3. QED
    BY <2>1, <2>2 DEF Claim, CheckStep, SimulateBatch, SimulateRow, FinishAlone, SimulateLeft,
                      FailSimulation
<1>5. TxInv'
  <2>1. \A h : PaidBy(h)' = PaidBy(h)
    BY <1>2 DEF PaidBy
  <2>2. CASE tx' = tx
    <3>1. tx.hash # None /\ sent[tx.hash] # None => sent'[tx.hash] = sent[tx.hash]
      BY <1>1, <1>4 DEF ClaimTx
    <3>2. QED
      BY <2>1, <2>2, <3>1 DEF IInv, TxInv
  <2>3. CASE tx'.phase \in {"idle", "checking", "wallet", "refused"}
    BY <2>3 DEF TxInv
  <2>4. CASE tx'.phase = "error" /\ tx'.hash = None /\ tx'.retry = FALSE
    BY <2>4 DEF TxInv
  <2>5. QED
    BY <1>3, <2>2, <2>3, <2>4
<1>6. QED
  BY <1>2, <1>3, <1>4, <1>5, CardKeeps

\* A claim is sent and followed to its end.
LEMMA FollowSteps ==
    ASSUME IInv, (\E h \in Hashes : Send(h)) \/ Receipt \/ StopWaiting \/ CheckAgain
    PROVE  IInv'
<1>1. tx \in ClaimTx /\ sent \in [Hashes -> SentTx \cup {None}] /\ TxInv
  BY DEF IInv, TypeInv
<1>2. payer' = payer /\ view' = view /\ (read' = read \/ read' = NoRead)
  BY DEF Send, Receipt, StopWaiting, CheckAgain, Invalidate, chainVars, queryVars
<1>3. \A h : PaidBy(h)' = PaidBy(h)
  BY <1>2 DEF PaidBy
<1>4. ASSUME NEW h \in Hashes, Send(h)
      PROVE  IInv'
  <2> DEFINE s == [batch |-> tx.batch, end |-> "open"]
  <2>1. /\ sent[h] = None /\ sent' = [sent EXCEPT ![h] = s]
        /\ tx' = [tx EXCEPT !.phase = "pending", !.hash = h]
    BY <1>4 DEF Send
  <2>2. s \in SentTx /\ s # None
    BY <1>1, NoneAssumption DEF SentTx, Ends, ClaimTx
  <2>3. /\ sent' \in [Hashes -> SentTx \cup {None}] /\ sent'[h] = s
        /\ \A g \in Hashes : sent[g] # None => sent'[g] = sent[g]
        /\ \A g \in Hashes : sent'[g] # sent[g] => sent'[g].end = "open"
    BY <1>1, <2>1, <2>2
  <2>4. tx' \in ClaimTx /\ tx'.phase = "pending" /\ tx'.hash = h /\ tx'.batch = tx.batch
    BY <1>1, <2>1 DEF ClaimTx, Phases
  <2>5. TxInv'
    BY <2>2, <2>3, <2>4, SendersAssumption DEF TxInv
  <2>6. QED
    BY <1>2, <2>3, <2>4, <2>5, CardKeeps
<1>5. ASSUME sent' = sent, tx' \in ClaimTx, TxInv'
      PROVE  IInv'
  BY <1>1, <1>2, <1>5, CardKeeps
<1>6. CASE Receipt
  <2> DEFINE counted == ClaimedIndexes(tx.hash) \cap tx.batch
  <2>1. /\ tx.phase = "pending" /\ tx.hash \in Hashes /\ tx.batch \in SUBSET Rows
        /\ sent[tx.hash] # None /\ sent[tx.hash].batch = tx.batch
        /\ sent[tx.hash].end # "open" /\ sent' = sent
    BY <1>1, <1>6, SendersAssumption DEF Receipt, TxInv, ClaimTx
  <2>2. counted = tx.batch \cap PaidBy(tx.hash) /\ counted \in SUBSET Rows
    BY <2>1 DEF ClaimedIndexes, PaidBy
  <2>3. CASE sent[tx.hash].end = "reverted" \/ counted = {}
    <3>1. tx' = [tx EXCEPT !.phase = "error", !.hash = tx.hash, !.paid = {}, !.retry = FALSE]
      BY <1>6, <2>3 DEF Receipt, Failed
    <3>2. /\ tx' \in ClaimTx /\ tx'.phase = "error" /\ tx'.hash = tx.hash /\ tx'.batch = tx.batch
          /\ tx'.retry = FALSE
      BY <1>1, <3>1 DEF ClaimTx, Phases
    <3>3. tx.batch \cap PaidBy(tx.hash) = {}
      BY <2>1, <2>2, <2>3 DEF IInv, FateOf
    <3>4. TxInv'
      BY <1>3, <2>1, <3>2, <3>3 DEF TxInv
    <3>5. QED
      BY <1>5, <2>1, <3>2, <3>4
  <2>4. CASE ~(sent[tx.hash].end = "reverted" \/ counted = {})
    <3>1. tx' = [tx EXCEPT !.phase = "done", !.paid = counted]
      BY <1>6, <2>4 DEF Receipt
    <3>2. /\ tx' \in ClaimTx /\ tx'.phase = "done" /\ tx'.hash = tx.hash /\ tx'.batch = tx.batch
          /\ tx'.paid = counted
      BY <1>1, <2>2, <3>1 DEF ClaimTx, Phases
    <3>3. TxInv'
      <4> HIDE DEF counted
      <4>1. QED
        BY <1>3, <2>1, <2>2, <2>4, <3>2, SendersAssumption DEF TxInv
    <3>4. QED
      BY <1>5, <2>1, <3>2, <3>3
  <2>5. QED
    BY <2>3, <2>4
<1>7. CASE StopWaiting
  <2>1. tx' = [tx EXCEPT !.phase = "error", !.hash = tx.hash, !.paid = {}, !.retry = TRUE]
    BY <1>7 DEF StopWaiting, Failed
  <2>2. /\ tx' \in ClaimTx /\ tx'.phase = "error" /\ tx'.hash = tx.hash /\ tx'.batch = tx.batch
        /\ tx'.retry = TRUE
    BY <1>1, <2>1 DEF ClaimTx, Phases
  <2>3. sent' = sent /\ tx.phase = "pending"
    BY <1>7 DEF StopWaiting
  <2>4. TxInv'
    BY <1>1, <2>2, <2>3 DEF TxInv
  <2>5. QED
    BY <1>5, <2>2, <2>3, <2>4
<1>8. CASE CheckAgain
  <2>1. tx' = [tx EXCEPT !.phase = "pending", !.retry = FALSE]
    BY <1>8 DEF CheckAgain
  <2>2. tx' \in ClaimTx /\ tx'.phase = "pending" /\ tx'.hash = tx.hash /\ tx'.batch = tx.batch
    BY <1>1, <2>1 DEF ClaimTx, Phases
  <2>3. sent' = sent /\ tx.phase = "error" /\ tx.retry
    BY <1>8 DEF CheckAgain
  <2>4. TxInv'
    BY <1>1, <2>2, <2>3 DEF TxInv
  <2>5. QED
    BY <1>5, <2>2, <2>3, <2>4
<1>9. QED
  BY <1>4, <1>6, <1>7, <1>8

-----------------------------------------------------------------------------

\* A contract nobody was paid by, and a card that was just put up.
LEMMA InitHolds == ClaimsInit => IInv
<1> SUFFICES ASSUME ClaimsInit PROVE IInv
  OBVIOUS
<1>1. TypeInv
  BY DEF ClaimsInit, TypeInv, ReadForm, NoRead, IdleTx, ClaimTx, Phases
<1>2. \A h \in Hashes : FateOf(h)
  BY SendersAssumption DEF ClaimsInit, FateOf, PaidBy
<1>3. ViewInv /\ TxInv
  BY DEF ClaimsInit, ViewInv, NoRead, TxInv, IdleTx
<1>4. QED
  BY <1>1, <1>2, <1>3 DEF IInv

\* No step of the page, the wallet or the chain ends the invariant.
LEMMA StepKeeps == IInv /\ [ClaimsNext]_claimsVars => IInv'
<1> SUFFICES ASSUME IInv, [ClaimsNext]_claimsVars
             PROVE  IInv'
  OBVIOUS
<1>1. CASE ChainStep
  BY <1>1, ChainSteps
<1>2. CASE StartRead \/ ReadStep \/ FailRead
  BY <1>2, ReadSteps
<1>3. CASE Claim \/ CheckStep \/ FailSimulation \/ Reject \/ LookAway
  BY <1>3, CheckSteps
<1>4. CASE (\E h \in Hashes : Send(h)) \/ Receipt \/ StopWaiting \/ CheckAgain
  BY <1>4, FollowSteps
<1>5. CASE UNCHANGED claimsVars
  BY <1>5 DEF claimsVars, chainVars, queryVars, cardVars, IInv, TypeInv, ReadForm, FateOf, PaidBy,
              Claimed, ViewInv, TxInv
<1>6. QED
  BY <1>1, <1>2, <1>3, <1>4, <1>5 DEF ClaimsNext, CardStep

\* Every state of the card and of the contract satisfies the invariant.
THEOREM Safety == ClaimsSpec => []IInv
  BY InitHolds, StepKeeps, PTL DEF ClaimsSpec

\* What the card reports as claimed by a transaction is what it paid of the
\* batch, whatever the wallet, the network and other claimants do (claim.ts
\* awaitClaim, BridgePage.tsx follow).
THEOREM ReportsArePayments == ClaimsSpec => []DoneIsPaid
<1>1. ASSUME IInv
      PROVE  DoneIsPaid
  <2>1. ShownClaimed \subseteq Claimed
    BY <1>1 DEF IInv, ViewInv, ShownClaimed, Opened, RowStatus
  <2>2. ASSUME tx.phase = "done"
        PROVE  /\ ClaimStatus.claimed # {}
               /\ ClaimStatus.claimed = {r \in tx.batch : payer[r] = tx.hash}
               /\ sent[tx.hash].end # "replaced" => ClaimStatus.before \subseteq Claimed
    <3>1. ClaimStatus.claimed = tx.paid /\ ClaimStatus.before = tx.batch \ tx.paid
      BY <2>2 DEF ClaimStatus
    <3>2. /\ tx.batch \in SUBSET Rows /\ tx.hash \in Hashes
          /\ sent[tx.hash] # None /\ sent[tx.hash].batch = tx.batch /\ sent[tx.hash].end # "open"
          /\ tx.paid # {} /\ tx.paid = tx.batch \cap PaidBy(tx.hash)
          /\ sent[tx.hash] \in SentTx
      BY <1>1, <2>2, SendersAssumption DEF IInv, TypeInv, TxInv, ClaimTx
    <3>3. sent[tx.hash].end \in {"included", "repriced", "replaced"}
      BY <1>1, <3>2 DEF IInv, FateOf, SentTx, Ends
    <3>4. sent[tx.hash].end # "replaced" => tx.batch \subseteq Claimed
      BY <1>1, <3>2, <3>3 DEF IInv, FateOf
    <3>5. QED
      BY <3>1, <3>2, <3>4 DEF PaidBy
  <2>3. QED
    BY <2>1, <2>2 DEF DoneIsPaid
<1>2. QED
  BY Safety, <1>1, PTL

\* A claim that is shown as ended has ended, and paid nothing if that is what is
\* said (BridgePage.tsx follow).
THEOREM EndedClaimsHaveEnded == ClaimsSpec => []OutcomeIsFinal
<1>1. ASSUME IInv
      PROVE  OutcomeIsFinal
  <2>1. ClaimStatus.checkAgain <=> tx.phase = "error" /\ tx.retry
    BY DEF ClaimStatus
  <2>2. tx.batch \subseteq Rows
    BY <1>1 DEF IInv, TypeInv, ClaimTx
  <2>3. QED
    BY <1>1, <2>1, <2>2 DEF IInv, TxInv, OutcomeIsFinal, PaidBy
<1>2. QED
  BY Safety, <1>1, PTL

-----------------------------------------------------------------------------
(* What a sort returns (Listing).                                          *)

\* A strict total order of the elements of S.
Orders(before, S) ==
  /\ \A x \in S : <<x, x>> \notin before
  /\ \A x, y, z \in S : <<x, y>> \in before /\ <<y, z>> \in before => <<x, z>> \in before
  /\ \A x, y \in S : x # y => <<x, y>> \in before \/ <<y, x>> \in before

Rank(S, before, x) == Cardinality(Earlier(S, before, x))

\* What comes before has the smaller rank.
LEMMA RankIsStrict ==
  ASSUME NEW S, IsFiniteSet(S), NEW before, Orders(before, S),
         NEW x \in S, NEW y \in S, <<x, y>> \in before
  PROVE  Rank(S, before, x) < Rank(S, before, y)
<1>. DEFINE X == Earlier(S, before, x)
            Y == Earlier(S, before, y)
<1>1. X \in SUBSET Y /\ Y \in SUBSET S
  BY DEF Orders, Earlier
<1>2. x \in Y /\ x \notin X
  BY DEF Orders, Earlier
<1>. HIDE DEF X, Y
<1>3. IsFiniteSet(Y) /\ IsFiniteSet(X)
  BY <1>1, FS_Subset
<1>4. Cardinality(X) <= Cardinality(Y) /\ (Cardinality(Y) = Cardinality(X) => Y = X)
  BY <1>1, <1>3, FS_Subset
<1>5. Cardinality(X) \in Nat /\ Cardinality(Y) \in Nat
  BY <1>3, FS_CardinalityType
<1>6. Cardinality(X) < Cardinality(Y)
  BY <1>2, <1>4, <1>5
<1>. QED  BY <1>6 DEF Rank, X, Y

\* Every element has a rank of its own below the number of elements.
LEMMA RankOf ==
  ASSUME NEW S, IsFiniteSet(S), NEW before, Orders(before, S)
  PROVE  /\ \A x \in S : Rank(S, before, x) \in 0 .. Cardinality(S) - 1
         /\ \A x, y \in S : Rank(S, before, x) = Rank(S, before, y) => x = y
         /\ \A n \in 1 .. Cardinality(S) : \E x \in S : Rank(S, before, x) = n - 1
<1>0. Cardinality(S) \in Nat
  BY FS_CardinalityType
<1>1. ASSUME NEW x \in S
      PROVE  Rank(S, before, x) \in 0 .. Cardinality(S) - 1
  <2>. DEFINE X == Earlier(S, before, x)
  <2>1. X \in SUBSET S /\ x \notin X
    BY DEF Orders, Earlier
  <2>. HIDE DEF X
  <2>2. IsFiniteSet(X) /\ Cardinality(X) <= Cardinality(S)
        /\ (Cardinality(S) = Cardinality(X) => S = X)
    BY <2>1, FS_Subset
  <2>3. Cardinality(X) \in Nat
    BY <2>2, FS_CardinalityType
  <2>4. Cardinality(X) \in 0 .. Cardinality(S) - 1
    BY <1>0, <2>1, <2>2, <2>3
  <2>. QED  BY <2>4 DEF Rank, X
<1>2. ASSUME NEW x \in S, NEW y \in S, Rank(S, before, x) = Rank(S, before, y)
      PROVE  x = y
  <2>1. Rank(S, before, x) \in Nat
    BY <1>0, <1>1
  <2>2. ~(<<x, y>> \in before) /\ ~(<<y, x>> \in before)
    BY <1>2, <2>1, RankIsStrict
  <2>. QED  BY <2>2 DEF Orders
<1>3. \A n \in 1 .. Cardinality(S) : \E x \in S : Rank(S, before, x) = n - 1
  <2>. DEFINE T == 1 .. Cardinality(S)
              f == [x \in S |-> Rank(S, before, x) + 1]
  <2>1. f \in [S -> T]
    BY <1>0, <1>1
  <2>2. \A x, y \in S : f[x] = f[y] => x = y
    <3>1. ASSUME NEW x \in S, NEW y \in S, f[x] = f[y]
          PROVE  x = y
      <4>1. Rank(S, before, x) \in Nat /\ Rank(S, before, y) \in Nat
        BY <1>0, <1>1
      <4>2. Rank(S, before, x) = Rank(S, before, y)
        BY <3>1, <4>1
      <4>. QED  BY <1>2, <4>2
    <3>. QED  BY <3>1
  <2>3. f \in Injection(S, T)
    BY <2>1, <2>2 DEF Injection, IsInjective
  <2>4. IsFiniteSet(T) /\ Cardinality(T) = Cardinality(S)
    BY <1>0, FS_Interval
  <2>. HIDE DEF f, T
  <2>5. f \in Surjection(S, T)
    BY <2>3, <2>4, FS_Injection
  <2>6. \A n \in T : \E x \in S : f[x] = n
    BY <2>5 DEF Surjection
  <2>7. ASSUME NEW n \in T
        PROVE  \E x \in S : Rank(S, before, x) = n - 1
    <3>1. PICK x \in S : f[x] = n
      BY <2>6
    <3>2. Rank(S, before, x) \in Nat
      BY <1>0, <1>1
    <3>. QED  BY <3>1, <3>2 DEF f
  <2>. QED  BY <2>7 DEF T
<1>. QED  BY <1>1, <1>2, <1>3

\* A listing has every element once, each at its rank.
LEMMA ListedOnce ==
  ASSUME NEW S, IsFiniteSet(S), NEW before, Orders(before, S)
  PROVE  /\ Cardinality(S) \in Nat
         /\ Listed(S, before) \in [1 .. Cardinality(S) -> S]
         /\ Listed(S, before) \in Seq(S) /\ Len(Listed(S, before)) = Cardinality(S)
         /\ \A n \in 1 .. Cardinality(S) : Rank(S, before, Listed(S, before)[n]) = n - 1
         /\ \A x \in S : /\ Rank(S, before, x) + 1 \in 1 .. Cardinality(S)
                         /\ Listed(S, before)[Rank(S, before, x) + 1] = x
         /\ \A m, n \in 1 .. Cardinality(S) :
               Listed(S, before)[m] = Listed(S, before)[n] => m = n
<1>. DEFINE listing == Listed(S, before)
<1>0. Cardinality(S) \in Nat
  BY FS_CardinalityType
<1>1. ASSUME NEW n \in 1 .. Cardinality(S)
      PROVE  listing[n] \in S /\ Rank(S, before, listing[n]) = n - 1
  <2>1. \E x \in S : Cardinality(Earlier(S, before, x)) = n - 1
    BY RankOf DEF Rank
  <2>2. listing[n] = CHOOSE x \in S : Cardinality(Earlier(S, before, x)) = n - 1
    BY DEF Listed
  <2>. QED  BY <2>1, <2>2 DEF Rank
<1>2. listing \in [1 .. Cardinality(S) -> S]
  BY <1>1 DEF Listed
<1>3. listing \in Seq(S) /\ Len(listing) = Cardinality(S)
  BY <1>0, <1>2
<1>. HIDE DEF listing
<1>4. ASSUME NEW x \in S
      PROVE  /\ Rank(S, before, x) + 1 \in 1 .. Cardinality(S)
             /\ listing[Rank(S, before, x) + 1] = x
  <2>1. Rank(S, before, x) \in 0 .. Cardinality(S) - 1
    BY RankOf
  <2>2. Rank(S, before, x) + 1 \in 1 .. Cardinality(S)
    BY <1>0, <2>1
  <2>. PICK n : n = Rank(S, before, x) + 1
    OBVIOUS
  <2>3. listing[n] \in S /\ Rank(S, before, listing[n]) = n - 1
    BY <1>1, <2>2
  <2>4. Rank(S, before, listing[n]) = Rank(S, before, x)
    BY <2>1, <2>3
  <2>. QED  BY <2>2, <2>3, <2>4, RankOf
<1>5. ASSUME NEW m \in 1 .. Cardinality(S), NEW n \in 1 .. Cardinality(S), listing[m] = listing[n]
      PROVE  m = n
  <2>1. m - 1 = n - 1
    BY <1>1, <1>5
  <2>. QED  BY <1>0, <2>1
<1>. QED  BY <1>0, <1>1, <1>2, <1>3, <1>4, <1>5 DEF listing

\* The element with a rank is listed there.
LEMMA ListedAt ==
  ASSUME NEW S, IsFiniteSet(S), NEW before, Orders(before, S),
         NEW n \in 1 .. Cardinality(S), NEW x \in S, Rank(S, before, x) = n - 1
  PROVE  Listed(S, before)[n] = x
<1>1. Listed(S, before)[n] \in S /\ Rank(S, before, Listed(S, before)[n]) = n - 1
  BY ListedOnce
<1>. QED  BY <1>1, RankOf

\* Two orders that are one on T.
Agree(order, before, T) == \A x, y \in T : <<x, y>> \in order <=> <<x, y>> \in before

\* What comes before an element of T is in T.
IsFront(T, S, before) == \A x \in T, y \in S : <<y, x>> \in before => y \in T

Keeps(g, S, before, order) == \A x, y \in S : <<g[x], g[y]>> \in order <=> <<x, y>> \in before

IsListedBehind(T, order, S, before) ==
    \A n \in 1 .. Cardinality(T) :
        Listed(T, order)[n] = Listed(S, before)[Cardinality(S \ T) + n]

IsListedAs(g, S, before, T, order) ==
    \A n \in 1 .. Cardinality(S) : Listed(T, order)[n] = g[Listed(S, before)[n]]

\* Those in front are listed as in the whole.
LEMMA ListedFirst ==
  ASSUME NEW S, IsFiniteSet(S), NEW before, Orders(before, S), NEW T \in SUBSET S, NEW order,
         Agree(order, before, T),
         IsFront(T, S, before)
  PROVE  /\ IsFiniteSet(T) /\ Orders(order, T) /\ Cardinality(T) \in 0 .. Cardinality(S)
         /\ \A n \in 1 .. Cardinality(T) : Listed(T, order)[n] = Listed(S, before)[n]
<1>1. IsFiniteSet(T) /\ Cardinality(T) \in 0 .. Cardinality(S) /\ Cardinality(S) \in Nat
  BY FS_Subset, FS_CardinalityType
<1>2. Orders(order, T)
  BY DEF Orders, Agree
<1>3. ASSUME NEW n \in 1 .. Cardinality(T)
      PROVE  Listed(T, order)[n] = Listed(S, before)[n]
  <2>. PICK x : x = Listed(T, order)[n]
    OBVIOUS
  <2>1. x \in T /\ Rank(T, order, x) = n - 1
    BY <1>1, <1>2, ListedOnce
  <2>2. Earlier(S, before, x) = Earlier(T, order, x)
    BY <2>1 DEF Earlier, Agree, IsFront
  <2>3. n \in 1 .. Cardinality(S) /\ x \in S /\ Rank(S, before, x) = n - 1
    BY <1>1, <2>1, <2>2 DEF Rank
  <2>. QED  BY <2>3, ListedAt
<1>. QED  BY <1>1, <1>2, <1>3

\* Those left when the first are taken away are listed as in the whole, behind
\* these.
LEMMA ListedLast ==
  ASSUME NEW S, IsFiniteSet(S), NEW before, Orders(before, S), NEW T \in SUBSET S, NEW order,
         Agree(order, before, T),
         IsFront(S \ T, S, before)
  PROVE  /\ IsFiniteSet(T) /\ Orders(order, T)
         /\ Cardinality(T) \in Nat /\ Cardinality(S \ T) \in Nat
         /\ Cardinality(S) = Cardinality(S \ T) + Cardinality(T)
         /\ IsListedBehind(T, order, S, before)
<1>1. IsFiniteSet(T) /\ IsFiniteSet(S \ T)
  BY FS_Subset
<1>2. Cardinality(T) \in Nat /\ Cardinality(S \ T) \in Nat
  BY <1>1, FS_CardinalityType
<1>3. ASSUME NEW A, NEW B, IsFiniteSet(A), IsFiniteSet(B), A \cap B = {}
      PROVE  Cardinality(A \cup B) = Cardinality(A) + Cardinality(B)
  <2>1. Cardinality(A \cup B) = Cardinality(A) + Cardinality(B) - Cardinality(A \cap B)
    BY <1>3, FS_Union
  <2>2. Cardinality(A \cap B) = 0
    BY <1>3, FS_EmptySet
  <2>3. Cardinality(A) \in Nat /\ Cardinality(B) \in Nat
    BY <1>3, FS_CardinalityType
  <2>. QED  BY <2>1, <2>2, <2>3
<1>4. Cardinality(S) = Cardinality(S \ T) + Cardinality(T)
  <2>1. S = (S \ T) \cup T /\ (S \ T) \cap T = {}
    OBVIOUS
  <2>. QED  BY <1>1, <1>3, <2>1
<1>0. \A x \in T, y \in S \ T : <<y, x>> \in before
  BY DEF Orders, IsFront
<1>5. Orders(order, T)
  BY DEF Orders, Agree
<1>6. ASSUME NEW n \in 1 .. Cardinality(T)
      PROVE  Listed(T, order)[n] = Listed(S, before)[Cardinality(S \ T) + n]
  <2>. PICK x : x = Listed(T, order)[n]
    OBVIOUS
  <2>1. x \in T /\ Rank(T, order, x) = n - 1
    BY <1>1, <1>5, ListedOnce
  <2>2. Earlier(S, before, x) = (S \ T) \cup Earlier(T, order, x)
    BY <1>0, <2>1 DEF Earlier, Agree
  <2>3. IsFiniteSet(Earlier(T, order, x)) /\ (S \ T) \cap Earlier(T, order, x) = {}
    BY <1>1, FS_Subset DEF Earlier
  <2>4. Rank(S, before, x) = Cardinality(S \ T) + (n - 1)
    BY <1>1, <1>3, <2>1, <2>2, <2>3 DEF Rank
  <2>. PICK k : k = Cardinality(S \ T) + n
    OBVIOUS
  <2>5. k \in 1 .. Cardinality(S) /\ x \in S /\ Rank(S, before, x) = k - 1
    BY <1>2, <1>4, <2>1, <2>4
  <2>. QED  BY <2>5, ListedAt
<1>. QED  BY <1>1, <1>2, <1>4, <1>5, <1>6 DEF IsListedBehind

\* What keeps the order keeps the list.
LEMMA ListedImage ==
  ASSUME NEW S, IsFiniteSet(S), NEW before, Orders(before, S), NEW T, NEW order,
         NEW g \in Bijection(S, T),
         Keeps(g, S, before, order)
  PROVE  /\ IsFiniteSet(T) /\ Orders(order, T) /\ Cardinality(T) = Cardinality(S)
         /\ IsListedAs(g, S, before, T, order)
<1>1. /\ g \in [S -> T] /\ \A y \in T : \E x \in S : g[x] = y
      /\ \A x, y \in S : g[x] = g[y] => x = y
  BY DEF Bijection, Injection, Surjection, IsInjective
<1>2. IsFiniteSet(T) /\ Cardinality(T) = Cardinality(S)
  BY FS_Bijection DEF ExistsBijection
<1>3. Orders(order, T)
  <2>1. \A x \in T : <<x, x>> \notin order
    BY <1>1 DEF Orders, Keeps
  <2>2. \A x, y, z \in T : <<x, y>> \in order /\ <<y, z>> \in order => <<x, z>> \in order
    <3>1. ASSUME NEW x \in T, NEW y \in T, NEW z \in T, <<x, y>> \in order, <<y, z>> \in order
          PROVE  <<x, z>> \in order
      <4>1. PICK u \in S, v \in S, w \in S : g[u] = x /\ g[v] = y /\ g[w] = z
        BY <1>1
      <4>2. <<u, v>> \in before /\ <<v, w>> \in before
        BY <3>1, <4>1 DEF Keeps
      <4>3. <<u, w>> \in before
        BY <4>2 DEF Orders
      <4>. QED  BY <4>1, <4>3 DEF Keeps
    <3>. QED  BY <3>1
  <2>3. \A x, y \in T : x # y => <<x, y>> \in order \/ <<y, x>> \in order
    <3>1. ASSUME NEW x \in T, NEW y \in T, x # y
          PROVE  <<x, y>> \in order \/ <<y, x>> \in order
      <4>1. PICK u \in S, v \in S : g[u] = x /\ g[v] = y
        BY <1>1
      <4>2. <<u, v>> \in before \/ <<v, u>> \in before
        BY <3>1, <4>1 DEF Orders
      <4>. QED  BY <4>1, <4>2 DEF Keeps
    <3>. QED  BY <3>1
  <2>. QED  BY <2>1, <2>2, <2>3 DEF Orders
<1>4. ASSUME NEW n \in 1 .. Cardinality(S)
      PROVE  Listed(T, order)[n] = g[Listed(S, before)[n]]
  <2>. PICK x : x = Listed(S, before)[n]
    OBVIOUS
  <2>1. x \in S /\ Rank(S, before, x) = n - 1
    BY ListedOnce
  <2>. DEFINE E == Earlier(S, before, x)
              F == Earlier(T, order, g[x])
              h == [y \in E |-> g[y]]
  <2>2. E \in SUBSET S /\ IsFiniteSet(E)
    BY FS_Subset DEF Earlier
  <2>3. h \in Bijection(E, F)
    <3>1. h \in [E -> F]
      BY <1>1, <2>1 DEF Earlier, Keeps
    <3>2. \A y \in F : \E z \in E : h[z] = y
      BY <1>1, <2>1 DEF Earlier, Keeps
    <3>3. \A y, z \in E : h[y] = h[z] => y = z
      BY <1>1, <2>2
    <3>. HIDE DEF h, E, F
    <3>. QED  BY <3>1, <3>2, <3>3 DEF Bijection, Injection, Surjection, IsInjective
  <2>. HIDE DEF h, E, F
  <2>4. Cardinality(F) = Cardinality(E)
    BY <2>2, <2>3, FS_Bijection DEF ExistsBijection
  <2>5. g[x] \in T /\ Rank(T, order, g[x]) = n - 1
    BY <1>1, <2>1, <2>4 DEF Rank, E, F
  <2>. QED  BY <1>2, <1>3, <2>5, ListedAt
<1>. QED  BY <1>2, <1>3, <1>4 DEF IsListedAs

\* The first n of a set.
FirstIn(S, before, n) == {x \in S : Rank(S, before, x) < n}

\* There are n of them if the set has as many, and all that come before one of
\* them are among them.
LEMMA FirstAreFirst ==
  ASSUME NEW S, IsFiniteSet(S), NEW before, Orders(before, S), NEW n \in Nat
  PROVE  /\ FirstIn(S, before, n) \in SUBSET S /\ IsFiniteSet(FirstIn(S, before, n))
         /\ Cardinality(FirstIn(S, before, n))
              = IF Cardinality(S) < n THEN Cardinality(S) ELSE n
         /\ IsFront(FirstIn(S, before, n), S, before)
<1>. DEFINE T == FirstIn(S, before, n)
            m == IF Cardinality(S) < n THEN Cardinality(S) ELSE n
            f == [k \in 1 .. m |-> Listed(S, before)[k]]
<1>0. Cardinality(S) \in Nat /\ m \in Nat /\ m <= Cardinality(S) /\ m <= n
  BY FS_CardinalityType
<1>1. T \in SUBSET S /\ IsFiniteSet(T)
  BY FS_Subset DEF FirstIn
<1>2. f \in Bijection(1 .. m, T)
  <2>1. ASSUME NEW k \in 1 .. m
        PROVE  k \in 1 .. Cardinality(S) /\ f[k] \in T
    <3>1. k \in 1 .. Cardinality(S)
      BY <1>0
    <3>2. Listed(S, before)[k] \in S /\ Rank(S, before, Listed(S, before)[k]) = k - 1
      BY <3>1, ListedOnce
    <3>3. k - 1 < n
      BY <1>0
    <3>. QED  BY <3>1, <3>2, <3>3 DEF FirstIn
  <2>2. ASSUME NEW x \in T
        PROVE  \E k \in 1 .. m : f[k] = x
    <3>. PICK k : k = Rank(S, before, x) + 1
      OBVIOUS
    <3>1. x \in S /\ Rank(S, before, x) < n
      BY DEF FirstIn
    <3>2. Listed(S, before)[Rank(S, before, x) + 1] = x
      BY <3>1, ListedOnce
    <3>3. Rank(S, before, x) \in 0 .. Cardinality(S) - 1
      BY <3>1, RankOf
    <3>4. k \in 1 .. m
      BY <1>0, <3>1, <3>3
    <3>. QED  BY <3>2, <3>4
  <2>3. \A j, k \in 1 .. m : f[j] = f[k] => j = k
    BY <2>1, ListedOnce
  <2>4. f \in [1 .. m -> T]
    BY <2>1
  <2>. HIDE DEF f, T, m
  <2>. QED  BY <2>2, <2>3, <2>4 DEF Bijection, Injection, Surjection, IsInjective
<1>3. Cardinality(T) = m
  <2>. HIDE DEF f, T, m
  <2>1. IsFiniteSet(1 .. m) /\ Cardinality(1 .. m) = m
    <3>1. 1 \in Int /\ m \in Int /\ ~(1 > m /\ m # 0)
      BY <1>0
    <3>2. IsFiniteSet(1 .. m) /\ Cardinality(1 .. m) = IF 1 > m THEN 0 ELSE m - 1 + 1
      BY <3>1, FS_Interval
    <3>. QED  BY <1>0, <3>2
  <2>. QED  BY <1>2, <2>1, FS_Bijection DEF ExistsBijection
<1>4. IsFront(T, S, before)
  <2>1. ASSUME NEW x \in T, NEW y \in S, <<y, x>> \in before
        PROVE  y \in T
    <3>1. x \in S /\ Rank(S, before, x) < n
      BY DEF FirstIn
    <3>2. Rank(S, before, y) < Rank(S, before, x)
      BY <2>1, <3>1, RankIsStrict
    <3>3. Rank(S, before, x) \in Nat /\ Rank(S, before, y) \in Nat
      BY <1>0, <3>1, RankOf
    <3>. QED  BY <3>1, <3>2, <3>3 DEF FirstIn
  <2>. QED  BY <2>1 DEF IsFront
<1>. QED  BY <1>1, <1>3, <1>4

\* The first n of a union are the first n of the first n of its parts.
LEMMA FirstOfParts ==
  ASSUME NEW A, NEW B, IsFiniteSet(A), IsFiniteSet(B), NEW before, Orders(before, A \cup B),
         NEW n \in Nat
  PROVE  FirstIn(FirstIn(A, before, n) \cup FirstIn(B, before, n), before, n)
           = FirstIn(A \cup B, before, n)
<1>. DEFINE S == A \cup B
            M == FirstIn(A, before, n) \cup FirstIn(B, before, n)
            T == FirstIn(S, before, n)
<1>1. IsFiniteSet(S) /\ M \in SUBSET S /\ IsFiniteSet(M)
  BY FS_Union, FS_Subset DEF FirstIn
<1>2. ASSUME NEW P \in SUBSET S, NEW x \in S
      PROVE  /\ Rank(P, before, x) <= Rank(S, before, x)
             /\ Rank(P, before, x) \in Nat /\ Rank(S, before, x) \in Nat
  <2>1. Earlier(P, before, x) \in SUBSET Earlier(S, before, x) /\ Earlier(S, before, x) \in SUBSET S
    BY DEF Earlier
  <2>. HIDE DEF S
  <2>. QED  BY <1>1, <2>1, FS_Subset, FS_CardinalityType DEF Rank
<1>3. T \in SUBSET M
  <2>1. ASSUME NEW x \in T
        PROVE  x \in M
    <3>1. x \in S /\ Rank(S, before, x) < n
      BY DEF FirstIn
    <3>2. /\ Rank(A, before, x) <= Rank(S, before, x) /\ Rank(B, before, x) <= Rank(S, before, x)
          /\ Rank(A, before, x) \in Nat /\ Rank(B, before, x) \in Nat /\ Rank(S, before, x) \in Nat
      BY <1>2, <3>1
    <3>. QED  BY <3>1, <3>2 DEF FirstIn
  <2>. QED  BY <2>1
<1>4. /\ T \in SUBSET S /\ IsFiniteSet(T)
      /\ Cardinality(T) = IF Cardinality(S) < n THEN Cardinality(S) ELSE n
      /\ IsFront(T, S, before)
  <2>1. Orders(before, S)
    OBVIOUS
  <2>. HIDE DEF S
  <2>. QED  BY <1>1, <2>1, FirstAreFirst
<1>5. ASSUME NEW x \in T
      PROVE  x \in FirstIn(M, before, n)
  <2>1. x \in S /\ x \in M /\ Rank(S, before, x) < n
    BY <1>3 DEF FirstIn
  <2>2. Rank(M, before, x) <= Rank(S, before, x) /\ Rank(M, before, x) \in Nat /\ Rank(S, before, x) \in Nat
    BY <1>1, <1>2, <2>1
  <2>. HIDE DEF M
  <2>. QED  BY <2>1, <2>2 DEF FirstIn
<1>6. ASSUME NEW x \in FirstIn(M, before, n), x \notin T
      PROVE  FALSE
  <2>1. x \in M /\ x \in S /\ Rank(M, before, x) < n
    BY <1>1 DEF FirstIn
  <2>2. ~(Rank(S, before, x) < n) /\ Rank(S, before, x) \in 0 .. Cardinality(S) - 1
    BY <1>1, <1>6, <2>1, RankOf DEF FirstIn
  <2>3. Cardinality(T) = n
    BY <1>1, <1>4, <2>2, FS_CardinalityType
  <2>4. T \in SUBSET Earlier(M, before, x)
    <3>1. ASSUME NEW y \in T
          PROVE  <<y, x>> \in before
      <4>1. y \in S /\ y # x
        BY <1>4, <1>6
      <4>2. <<x, y>> \notin before
        BY <1>4, <1>6, <2>1 DEF IsFront
      <4>. QED  BY <2>1, <4>1, <4>2 DEF Orders
    <3>. QED  BY <1>3, <3>1 DEF Earlier
  <2>5. IsFiniteSet(Earlier(M, before, x))
    <3>1. Earlier(M, before, x) \in SUBSET M
      BY DEF Earlier
    <3>. QED  BY <1>1, <3>1, FS_Subset
  <2>6. Cardinality(T) <= Cardinality(Earlier(M, before, x)) /\ Cardinality(Earlier(M, before, x)) \in Nat
    BY <2>4, <2>5, FS_Subset, FS_CardinalityType
  <2>. QED  BY <2>1, <2>3, <2>6 DEF Rank
<1>. QED  BY <1>5, <1>6

-----------------------------------------------------------------------------
(* What the page shows of an address.                                      *)

\* A row of the address, of a contract and an asset of the contract list.
IsRowOf(d, a, r) ==
    /\ r \in List /\ r.account = a
    /\ DOMAIN r = {"label", "index", "account", "token", "amount"}
    /\ \E c \in ContractsOf(d) : c.label = r.label /\ \E asset \in c.assets : asset.token = r.token

\* Rows of the address, each once.
AreRowsOf(d, a, rows) ==
    /\ IsArray(rows)
    /\ \A n \in DOMAIN rows : IsRowOf(d, a, rows[n])
    /\ \A m, n \in DOMAIN rows : rows[m] = rows[n] => m = n

LookupInv ==
    /\ list # None => list \in Published /\ CheckDeployments(list)
    /\ {url, lookup, autoFilled, account} \subseteq Accounts \cup {None}
    /\ loaded = [a \in Accounts |-> loaded[a]]
    /\ \A a \in Accounts :
          loaded[a] \notin {None, Broken} => list # None /\ AreRowsOf(list, a, loaded[a])
    /\ steps \in 0 .. MaxSteps

\* An array's places are the numbers to its length.
LEMMA ArrayPlaces ==
    ASSUME NEW s, IsArray(s)
    PROVE  Len(s) \in Nat /\ DOMAIN s = 1 .. Len(s) /\ IsFiniteSet(DOMAIN s)
<1>1. Len(s) \in Nat /\ DOMAIN s = 1 .. Len(s)
  BY DEF IsArray
<1>2. IsFiniteSet(1 .. Len(s))
  BY <1>1, FS_Interval
<1>. QED  BY <1>1, <1>2

\* The numbers of a finite set in order are an array of it, each once.
LEMMA AscendingOnce ==
    ASSUME NEW S \in SUBSET Nat, IsFiniteSet(S)
    PROVE  /\ DOMAIN Ascending(S) = 1 .. Cardinality(S)
           /\ \A n \in DOMAIN Ascending(S) : Ascending(S)[n] \in S
           /\ \A m, n \in DOMAIN Ascending(S) : Ascending(S)[m] = Ascending(S)[n] => m = n
           /\ \A x \in S : \E n \in DOMAIN Ascending(S) : Ascending(S)[n] = x
<1>. DEFINE before == {p \in S \X S : p[1] < p[2]}
<1>1. \A x, y \in S : <<x, y>> \in before <=> x < y
  OBVIOUS
<1>. HIDE DEF before
<1>2. Orders(before, S)
  BY <1>1 DEF Orders
<1>3. Ascending(S) = Listed(S, before)
  BY DEF Ascending, before
<1>4. /\ Listed(S, before) \in [1 .. Cardinality(S) -> S]
      /\ \A m, n \in 1 .. Cardinality(S) :
            Listed(S, before)[m] = Listed(S, before)[n] => m = n
      /\ \A x \in S : /\ Rank(S, before, x) + 1 \in 1 .. Cardinality(S)
                      /\ Listed(S, before)[Rank(S, before, x) + 1] = x
  BY <1>2, ListedOnce
<1>. QED  BY <1>3, <1>4

\* The contract list's order of rows that are told apart by contract and index.
LEMMA BeforeOrders ==
    ASSUME NEW d, IsArray(d.contracts),
           \A i, j \in DOMAIN d.contracts :
              d.contracts[i].label = d.contracts[j].label => i = j,
           NEW S,
           \A r \in S : r.index \in Nat /\ \E c \in ContractsOf(d) : c.label = r.label,
           \A r, s \in S : r.label = s.label /\ r.index = s.index => r = s
    PROVE  Orders({p \in S \X S : Before(d, p[1], p[2])}, S)
<1>. DEFINE before == {p \in S \X S : Before(d, p[1], p[2])}
            place(label) == CHOOSE i \in DOMAIN d.contracts : d.contracts[i].label = label
<1>1. \A r \in S : /\ place(r.label) \in Nat
                   /\ d.contracts[place(r.label)].label = r.label
  BY ArrayPlaces DEF ContractsOf
<1>2. \A r, s \in S :
         <<r, s>> \in before
           <=> IF r.label = s.label THEN r.index < s.index ELSE place(r.label) < place(s.label)
  BY DEF Before
<1>. HIDE DEF before, place
<1>3. \A r, s \in S : place(r.label) = place(s.label) => r.label = s.label
  BY <1>1
<1>4. \A x \in S : <<x, x>> \notin before
  BY <1>2
<1>5. ASSUME NEW x \in S, NEW y \in S, NEW z \in S, <<x, y>> \in before, <<y, z>> \in before
      PROVE  <<x, z>> \in before
  <2>1. CASE x.label = y.label /\ y.label = z.label
    BY <1>2, <1>5, <2>1
  <2>2. CASE x.label = y.label /\ y.label # z.label
    BY <1>2, <1>5, <2>2
  <2>3. CASE x.label # y.label /\ y.label = z.label
    BY <1>2, <1>5, <2>3
  <2>4. CASE x.label # y.label /\ y.label # z.label
    <3>1. place(x.label) < place(y.label) /\ place(y.label) < place(z.label)
      BY <1>2, <1>5, <2>4
    <3>2. place(x.label) < place(z.label) /\ place(x.label) # place(z.label)
      BY <1>1, <3>1
    <3>3. x.label # z.label
      BY <3>2
    <3>. QED  BY <1>2, <3>2, <3>3
  <2>. QED  BY <2>1, <2>2, <2>3, <2>4
<1>6. ASSUME NEW x \in S, NEW y \in S, x # y
      PROVE  <<x, y>> \in before \/ <<y, x>> \in before
  <2>1. CASE x.label = y.label
    <3>1. x.index # y.index
      BY <1>6, <2>1
    <3>. QED  BY <1>2, <2>1, <3>1
  <2>2. CASE x.label # y.label
    <3>1. place(x.label) # place(y.label)
      BY <1>3, <2>2
    <3>2. place(x.label) < place(y.label) \/ place(y.label) < place(x.label)
      BY <1>1, <3>1
    <3>. QED  BY <1>2, <2>2, <3>2
  <2>. QED  BY <2>1, <2>2
<1>. QED  BY <1>4, <1>5, <1>6 DEF Orders, before

\* What the page keeps of a proof file are rows of the address, each once.
LEMMA ReadRows ==
    ASSUME NEW d \in Published, CheckDeployments(d), NEW file \in Files, NEW a \in Accounts,
           RowsFromShard(d, file, a) # Broken
    PROVE  AreRowsOf(d, a, RowsFromShard(d, file, a))
<1>. DEFINE rows == file.rows[a]
            S == {Fields(rows[i], a) : i \in DOMAIN rows}
            before == {p \in S \X S : Before(d, p[1], p[2])}
<1>1. IsArray(rows) /\ IsArray(d.contracts)
  BY BridgeLookupAssumption
<1>2. /\ \A i \in DOMAIN rows : RowAccepted(d, rows[i], a)
      /\ \A i, j \in DOMAIN rows :
            rows[i].label = rows[j].label /\ rows[i].index = rows[j].index => i = j
      /\ RowsFromShard(d, file, a) = Listed(S, before)
  BY DEF RowsFromShard
<1>3. IsFiniteSet(S)
  <2>1. IsFiniteSet(DOMAIN rows)
    BY <1>1, ArrayPlaces
  <2>. DEFINE f == [i \in DOMAIN rows |-> Fields(rows[i], a)]
  <2>2. f \in Surjection(DOMAIN rows, S)
    BY DEF Surjection
  <2>. HIDE DEF f, S
  <2>. QED  BY <2>1, <2>2, FS_Surjection
<1>4. \A r \in S : IsRowOf(d, a, r) /\ r.index \in Nat
  <2>1. ASSUME NEW i \in DOMAIN rows
        PROVE  IsRowOf(d, a, Fields(rows[i], a)) /\ Fields(rows[i], a).index \in Nat
    <3>1. Fields(rows[i], a) \in List /\ rows[i].index \in Nat
      BY <1>2 DEF RowAccepted, VerifyProof
    <3>2. \E c \in ContractsOf(d) :
             c.label = rows[i].label /\ \E asset \in c.assets : asset.token = rows[i].token
      BY <1>2 DEF RowAccepted
    <3>. QED  BY <3>1, <3>2 DEF IsRowOf, Fields
  <2>. QED  BY <2>1
<1>5. \A r, s \in S : r.label = s.label /\ r.index = s.index => r = s
  <2>1. ASSUME NEW i \in DOMAIN rows, NEW j \in DOMAIN rows,
               Fields(rows[i], a).label = Fields(rows[j], a).label,
               Fields(rows[i], a).index = Fields(rows[j], a).index
        PROVE  i = j
    <3>1. rows[i].label = rows[j].label /\ rows[i].index = rows[j].index
      BY <2>1 DEF Fields
    <3>. QED  BY <1>2, <3>1
  <2>. QED  BY <2>1
<1>6. \A i, j \in DOMAIN d.contracts :
         d.contracts[i].label = d.contracts[j].label => i = j
  BY DEF CheckDeployments
<1>. HIDE DEF S, rows
<1>7. Orders(before, S)
  BY <1>1, <1>4, <1>5, <1>6, BeforeOrders DEF IsRowOf
<1>. HIDE DEF before
<1>8. /\ Listed(S, before) \in Seq(S) /\ DOMAIN Listed(S, before) = 1 .. Cardinality(S)
      /\ \A n \in 1 .. Cardinality(S) : Listed(S, before)[n] \in S
      /\ \A m, n \in 1 .. Cardinality(S) :
            Listed(S, before)[m] = Listed(S, before)[n] => m = n
  BY <1>3, <1>7, ListedOnce
<1>9. IsArray(Listed(S, before))
  <2>. DEFINE s == Listed(S, before)
              T == {s[i] : i \in DOMAIN s}
  <2>1. \A i \in DOMAIN s : s[i] \in T
    OBVIOUS
  <2>3. s \in Seq(S)
    BY <1>8
  <2>. HIDE DEF s, T
  <2>2. s \in Seq(T)
    BY <2>1, <2>3
  <2>. QED  BY <2>2 DEF IsArray, s, T
<1>. QED  BY <1>2, <1>4, <1>8, <1>9 DEF AreRowsOf

\* A page that has read nothing shows nothing.
LEMMA LookupInitHolds == LookupInit => LookupInv
  BY BridgeLookupAssumption DEF LookupInit, LookupInv

\* No answer of either endpoint, and no choice of an address, ends the invariant.
LEMMA LookupNextKeeps == LookupInv /\ [LookupNext]_lookupVars => LookupInv'
<1>. SUFFICES ASSUME LookupInv, [LookupNext]_lookupVars
              PROVE  LookupInv'
  OBVIOUS
<1>. USE DEF LookupInv
<1>1. ASSUME NEW a \in Accounts, Enter(a)
      PROVE  LookupInv'
  BY <1>1, BridgeLookupAssumption DEF Enter, Counted, Show
<1>2. ASSUME NEW a \in Accounts, Select(a)
      PROVE  LookupInv'
  BY <1>2, BridgeLookupAssumption DEF Select, Counted, Show
<1>3. ASSUME NEW a \in Accounts \cup {None}, AccountChanges(a)
      PROVE  LookupInv'
  BY <1>3, BridgeLookupAssumption DEF AccountChanges, Counted, Show, Fills
<1>4. ASSUME NEW file \in Files, Load(file), list # None
      PROVE  LookupInv'
  <2>1. /\ lookup \in Accounts
        /\ loaded' = [loaded EXCEPT ![lookup] = RowsFromShard(list, file, lookup)]
        /\ UNCHANGED <<list, url, lookup, autoFilled, account, steps>>
    BY <1>4 DEF Load
  <2>2. RowsFromShard(list, file, lookup) # Broken
          => AreRowsOf(list, lookup, RowsFromShard(list, file, lookup))
    BY <1>4, <2>1, ReadRows
  <2>3. ASSUME NEW b \in Accounts, loaded'[b] \notin {None, Broken}
        PROVE  AreRowsOf(list, b, loaded'[b])
    <3>1. CASE b = lookup
      <4>1. loaded'[b] = RowsFromShard(list, file, lookup)
        BY <2>1, <3>1
      <4>. QED  BY <2>2, <2>3, <3>1, <4>1
    <3>2. CASE b # lookup
      <4>1. loaded'[b] = loaded[b]
        BY <2>1, <3>2
      <4>. QED  BY <2>3, <4>1
    <3>. QED  BY <3>1, <3>2
  <2>4. loaded' = [b \in Accounts |-> loaded'[b]]
    BY <2>1
  <2>. QED  BY <1>4, <2>1, <2>3, <2>4
<1>5. ASSUME FailLoad
      PROVE  LookupInv'
  <2>1. /\ lookup \in Accounts
        /\ loaded' = [loaded EXCEPT ![lookup] = Broken]
        /\ UNCHANGED <<list, url, lookup, autoFilled, account, steps>>
    BY <1>5 DEF FailLoad
  <2>2. \A b \in Accounts : loaded'[b] \notin {None, Broken} => loaded'[b] = loaded[b]
    BY <2>1
  <2>3. loaded' = [b \in Accounts |-> loaded'[b]]
    BY <2>1
  <2>. QED  BY <2>1, <2>2, <2>3
<1>6. CASE UNCHANGED lookupVars
  BY <1>6 DEF lookupVars
<1>. QED  BY <1>1, <1>2, <1>3, <1>4, <1>5, <1>6 DEF LookupNext

\* Every row on a card is of the card's contract, and every row is on one.
LEMMA CardsHoldRows ==
    ASSUME NEW d \in Published, CheckDeployments(d), NEW a, NEW rows, AreRowsOf(d, a, rows)
    PROVE  LET cards == RowsByContract(d, rows)
           IN  /\ \A i \in DOMAIN cards : \A j \in DOMAIN cards[i] :
                     /\ \E n \in DOMAIN rows : cards[i][j] = rows[n]
                     /\ \A k \in DOMAIN cards[i] : cards[i][j] = cards[i][k] => j = k
               /\ \A n \in DOMAIN rows : \E i \in DOMAIN cards : \E j \in DOMAIN cards[i] :
                     cards[i][j] = rows[n]
<1>. DEFINE places(c) == {n \in DOMAIN rows : rows[n].label = c.label}
            card(c) == [k \in DOMAIN Ascending(places(c)) |-> rows[Ascending(places(c))[k]]]
            cards == RowsByContract(d, rows)
<1>1. /\ DOMAIN rows = 1 .. Len(rows) /\ Len(rows) \in Nat /\ IsFiniteSet(DOMAIN rows)
  BY ArrayPlaces DEF AreRowsOf
<1>2. DOMAIN cards = DOMAIN d.contracts /\ \A i \in DOMAIN cards : cards[i] = card(d.contracts[i])
  BY DEF RowsByContract
<1>3. ASSUME NEW c
      PROVE  /\ DOMAIN card(c) = DOMAIN Ascending(places(c))
             /\ \A j \in DOMAIN card(c) :
                   /\ Ascending(places(c))[j] \in places(c)
                   /\ card(c)[j] = rows[Ascending(places(c))[j]]
             /\ \A j, k \in DOMAIN card(c) :
                   Ascending(places(c))[j] = Ascending(places(c))[k] => j = k
             /\ \A n \in places(c) : \E j \in DOMAIN card(c) : Ascending(places(c))[j] = n
  <2>. PICK P : P = places(c)
    OBVIOUS
  <2>1. P \in SUBSET Nat /\ IsFiniteSet(P)
    BY <1>1, FS_Subset
  <2>2. /\ \A n \in DOMAIN Ascending(P) : Ascending(P)[n] \in P
        /\ \A m, n \in DOMAIN Ascending(P) : Ascending(P)[m] = Ascending(P)[n] => m = n
        /\ \A x \in P : \E n \in DOMAIN Ascending(P) : Ascending(P)[n] = x
    BY <2>1, AscendingOnce
  <2>3. card(c) = [k \in DOMAIN Ascending(P) |-> rows[Ascending(P)[k]]]
    OBVIOUS
  <2>. HIDE DEF places, card
  <2>. QED  BY <2>2, <2>3
<1>4. ASSUME NEW i \in DOMAIN cards, NEW j \in DOMAIN cards[i]
      PROVE  /\ \E n \in DOMAIN rows : cards[i][j] = rows[n]
             /\ \A k \in DOMAIN cards[i] : cards[i][j] = cards[i][k] => j = k
  <2>. PICK c : c = d.contracts[i]
    OBVIOUS
  <2>1. cards[i] = card(c)
    BY <1>2
  <2>2. places(c) \in SUBSET DOMAIN rows
    OBVIOUS
  <2>. HIDE DEF cards, card, places
  <2>3. /\ Ascending(places(c))[j] \in DOMAIN rows
        /\ cards[i][j] = rows[Ascending(places(c))[j]]
    BY <1>3, <1>4, <2>1, <2>2
  <2>4. ASSUME NEW k \in DOMAIN cards[i], cards[i][j] = cards[i][k]
        PROVE  j = k
    <3>1. /\ Ascending(places(c))[k] \in DOMAIN rows
          /\ cards[i][k] = rows[Ascending(places(c))[k]]
      BY <1>3, <2>1, <2>2
    <3>2. Ascending(places(c))[j] = Ascending(places(c))[k]
      BY <2>3, <2>4, <3>1 DEF AreRowsOf
    <3>. QED  BY <1>3, <1>4, <2>1, <3>2
  <2>. QED  BY <2>3, <2>4
<1>5. ASSUME NEW n \in DOMAIN rows
      PROVE  \E i \in DOMAIN cards : \E j \in DOMAIN cards[i] : cards[i][j] = rows[n]
  <2>1. PICK i \in DOMAIN d.contracts : d.contracts[i].label = rows[n].label
    BY DEF AreRowsOf, IsRowOf, ContractsOf
  <2>. PICK c : c = d.contracts[i]
    OBVIOUS
  <2>2. i \in DOMAIN cards /\ cards[i] = card(c)
    BY <1>2
  <2>3. n \in places(c)
    BY <2>1
  <2>. HIDE DEF cards, card, places
  <2>4. PICK j \in DOMAIN card(c) : Ascending(places(c))[j] = n
    BY <1>3, <2>3
  <2>5. card(c)[j] = rows[n]
    BY <1>3, <2>4
  <2>. QED  BY <2>2, <2>5
<1>. QED  BY <1>4, <1>5

\* The balances a row's amount is dated by are of blocks in the contract list.
LEMMA RowsAreDated ==
    ASSUME NEW d, CheckDeployments(d), NEW a, NEW r, IsRowOf(d, a, r)
    PROVE  \A source \in Sources(d, r) :
              source[2] \in Moments /\ HasBlock(d, source[1], source[2])
<1>. DEFINE assets == UNION {c.assets : c \in {c \in ContractsOf(d) : c.label = r.label}}
            named == AssetOfRow(d, r)
<1>1. \E asset \in assets : asset.token = r.token
  BY DEF IsRowOf
<1>2. named \in assets
  BY <1>1 DEF AssetOfRow
<1>3. PICK c \in ContractsOf(d) : named \in c.assets
  BY <1>2
<1>4. PICK i \in DOMAIN d.contracts : c = d.contracts[i]
  BY DEF ContractsOf
<1>5. PoolsKnown(d, named)
  BY <1>3, <1>4 DEF CheckDeployments
<1>. HIDE DEF named
<1>6. \A p \in named.pools : p.snapshot \in Moments /\ HasBlock(d, p.holders, p.snapshot)
  BY <1>5 DEF PoolsKnown
<1>7. Sources(d, r) = {<<p.holders, p.snapshot>> : p \in named.pools}
  BY DEF Sources, named
<1>. QED  BY <1>6, <1>7

\* The one moment of a basis is one of its sources'.
LEMMA MomentIsOfSource ==
    ASSUME NEW basis, MomentOf(basis) # None
    PROVE  \E source \in basis : MomentOf(basis) = source[2]
<1>. DEFINE labels == {source[2] : source \in basis}
<1>1. Cardinality(labels) = 1 /\ MomentOf(basis) = CHOOSE label \in labels : TRUE
  BY DEF MomentOf
<1>2. labels # {}
  BY <1>1, FS_EmptySet
<1>3. MomentOf(basis) \in labels
  BY <1>1, <1>2
<1>. QED  BY <1>3

\* Rows, cards, dates and pools that the invariant says are of the list are of it.
LEMMA InvShownIsListed == LookupInv => ShownIsListed
<1>. SUFFICES ASSUME LookupInv, list # None
              PROVE  ShownIsListed
  BY DEF ShownIsListed, OnlyListedRows, DatedByListedBlocks
<1>1. list \in Published /\ CheckDeployments(list)
  BY DEF LookupInv
<1>2. AreRowsOf(list, lookup, ShownRows)
  <2>1. CASE lookup = None \/ loaded[lookup] \in {None, Broken}
    <3>1. ShownRows = <<>>
      BY <2>1 DEF ShownRows
    <3>2. IsArray(<<>>)
      BY DEF IsArray
    <3>. QED  BY <3>1, <3>2 DEF AreRowsOf
  <2>2. CASE ~(lookup = None \/ loaded[lookup] \in {None, Broken})
    BY <2>2 DEF LookupInv, ShownRows
  <2>. QED  BY <2>1, <2>2
<1>. DEFINE rows == ShownRows
<1>3. OnlyListedRows
  <2>. DEFINE cards == RowsByContract(list, rows)
  <2>1. /\ \A i \in DOMAIN cards : \A j \in DOMAIN cards[i] :
              /\ \E n \in DOMAIN rows : cards[i][j] = rows[n]
              /\ \A k \in DOMAIN cards[i] : cards[i][j] = cards[i][k] => j = k
        /\ \A n \in DOMAIN rows : \E i \in DOMAIN cards : \E j \in DOMAIN cards[i] :
              cards[i][j] = rows[n]
    BY <1>1, <1>2, CardsHoldRows
  <2>2. \A n \in DOMAIN rows : rows[n] \in List /\ rows[n].account = lookup
    BY <1>2 DEF AreRowsOf, IsRowOf
  <2>3. OnlyListedRows <=>
          /\ \A i \in DOMAIN cards : \A j \in DOMAIN cards[i] :
                /\ cards[i][j] \in List
                /\ cards[i][j].account = lookup
                /\ \A k \in DOMAIN cards[i] : cards[i][j] = cards[i][k] => j = k
          /\ \A n \in DOMAIN rows : \E i \in DOMAIN cards : \E j \in DOMAIN cards[i] :
                cards[i][j] = rows[n]
    BY DEF OnlyListedRows
  <2>. HIDE DEF rows, cards
  <2>4. \A i \in DOMAIN cards : \A j \in DOMAIN cards[i] :
           cards[i][j] \in List /\ cards[i][j].account = lookup
    BY <2>1, <2>2
  <2>. QED  BY <2>1, <2>3, <2>4
<1>4. DatedByListedBlocks
  <2>1. \A moment \in Moments : HasBlock(list, Harmony, moment)
    BY <1>1 DEF CheckDeployments
  <2>2. ASSUME NEW basis \in SnapshotBases(list, rows)
        PROVE  /\ \A source \in basis : HasBlock(list, source[1], source[2])
               /\ MomentOf(basis) # None => HasBlock(list, Harmony, MomentOf(basis))
    <3>1. PICK n \in DOMAIN rows : basis = Sources(list, rows[n])
      BY DEF SnapshotBases
    <3>2. IsRowOf(list, lookup, rows[n])
      BY <1>2 DEF AreRowsOf
    <3>3. \A source \in basis : source[2] \in Moments /\ HasBlock(list, source[1], source[2])
      BY <1>1, <3>1, <3>2, RowsAreDated
    <3>4. MomentOf(basis) # None => MomentOf(basis) \in Moments
      BY <3>3, MomentIsOfSource
    <3>. QED  BY <2>1, <3>3, <3>4
  <2>3. ASSUME NEW p \in PoolsOf(list)
        PROVE  /\ p.holders = Harmony \/ p.holders \in RemoteHoldersAt(list, p.snapshot)
               /\ CountedOn(list, p.holders) \subseteq BlockCells(list, p.holders)
    <3>1. \A q \in PoolsOf(list) : q.snapshot \in Moments /\ HasBlock(list, q.holders, q.snapshot)
      BY <1>1 DEF PoolsOf, ContractsOf, CheckDeployments, PoolsKnown
    <3>2. p.holders \in DOMAIN list.blocks
      BY <3>1 DEF HasBlock
    <3>3. p.holders = Harmony \/ p.holders \in RemoteHoldersAt(list, p.snapshot)
      BY <3>2 DEF RemoteHoldersAt
    <3>4. CountedOn(list, p.holders) \subseteq BlockCells(list, p.holders)
      BY <3>1 DEF CountedOn, BlockCells
    <3>. QED  BY <3>3, <3>4
  <2>. QED  BY <2>1, <2>2, <2>3 DEF DatedByListedBlocks
<1>. QED  BY <1>3, <1>4 DEF ShownIsListed

\* What the page holds is of the contract list it adopted and of the account it acts
\* for (bridge.ts loadDeployments, readProofs).
THEOREM LookupInvariance == LookupSpec => []LookupInv
  BY LookupInitHolds, LookupNextKeeps, PTL DEF LookupSpec

\* All a card shows of an address is in the lists, whatever contract list the
\* page is built with and whatever proof files are served: its rows, each once,
\* in the claim list, its dates in the contract list (proofs.ts rowsFromShard,
\* snapshots.ts).
THEOREM ShownRowsAreListed == LookupSpec => []ShownIsListed
  BY LookupInvariance, InvShownIsListed, PTL

\* The lookup's state has its types, whatever the endpoints answer and the wallet
\* shares.
THEOREM LookupTyped == LookupSpec => []AddressTypeOK
  <1>1. LookupInv => AddressTypeOK
    BY BridgeLookupAssumption DEF LookupInv, AddressTypeOK, AreRowsOf, IsRowOf
  <1>. QED  BY <1>1, LookupInvariance, PTL

-----------------------------------------------------------------------------
(* The pages of an address's history.                                      *)

\* The records of the address in the load a page is of.
WholeOf(p, a) == Descending(Involving(loads[p.load], a))

\* A page is the piece of them after the first `from`, and offers older ones
\* while there are some.
IsPieceAfter(p, from, whole) ==
    /\ from <= Len(whole)
    /\ p.records = [m \in 1 .. IF from + PageSize < Len(whole) THEN PageSize
                               ELSE Len(whole) - from |-> whole[from + m]]
    /\ p.next = IF from + PageSize < Len(whole) THEN whole[from + PageSize] ELSE None

IsPiece(p, i, a) == IsPieceAfter(p, (i - 1) * PageSize, WholeOf(p, a))

\* Every page but the last offers older records.
Chained(s) ==
    /\ \A i \in DOMAIN s : s[i].load \in DOMAIN loads
    /\ \A i \in DOMAIN s : i < Len(s) => s[i].next # None

\* As long as the pages are of one load, each is the piece of its place.
ArePieces(s, a) ==
    \A i \in DOMAIN s : (\A j \in 1 .. i : s[j].load = s[1].load) => IsPiece(s[i], i, a)

PagesOf(s, q) ==
    /\ s \in Seq(Page)
    /\ Chained(s)
    /\ q.type = "address" => ArePieces(s, q.value)

\* What is read goes on from the pages there are, or from the first one.
ReadOf(f, pages) ==
    /\ f.kind # "all" => f.got = <<>>
    /\ f.kind = "next" => pages # <<>> /\ pages[Len(pages)].next # None
    /\ f.got # <<>> => f.got[Len(f.got)].next # None

ResultInv(r, q) ==
    /\ PagesOf(r.pages, q)
    /\ r.fetch # None => PagesOf(r.fetch.got, q) /\ ReadOf(r.fetch, r.pages)

Results == [pages : Seq(Page), failed : BOOLEAN, fetch : Fetch \cup {None}]

HistoryInv ==
    /\ loads \in Seq(Archives) /\ loads # <<>>
    /\ inputError \in BOOLEAN
    /\ query \in [Queries -> Results]
    /\ \A q \in Queries : ResultInv(query[q], q)
    /\ visits \in 0 .. MaxVisits

\* The order of numbers from the highest down.
LEMMA DownOrders ==
    ASSUME NEW S \in SUBSET Nat
    PROVE  /\ Orders({p \in S \X S : p[1] > p[2]}, S)
           /\ \A x, y \in S : <<x, y>> \in {p \in S \X S : p[1] > p[2]} <=> x > y
<1>. DEFINE before == {p \in S \X S : p[1] > p[2]}
<1>1. \A x, y \in S : <<x, y>> \in before <=> x > y
  OBVIOUS
<1>. HIDE DEF before
<1>2. Orders(before, S)
  BY <1>1 DEF Orders
<1>. QED  BY <1>1, <1>2 DEF before

\* An archive's records are at finitely many places, an address's among them.
LEMMA ArchivePlaces ==
    ASSUME NEW archive \in Archives, NEW a
    PROVE  /\ DOMAIN archive \in SUBSET Nat /\ IsFiniteSet(DOMAIN archive)
           /\ Involving(archive, a) \in SUBSET Nat /\ IsFiniteSet(Involving(archive, a))
<1>1. Len(archive) \in Nat /\ DOMAIN archive = 1 .. Len(archive)
  BY HistoryAssumption
<1>2. IsFiniteSet(1 .. Len(archive)) /\ 1 .. Len(archive) \in SUBSET Nat
  BY <1>1, FS_Interval
<1>3. Involving(archive, a) \in SUBSET DOMAIN archive
  BY DEF Involving
<1>. QED  BY <1>1, <1>2, <1>3, FS_Subset

\* The records of the address below the cursor.
Older(archive, a, before) == {i \in Involving(archive, a) : before = None \/ i < before}

\* The highest numbers, at most `limit`.
FirstListed(S, limit) ==
    [n \in 1 .. IF Cardinality(S) < limit THEN Cardinality(S) ELSE limit |-> Descending(S)[n]]

\* What a lookup by address returns: the newest records of the address below
\* the cursor, as many as asked for, each once.
LEMMA ArchiveByAddress ==
    ASSUME NEW archive \in Archives, NEW a, NEW before, NEW limit \in Nat
    PROVE  GetArchiveByAddress(archive, a, before, limit)
             = FirstListed(Older(archive, a, before), limit)
<1>. DEFINE ids == {i \in DOMAIN archive : before = None \/ i < before}
            sentBy == {[id |-> i, side |-> "from"] : i \in {i \in ids : archive[i].from = a}}
            receivedBy == {[id |-> i, side |-> "to"] :
                             i \in {i \in ids : archive[i].to = a /\ archive[i].from # a}}
            I == Older(archive, a, before)
            R == sentBy \cup receivedBy
            newer == {p \in R \X R : p[1].id > p[2].id}
            down == {p \in I \X I : p[1] > p[2]}
            h == [i \in I |-> [id |-> i, side |-> IF archive[i].from = a THEN "from" ELSE "to"]]
            size == IF Cardinality(I) < limit THEN Cardinality(I) ELSE limit
<1>1. I \in SUBSET Nat /\ IsFiniteSet(I) /\ Cardinality(I) \in Nat /\ size \in Nat
  <2>1. I \in SUBSET Involving(archive, a)
    BY DEF Older
  <2>. HIDE DEF I
  <2>. QED  BY <2>1, ArchivePlaces, FS_Subset, FS_CardinalityType
<1>2. h \in Bijection(I, R)
  <2>1. \A i \in I : i \in ids /\ (archive[i].from = a \/ archive[i].to = a)
    BY DEF Involving, Older
  <2>2. ASSUME NEW i \in I
        PROVE  h[i] \in R /\ h[i].id = i
    BY <2>1
  <2>3. \A r \in R : \E i \in I : h[i] = r
    BY DEF Involving, Older
  <2>. HIDE DEF R, I, h
  <2>4. h \in [I -> R]
    BY <2>2 DEF h
  <2>. QED  BY <2>2, <2>3, <2>4 DEF Bijection, Injection, Surjection, IsInjective
<1>3. \A x, y \in R : <<x, y>> \in newer <=> x.id > y.id
  OBVIOUS
<1>4. Orders(down, I) /\ \A x, y \in I : <<x, y>> \in down <=> x > y
  BY <1>1, DownOrders
<1>5. \A x \in I : h[x] \in R /\ h[x].id = x
  BY <1>2 DEF Bijection, Injection
<1>6. Descending(I) = Listed(I, down)
  BY DEF Descending
<1>. HIDE DEF h, R, I, newer, down, sentBy, receivedBy, size
<1>7. /\ IsFiniteSet(R) /\ Orders(newer, R) /\ Cardinality(R) = Cardinality(I)
      /\ IsListedAs(h, I, down, R, newer)
  <2>1. Keeps(h, I, down, newer)
    BY <1>3, <1>4, <1>5 DEF Keeps
  <2>2. IsFiniteSet(I) /\ Orders(down, I)
    BY <1>1, <1>4
  <2>. QED  BY <1>2, <2>1, <2>2, ListedImage
<1>8. \A S \in SUBSET R : Newest(S, limit) = FirstIn(S, newer, limit)
  <2>1. ASSUME NEW S \in SUBSET R, NEW r \in S
        PROVE  {s \in S : s.id > r.id} = Earlier(S, newer, r)
    BY <1>3 DEF Earlier
  <2>. QED  BY <2>1 DEF Newest, FirstIn, Rank
<1>. DEFINE F == FirstIn(R, newer, limit)
            order == {p \in F \X F : p[1].id > p[2].id}
<1>9. Newest(Newest(sentBy, limit) \cup Newest(receivedBy, limit), limit) = F
  <2>1. sentBy \in SUBSET R /\ receivedBy \in SUBSET R /\ R = sentBy \cup receivedBy
    BY DEF R
  <2>2. IsFiniteSet(sentBy) /\ IsFiniteSet(receivedBy)
    BY <1>7, <2>1, FS_Subset
  <2>3. FirstIn(sentBy, newer, limit) \cup FirstIn(receivedBy, newer, limit) \in SUBSET R
    BY <2>1 DEF FirstIn
  <2>4. FirstIn(FirstIn(sentBy, newer, limit) \cup FirstIn(receivedBy, newer, limit), newer, limit)
          = FirstIn(sentBy \cup receivedBy, newer, limit)
    <3>1. Orders(newer, sentBy \cup receivedBy)
      BY <1>7, <2>1
    <3>. QED  BY <2>2, <3>1, FirstOfParts
  <2>. QED  BY <1>8, <2>1, <2>3, <2>4
<1>10. /\ F \in SUBSET R /\ Cardinality(F) = size
       /\ IsFront(F, R, newer)
  BY <1>7, FirstAreFirst DEF size
<1>11. GetArchiveByAddress(archive, a, before, limit)
         = [n \in DOMAIN Listed(F, order) |-> Listed(F, order)[n].id]
  <2>1. NewestFirst(F) = Listed(F, order)
    BY DEF NewestFirst
  <2>. HIDE DEF F, order
  <2>2. GetArchiveByAddress(archive, a, before, limit)
          = LET newest == NewestFirst(Newest(Newest(sentBy, limit) \cup Newest(receivedBy, limit), limit))
            IN  [n \in DOMAIN newest |-> newest[n].id]
    BY DEF GetArchiveByAddress, sentBy, receivedBy
  <2>. QED  BY <1>9, <2>1, <2>2
<1>12. /\ DOMAIN Listed(F, order) = 1 .. size
       /\ \A n \in 1 .. size : Listed(F, order)[n] = Listed(R, newer)[n]
  <2>1. Agree(order, newer, F)
    BY <1>3, <1>10 DEF Agree
  <2>. HIDE DEF F, order
  <2>2. \A n \in 1 .. size : Listed(F, order)[n] = Listed(R, newer)[n]
    BY <1>7, <1>10, <2>1, ListedFirst
  <2>3. DOMAIN Listed(F, order) = 1 .. size
    BY <1>10 DEF Listed
  <2>. QED  BY <2>2, <2>3
<1>. HIDE DEF F, order
<1>13. ASSUME NEW n \in 1 .. size
       PROVE  Listed(F, order)[n].id = Descending(I)[n]
  <2>1. n \in 1 .. Cardinality(I)
    BY <1>1 DEF size
  <2>2. Listed(I, down)[n] \in I
    BY <1>1, <1>4, <2>1, ListedOnce
  <2>. QED  BY <1>5, <1>6, <1>7, <1>12, <2>1, <2>2 DEF IsListedAs
<1>14. GetArchiveByAddress(archive, a, before, limit) = [n \in 1 .. size |-> Descending(I)[n]]
  BY <1>11, <1>12, <1>13
<1>. QED  BY <1>14 DEF I, size, FirstListed

\* Numbers in order from the highest down.
LEMMA DescendingOnce ==
    ASSUME NEW S \in SUBSET Nat, IsFiniteSet(S)
    PROVE  /\ Cardinality(S) \in Nat
           /\ Descending(S) \in [1 .. Cardinality(S) -> S]
           /\ Descending(S) \in Seq(S) /\ Len(Descending(S)) = Cardinality(S)
<1>. DEFINE before == {p \in S \X S : p[1] > p[2]}
<1>1. Orders(before, S) /\ Descending(S) = Listed(S, before)
  BY DownOrders DEF Descending
<1>. HIDE DEF before
<1>. QED  BY <1>1, ListedOnce

Under(S, x) == {i \in S : i < x}

\* The first n of s are those of t after the k-th.
FollowsPlace(s, t, k, n) == \A m \in 1 .. n : s[m] = t[k + m]

\* Those below the k-th highest are the ones listed behind it.
LEMMA DescendingBelow ==
    ASSUME NEW S \in SUBSET Nat, IsFiniteSet(S), NEW k \in 1 .. Cardinality(S)
    PROVE  /\ Cardinality(Under(S, Descending(S)[k])) = Cardinality(S) - k
           /\ FollowsPlace(Descending(Under(S, Descending(S)[k])), Descending(S), k,
                           Cardinality(S) - k)
<1>. DEFINE T == Under(S, Descending(S)[k])
            before == {p \in S \X S : p[1] > p[2]}
            order == {p \in T \X T : p[1] > p[2]}
<1>0. Cardinality(S) \in Nat
  BY FS_CardinalityType
<1>1. /\ Orders(before, S) /\ Descending(S) = Listed(S, before)
      /\ \A x, y \in S : <<x, y>> \in before <=> x > y
  BY DownOrders DEF Descending
<1>2. Descending(T) = Listed(T, order)
  BY DEF Descending
<1>. PICK x : x = Descending(S)[k]
  OBVIOUS
<1>. HIDE DEF before
<1>3. x \in S /\ Rank(S, before, x) = k - 1
  <2>1. Listed(S, before)[k] \in S /\ Rank(S, before, Listed(S, before)[k]) = k - 1
    BY <1>1, ListedOnce
  <2>. QED  BY <1>1, <2>1
<1>4. S \ T = FirstIn(S, before, k)
  <2>1. ASSUME NEW y \in S
        PROVE  ~(y < x) <=> Rank(S, before, y) < k
    <3>1. Rank(S, before, y) \in Nat
      BY <1>0, <1>1, RankOf
    <3>2. CASE y < x
      <4>1. Rank(S, before, x) < Rank(S, before, y)
        BY <1>1, <1>3, <3>2, RankIsStrict
      <4>. QED  BY <1>0, <1>3, <3>1, <3>2, <4>1
    <3>3. CASE y = x
      BY <1>0, <1>3, <3>3
    <3>4. CASE y > x
      <4>1. Rank(S, before, y) < Rank(S, before, x)
        BY <1>1, <1>3, <3>4, RankIsStrict
      <4>. QED  BY <1>0, <1>3, <3>1, <3>4, <4>1
    <3>. QED  BY <1>3, <3>2, <3>3, <3>4
  <2>. QED  BY <2>1 DEF FirstIn, Under
<1>5. Cardinality(S \ T) = k
  <2>1. Cardinality(FirstIn(S, before, k)) = IF Cardinality(S) < k THEN Cardinality(S) ELSE k
    BY <1>1, FirstAreFirst
  <2>. QED  BY <1>0, <1>4, <2>1
<1>6. /\ Cardinality(T) \in Nat /\ Cardinality(S) = Cardinality(S \ T) + Cardinality(T)
      /\ IsListedBehind(T, order, S, before)
  <2>1. T \in SUBSET S /\ \A y, z \in T : <<y, z>> \in order <=> y > z
    BY DEF Under
  <2>2. \A y \in T, z \in S \ T : y < x /\ ~(z < x)
    BY DEF Under
  <2>. HIDE DEF T, order
  <2>3. Agree(order, before, T)
    BY <1>1, <2>1 DEF Agree
  <2>4. IsFront(S \ T, S, before)
    BY <1>1, <1>3, <2>1, <2>2 DEF IsFront
  <2>5. T \in SUBSET S /\ Orders(before, S)
    BY <1>1, <2>1
  <2>. QED  BY <2>3, <2>4, <2>5, ListedLast
<1>. HIDE DEF T, order
<1>7. Cardinality(T) = Cardinality(S) - k
      /\ \A n \in 1 .. Cardinality(S) - k : Descending(T)[n] = Descending(S)[k + n]
  BY <1>0, <1>1, <1>2, <1>5, <1>6 DEF IsListedBehind
<1>. QED  BY <1>7 DEF T, FollowsPlace

\* An address's page after n others of its load is the next piece of the whole.
LEMMA PageIsPiece ==
    ASSUME NEW archive \in Archives, NEW a, NEW from \in Nat, NEW before,
           from = 0 => before = None,
           from # 0 => /\ from \in 1 .. Cardinality(Involving(archive, a))
                       /\ before = Descending(Involving(archive, a))[from]
    PROVE  IsPieceAfter(AddressPage(archive, a, before), from, Descending(Involving(archive, a)))
<1>. DEFINE W == Involving(archive, a)
            I == Older(archive, a, before)
            whole == Descending(W)
            rows == GetArchiveByAddress(archive, a, before, PageSize + 1)
            left == Cardinality(W) - from
<1>1. W \in SUBSET Nat /\ IsFiniteSet(W) /\ PageSize \in Nat /\ PageSize # 0 /\ None \notin Nat
  BY ArchivePlaces, HistoryAssumption
<1>2. Cardinality(W) \in Nat /\ whole \in [1 .. Cardinality(W) -> W] /\ Len(whole) = Cardinality(W)
  BY <1>1, DescendingOnce
<1>3. /\ left \in Nat /\ Cardinality(I) = left
      /\ \A m \in 1 .. left : Descending(I)[m] = whole[from + m]
  <2>1. CASE from = 0
    <3>1. I = W
      BY <2>1 DEF Older
    <3>. QED  BY <1>2, <2>1, <3>1
  <2>2. CASE from # 0
    <3>1. from \in 1 .. Cardinality(W) /\ before = whole[from] /\ before \in Nat /\ before # None
      BY <1>1, <1>2, <2>2
    <3>2. I = Under(W, Descending(W)[from])
      BY <3>1 DEF Older, Under
    <3>. HIDE DEF W, I
    <3>3. /\ Cardinality(I) = Cardinality(W) - from
          /\ FollowsPlace(Descending(I), Descending(W), from, Cardinality(W) - from)
      BY <1>1, <3>1, <3>2, DescendingBelow
    <3>. QED  BY <1>2, <3>1, <3>3 DEF FollowsPlace
  <2>. QED  BY <2>1, <2>2
<1>4. rows = FirstListed(I, PageSize + 1)
  <2>1. PageSize + 1 \in Nat
    BY <1>1
  <2>. QED  BY <2>1, ArchiveByAddress
<1>. HIDE DEF W, I, whole, rows
<1>5. rows = [m \in 1 .. IF left < PageSize + 1 THEN left ELSE PageSize + 1 |-> whole[from + m]]
  BY <1>1, <1>3, <1>4 DEF FirstListed
<1>6. Len(rows) = IF left < PageSize + 1 THEN left ELSE PageSize + 1
  BY <1>1, <1>3, <1>5
<1>7. AddressPage(archive, a, before)
        = IF Len(rows) > PageSize
          THEN [records |-> SubSeq(rows, 1, PageSize), next |-> rows[PageSize]]
          ELSE [records |-> rows, next |-> None]
  BY DEF AddressPage, rows
<1>8. from + PageSize < Cardinality(W) <=> Len(rows) > PageSize
  BY <1>1, <1>2, <1>3, <1>6
<1>9. CASE Len(rows) > PageSize
  <2>1. Len(rows) = PageSize + 1 /\ ~(left < PageSize + 1)
    BY <1>1, <1>3, <1>6, <1>9
  <2>2. SubSeq(rows, 1, PageSize) = [m \in 1 .. PageSize |-> whole[from + m]]
    <3>1. SubSeq(rows, 1, PageSize) = [m \in 1 .. PageSize |-> rows[m]]
      BY <1>1
    <3>2. \A m \in 1 .. PageSize : rows[m] = whole[from + m]
      BY <1>1, <1>5, <2>1
    <3>. QED  BY <3>1, <3>2
  <2>3. rows[PageSize] = whole[from + PageSize]
    BY <1>1, <1>5, <2>1
  <2>. QED  BY <1>2, <1>3, <1>7, <1>8, <1>9, <2>2, <2>3 DEF whole, W, left, IsPieceAfter
<1>10. CASE ~(Len(rows) > PageSize)
  <2>1. left < PageSize + 1 /\ rows = [m \in 1 .. left |-> whole[from + m]]
    BY <1>1, <1>3, <1>5, <1>6, <1>10
  <2>. QED  BY <1>2, <1>3, <1>7, <1>8, <1>10, <2>1 DEF whole, W, left, IsPieceAfter
<1>. QED  BY <1>9, <1>10

\* Whatever is asked for, a page is made of numbers of records.
LEMMA ServeTyped ==
    ASSUME loads \in Seq(Archives), loads # <<>>, NEW q \in Queries, NEW before,
           Serve(q, before) # None
    PROVE  Serve(q, before) \in Page /\ Serve(q, before).load = Len(loads)
<1>1. Public \in Archives /\ Len(loads) \in Nat \ {0} /\ Len(loads) \in DOMAIN loads
  BY DEF Public
<1>. PICK archive \in Archives : archive = Public
  BY <1>1
<1>2. PageSize \in Nat /\ PageSize # 0 /\ MaxTxRecords \in Nat
  BY HistoryAssumption
<1>3. GetArchiveByAddress(archive, q.value, before, PageSize + 1) \in Seq(Nat)
  <2>. DEFINE I == Older(archive, q.value, before)
              size == IF Cardinality(I) < PageSize + 1 THEN Cardinality(I) ELSE PageSize + 1
  <2>1. PageSize + 1 \in Nat
    BY <1>2
  <2>2. I \in SUBSET Nat /\ IsFiniteSet(I)
    <3>1. I \in SUBSET Involving(archive, q.value)
      BY DEF Older
    <3>. HIDE DEF I
    <3>. QED  BY <3>1, ArchivePlaces, FS_Subset
  <2>3. GetArchiveByAddress(archive, q.value, before, PageSize + 1)
          = [n \in 1 .. size |-> Descending(I)[n]]
    <3>1. GetArchiveByAddress(archive, q.value, before, PageSize + 1)
            = FirstListed(I, PageSize + 1)
      BY <2>1, ArchiveByAddress
    <3>. QED  BY <3>1 DEF FirstListed
  <2>. HIDE DEF I
  <2>4. Cardinality(I) \in Nat /\ Descending(I) \in [1 .. Cardinality(I) -> I]
    BY <2>2, DescendingOnce
  <2>5. size \in Nat /\ size <= Cardinality(I)
    BY <2>1, <2>4
  <2>. HIDE DEF size
  <2>6. \A n \in 1 .. size : n \in 1 .. Cardinality(I)
    BY <2>4, <2>5
  <2>7. \A n \in 1 .. size : Descending(I)[n] \in Nat
    BY <2>2, <2>4, <2>6
  <2>. QED  BY <2>3, <2>5, <2>7
<1>4. GetArchiveByHash(archive, q.value) \in Seq(Nat)
  <2>. DEFINE ids == {i \in DOMAIN archive :
                        archive[i].hash = q.value \/ archive[i].eth = q.value}
              listing == Ascending(ids)
  <2>1. ids \in SUBSET Nat /\ IsFiniteSet(ids)
    <3>1. ids \in SUBSET DOMAIN archive
      OBVIOUS
    <3>. HIDE DEF ids
    <3>. QED  BY <3>1, ArchivePlaces, FS_Subset
  <2>2. GetArchiveByHash(archive, q.value)
          = SubSeq(listing, 1, IF Len(listing) < MaxTxRecords THEN Len(listing) ELSE MaxTxRecords)
    BY DEF GetArchiveByHash
  <2>. HIDE DEF ids
  <2>3. listing \in Seq(ids)
    <3>. DEFINE up == {p \in ids \X ids : p[1] < p[2]}
    <3>1. \A x, y \in ids : <<x, y>> \in up <=> x < y
      OBVIOUS
    <3>2. listing = Listed(ids, up)
      BY DEF Ascending
    <3>. HIDE DEF up, listing
    <3>3. Orders(up, ids)
      BY <2>1, <3>1 DEF Orders
    <3>. QED  BY <2>1, <3>2, <3>3, ListedOnce
  <2>. HIDE DEF listing
  <2>4. listing \in Seq(Nat) /\ Len(listing) \in Nat
    <3>1. \A i \in DOMAIN listing : listing[i] \in Nat
      <4>1. listing \in [1 .. Len(listing) -> ids]
        BY <2>3
      <4>. QED  BY <2>1, <4>1
    <3>. QED  BY <2>3, <3>1
  <2>. QED  BY <1>2, <2>2, <2>4
<1>5. AddressPage(archive, q.value, before).records \in Seq(Nat)
      /\ AddressPage(archive, q.value, before).next \in Nat \cup {None}
  <2>. DEFINE rows == GetArchiveByAddress(archive, q.value, before, PageSize + 1)
  <2>1. rows \in Seq(Nat)
    BY <1>3
  <2>2. AddressPage(archive, q.value, before)
          = IF Len(rows) > PageSize
            THEN [records |-> SubSeq(rows, 1, PageSize), next |-> rows[PageSize]]
            ELSE [records |-> rows, next |-> None]
    BY DEF AddressPage
  <2>. HIDE DEF rows
  <2>3. Len(rows) > PageSize => SubSeq(rows, 1, PageSize) \in Seq(Nat) /\ rows[PageSize] \in Nat
    BY <1>2, <2>1
  <2>. QED  BY <2>1, <2>2, <2>3
<1>. DEFINE p == IF q.type = "address" THEN AddressPage(Public, q.value, before)
                 ELSE [records |-> GetArchiveByHash(Public, q.value), next |-> None]
<1>6. Serve(q, before) = [records |-> p.records, next |-> p.next, load |-> Len(loads)]
  BY DEF Serve
<1>7. p.records \in Seq(Nat) /\ p.next \in Nat \cup {None}
  BY <1>4, <1>5
<1>. HIDE DEF p
<1>. QED  BY <1>1, <1>6, <1>7 DEF Page

CursorAfter(s) == IF s = <<>> THEN None ELSE s[Len(s)].next

\* A page behind pages of which the last one offered older records.
LEMMA ChainedBehind ==
    ASSUME NEW s, NEW t, NEW n \in Nat, Len(s) = n, DOMAIN s = 1 .. n, Chained(s),
           n # 0 => s[n].next # None,
           Len(t) = n + 1, DOMAIN t = 1 .. n + 1, \A i \in 1 .. n : t[i] = s[i],
           t[n + 1].load \in DOMAIN loads
    PROVE  Chained(t)
<1>1. ASSUME NEW i \in 1 .. n + 1
      PROVE  t[i].load \in DOMAIN loads /\ (i < n + 1 => t[i].next # None)
  <2>1. CASE i = n + 1
    BY <2>1
  <2>2. CASE i # n + 1
    <3>1. i \in 1 .. n /\ (i < n \/ i = n) /\ n # 0
      BY <2>2
    <3>2. s[i].load \in DOMAIN loads /\ (i < n => s[i].next # None)
      BY <3>1 DEF Chained
    <3>. QED  BY <3>1, <3>2
  <2>. QED  BY <2>1, <2>2
<1>. QED  BY <1>1 DEF Chained

\* What arrives continues what was read.
LEMMA PageContinues ==
    ASSUME loads \in Seq(Archives), loads # <<>>, NEW q \in Queries, NEW s, PagesOf(s, q),
           s # <<>> => s[Len(s)].next # None, Serve(q, CursorAfter(s)) # None
    PROVE  PagesOf(Append(s, Serve(q, CursorAfter(s))), q)
<1>. DEFINE before == CursorAfter(s)
            p == Serve(q, before)
            t == Append(s, p)
            n == Len(s)
<1>1. p \in Page /\ p.load = Len(loads) /\ Len(loads) \in DOMAIN loads
  BY ServeTyped
<1>2. s \in Seq(Page) /\ n \in Nat /\ DOMAIN s = 1 .. n /\ Chained(s)
  BY DEF PagesOf
<1>. HIDE DEF p, before
<1>3. /\ t \in Seq(Page) /\ Len(t) = n + 1 /\ DOMAIN t = 1 .. n + 1
      /\ t[n + 1] = p /\ \A i \in 1 .. n : t[i] = s[i]
  BY <1>1, <1>2
<1>. HIDE DEF t, n
<1>4. Chained(t)
  <2>1. Len(s) = n /\ (n # 0 => s[n].next # None)
    BY <1>2 DEF n
  <2>. QED  BY <1>1, <1>2, <1>3, <2>1, ChainedBehind
<1>5. ASSUME q.type = "address"
      PROVE  ArePieces(t, q.value)
  <2>. DEFINE a == q.value
              archive == loads[Len(loads)]
              W == Involving(archive, a)
              whole == Descending(W)
              from == n * PageSize
  <2>1. archive \in Archives /\ PageSize \in Nat /\ PageSize # 0 /\ from \in Nat /\ None \notin Nat
    BY <1>2, HistoryAssumption
  <2>2. Len(whole) = Cardinality(W) /\ Cardinality(W) \in Nat
    BY <2>1, ArchivePlaces, DescendingOnce
  <2>3. ASSUME \A j \in 1 .. n + 1 : t[j].load = t[1].load
        PROVE  IsPiece(p, n + 1, a)
    <3>1. \A j \in 1 .. n : s[j].load = Len(loads) /\ s[j].load = s[1].load
      BY <1>1, <1>2, <1>3, <2>3
    <3>2. /\ from = 0 => before = None
          /\ from # 0 => from \in 1 .. Cardinality(W) /\ before = whole[from]
      <4>1. CASE n = 0
        BY <1>2, <2>1, <4>1 DEF before, CursorAfter, n
      <4>2. CASE n # 0
        <5>1. n \in 1 .. n /\ before = s[n].next /\ before # None
          BY <1>2, <4>2 DEF before, CursorAfter, n
        <5>2. IsPiece(s[n], n, a)
          BY <1>2, <1>5, <3>1, <5>1 DEF PagesOf, ArePieces
        <5>3. (n - 1) * PageSize + PageSize = from /\ (n - 1) * PageSize \in Nat
          BY <1>2, <2>1, <4>2
        <5>4. WholeOf(s[n], a) = whole
          BY <3>1, <5>1 DEF WholeOf
        <5>5. s[n].next = IF from < Len(whole) THEN whole[from] ELSE None
          BY <5>2, <5>3, <5>4 DEF IsPiece, IsPieceAfter
        <5>6. from < Len(whole) /\ before = whole[from] /\ from # 0
          <6>1. from # 0
            BY <2>1, <5>3
          <6>2. from < Len(whole)
            BY <5>1, <5>5
          <6>. QED  BY <5>1, <5>5, <6>1, <6>2
        <5>. QED  BY <2>1, <2>2, <5>6
      <4>. QED  BY <4>1, <4>2
    <3>. PICK k : k = from
      OBVIOUS
    <3>3. k \in Nat /\ IsPieceAfter(AddressPage(archive, a, before), k, whole)
      BY <2>1, <3>2, PageIsPiece
    <3>4. /\ p.records = AddressPage(archive, a, before).records
          /\ p.next = AddressPage(archive, a, before).next
      BY <1>5, ServeTyped DEF p, Serve, Public
    <3>. PICK i : i = n + 1
      OBVIOUS
    <3>5. WholeOf(p, a) = whole /\ (i - 1) * PageSize = k
      BY <1>1, <1>2, <2>1 DEF WholeOf
    <3>6. IsPieceAfter(p, k, whole)
      BY <3>3, <3>4 DEF IsPieceAfter
    <3>. HIDE DEF whole, from, a
    <3>7. IsPiece(p, i, a)
      BY <3>5, <3>6 DEF IsPiece
    <3>. QED  BY <3>7
  <2>4. ASSUME NEW i \in 1 .. n, \A j \in 1 .. i : t[j].load = t[1].load
        PROVE  IsPiece(t[i], i, a)
    <3>1. 1 \in 1 .. n /\ \A j \in 1 .. i : j \in 1 .. n
      BY <1>2
    <3>2. t[i] = s[i] /\ \A j \in 1 .. i : s[j].load = s[1].load
      BY <1>3, <2>4, <3>1
    <3>. QED  BY <1>2, <1>5, <3>2 DEF PagesOf, ArePieces
  <2>5. \A i \in 1 .. n + 1 : i = n + 1 \/ i \in 1 .. n
    BY <1>2
  <2>. QED  BY <1>3, <2>3, <2>4, <2>5 DEF ArePieces
<1>. QED  BY <1>3, <1>4, <1>5 DEF PagesOf, t, p, before

\* No page is in order, of any query.
LEMMA NoPages ==
    ASSUME NEW q
    PROVE  PagesOf(<<>>, q)
  BY DEF PagesOf, Chained, ArePieces

\* The loads there were stay as they are, and so do the pages read from them.
LEMMA PagesStay ==
    ASSUME loads \in Seq(Archives), NEW archive,
           loads' = loads \/ loads' = Append(loads, archive),
           NEW s, NEW q, PagesOf(s, q)
    PROVE  PagesOf(s, q)'
<1>1. DOMAIN loads \in SUBSET DOMAIN (loads') /\ \A n \in DOMAIN loads : loads'[n] = loads[n]
  OBVIOUS
<1>2. \A i \in DOMAIN s : s[i].load \in DOMAIN loads
  BY DEF PagesOf, Chained
<1>3. \A i \in DOMAIN s : \A a : WholeOf(s[i], a)' = WholeOf(s[i], a)
  BY <1>1, <1>2 DEF WholeOf
<1>4. Chained(s)'
  BY <1>1 DEF PagesOf, Chained
<1>5. \A a : ArePieces(s, a) => ArePieces(s, a)'
  BY <1>3 DEF ArePieces, IsPiece, IsPieceAfter
<1>. QED  BY <1>4, <1>5 DEF PagesOf

\* So is a query whose state did not change.
LEMMA ResultStays ==
    ASSUME loads \in Seq(Archives), NEW archive,
           loads' = loads \/ loads' = Append(loads, archive),
           NEW r, NEW q, ResultInv(r, q)
    PROVE  ResultInv(r, q)'
  BY PagesStay DEF ResultInv, ReadOf

\* A step that gives one query another result keeps the others.
LEMMA OneResult ==
    ASSUME HistoryInv, NEW c \in Queries, NEW r \in Results, ResultInv(r, c),
           query' = [query EXCEPT ![c] = r], UNCHANGED loads
    PROVE  /\ query' \in [Queries -> Results]
           /\ (\A q \in Queries : ResultInv(query[q], q))'
<1>1. query' \in [Queries -> Results]
  BY DEF HistoryInv
<1>2. ASSUME NEW q \in Queries
      PROVE  ResultInv(query[q], q)'
  <2>1. ResultInv(query'[q], q)
    <3>1. CASE q = c
      BY <3>1 DEF HistoryInv
    <3>2. CASE q # c
      BY <3>2 DEF HistoryInv
    <3>. QED  BY <3>1, <3>2
  <2>2. loads \in Seq(Archives)
    BY DEF HistoryInv
  <2>3. \A t : t = query'[q] => ResultInv(t, q)'
    BY <2>1, <2>2, ResultStays
  <2>. QED  BY <2>3
<1>. QED  BY <1>1, <1>2

\* What the page shows is one of the queries.
LEMMA CurrentIsQuery == Current # None => Current \in Queries
  BY DEF Current, ParseHistoryLocation, Typed

\* A page opened at any path holds no result.
LEMMA HistoryInitHolds == HistoryInit => HistoryInv
<1>. SUFFICES ASSUME HistoryInit
              PROVE  HistoryInv
  OBVIOUS
<1>1. loads \in Seq(Archives) /\ loads # <<>>
  BY DEF HistoryInit
<1>2. NoResult \in Results /\ NoResult.pages = <<>> /\ NoResult.fetch = None
  BY DEF NoResult, Results
<1>3. \A q \in Queries : ResultInv(NoResult, q)
  BY <1>2, NoPages DEF ResultInv
<1>4. inputError \in BOOLEAN /\ visits \in 0 .. MaxVisits
  BY HistoryAssumption DEF HistoryInit, IsMalformedHistoryLocation
<1>5. query = [q \in Queries |-> NoResult]
  BY DEF HistoryInit
<1>. QED  BY <1>1, <1>2, <1>3, <1>4, <1>5 DEF HistoryInv

\* A first page is asked for.
LEMMA FetchFirstKeeps == ASSUME HistoryInv, FetchFirst PROVE HistoryInv'
<1>. PICK c : c = Current
  OBVIOUS
<1>. DEFINE f == [kind |-> "first", got |-> <<>>]
            r == [pages |-> query[c].pages, failed |-> FALSE, fetch |-> f]
<1>1. c \in Queries /\ query[c] \in Results /\ ResultInv(query[c], c)
  BY CurrentIsQuery DEF FetchFirst, HistoryInv
<1>2. query' = [query EXCEPT ![c].fetch = f, ![c].failed = FALSE]
  BY DEF FetchFirst
<1>3. query' = [query EXCEPT ![c] = r]
  <2>1. r = [query[c] EXCEPT !.fetch = f, !.failed = FALSE]
    <3>1. ASSUME NEW v, NEW w
          PROVE  [query[c] EXCEPT !.fetch = w, !.failed = v]
                   = [pages |-> query[c].pages, failed |-> v, fetch |-> w]
      <4>1. [query[c] EXCEPT !.fetch = w]
              = [pages |-> query[c].pages, failed |-> query[c].failed, fetch |-> w]
        BY <1>1 DEF Results
      <4>2. [[pages |-> query[c].pages, failed |-> query[c].failed, fetch |-> w] EXCEPT !.failed = v]
              = [pages |-> query[c].pages, failed |-> v, fetch |-> w]
        OBVIOUS
      <4>3. [query[c] EXCEPT !.fetch = w, !.failed = v]
              = [[query[c] EXCEPT !.fetch = w] EXCEPT !.failed = v]
        OBVIOUS
      <4>. QED  BY <4>1, <4>2, <4>3
    <3>. QED  BY <3>1
  <2>. HIDE DEF r
  <2>2. query \in [Queries -> Results]
    BY DEF HistoryInv
  <2>. QED  BY <1>1, <1>2, <2>1, <2>2
<1>4. r \in Results
  BY <1>1 DEF Results, Fetch
<1>5. ResultInv(r, c)
  BY <1>1, NoPages DEF ResultInv, ReadOf
<1>6. UNCHANGED <<loads, location, inputError, visits>>
  BY DEF FetchFirst
<1>. HIDE DEF r
<1>7. /\ query' \in [Queries -> Results]
      /\ (\A q \in Queries : ResultInv(query[q], q))'
  BY <1>1, <1>3, <1>4, <1>5, <1>6, OneResult
<1>. QED  BY <1>6, <1>7 DEF HistoryInv

\* The next page is asked for, at the cursor of the last.
LEMMA FetchNextPageKeeps == ASSUME HistoryInv, FetchNextPage PROVE HistoryInv'
<1>. PICK c : c = Current
  OBVIOUS
<1>. DEFINE f == [kind |-> "next", got |-> <<>>]
            r == [pages |-> query[c].pages, failed |-> query[c].failed, fetch |-> f]
<1>1. c \in Queries /\ query[c] \in Results /\ ResultInv(query[c], c)
  BY CurrentIsQuery DEF FetchNextPage, HistoryInv
<1>2. /\ query' = [query EXCEPT ![c].fetch = f]
      /\ query[c].pages # <<>> /\ query[c].pages[Len(query[c].pages)].next # None
  BY DEF FetchNextPage, ResultShown
<1>3. query' = [query EXCEPT ![c] = r]
  <2>1. r = [query[c] EXCEPT !.fetch = f]
    BY <1>1 DEF Results
  <2>. HIDE DEF r
  <2>2. query \in [Queries -> Results]
    BY DEF HistoryInv
  <2>. QED  BY <1>1, <1>2, <2>1, <2>2
<1>4. r \in Results
  BY <1>1 DEF Results, Fetch
<1>5. ResultInv(r, c)
  BY <1>1, <1>2, NoPages DEF ResultInv, ReadOf
<1>6. UNCHANGED <<loads, location, inputError, visits>>
  BY DEF FetchNextPage
<1>. HIDE DEF r
<1>7. /\ query' \in [Queries -> Results]
      /\ (\A q \in Queries : ResultInv(query[q], q))'
  BY <1>1, <1>3, <1>4, <1>5, <1>6, OneResult
<1>. QED  BY <1>6, <1>7 DEF HistoryInv

\* The visits that are counted keep to their bound.
LEMMA VisitCounts == ASSUME HistoryInv, Visit PROVE visits' \in 0 .. MaxVisits
  BY HistoryAssumption DEF HistoryInv, Visit

\* The pages of a query are read again, from the first.
LEMMA RefetchKeeps == ASSUME HistoryInv, Refetch PROVE HistoryInv'
<1>. PICK c : c = Current
  OBVIOUS
<1>. DEFINE f == [kind |-> "all", got |-> <<>>]
            r == [pages |-> query[c].pages, failed |-> query[c].failed, fetch |-> f]
<1>1. c \in Queries /\ query[c] \in Results /\ ResultInv(query[c], c)
  BY CurrentIsQuery DEF Refetch, HistoryInv
<1>2. query' = [query EXCEPT ![c].fetch = f]
  BY DEF Refetch
<1>3. query' = [query EXCEPT ![c] = r]
  <2>1. r = [query[c] EXCEPT !.fetch = f]
    BY <1>1 DEF Results
  <2>. HIDE DEF r
  <2>2. query \in [Queries -> Results]
    BY DEF HistoryInv
  <2>. QED  BY <1>1, <1>2, <2>1, <2>2
<1>4. r \in Results
  BY <1>1 DEF Results, Fetch
<1>5. ResultInv(r, c)
  BY <1>1, NoPages DEF ResultInv, ReadOf
<1>6. UNCHANGED <<loads, location, inputError>> /\ visits' \in 0 .. MaxVisits
  BY VisitCounts DEF Refetch
<1>. HIDE DEF r
<1>7. /\ query' \in [Queries -> Results]
      /\ (\A q \in Queries : ResultInv(query[q], q))'
  BY <1>1, <1>3, <1>4, <1>5, <1>6, OneResult
<1>. QED  BY <1>6, <1>7 DEF HistoryInv

\* A read fails, and what was shown stays.
LEMMA FailFetchKeeps == ASSUME HistoryInv, NEW c \in Queries, FailFetch(c) PROVE HistoryInv'
<1>. DEFINE r == [pages |-> query[c].pages, failed |-> TRUE, fetch |-> None]
<1>1. query[c] \in Results /\ ResultInv(query[c], c)
  BY DEF HistoryInv
<1>2. query' = [query EXCEPT ![c].failed = TRUE, ![c].fetch = None]
  BY DEF FailFetch
<1>3. query' = [query EXCEPT ![c] = r]
  <2>1. r = [query[c] EXCEPT !.failed = TRUE, !.fetch = None]
    <3>1. ASSUME NEW v, NEW w
          PROVE  [query[c] EXCEPT !.failed = v, !.fetch = w]
                   = [pages |-> query[c].pages, failed |-> v, fetch |-> w]
      <4>1. [query[c] EXCEPT !.failed = v]
              = [pages |-> query[c].pages, failed |-> v, fetch |-> query[c].fetch]
        BY <1>1 DEF Results
      <4>2. [[pages |-> query[c].pages, failed |-> v, fetch |-> query[c].fetch] EXCEPT !.fetch = w]
              = [pages |-> query[c].pages, failed |-> v, fetch |-> w]
        OBVIOUS
      <4>3. [query[c] EXCEPT !.failed = v, !.fetch = w]
              = [[query[c] EXCEPT !.failed = v] EXCEPT !.fetch = w]
        OBVIOUS
      <4>. QED  BY <4>1, <4>2, <4>3
    <3>. QED  BY <3>1
  <2>. HIDE DEF r
  <2>2. query \in [Queries -> Results]
    BY DEF HistoryInv
  <2>. QED  BY <1>1, <1>2, <2>1, <2>2
<1>4. r \in Results
  BY <1>1 DEF Results
<1>5. ResultInv(r, c)
  BY <1>1 DEF ResultInv
<1>6. UNCHANGED <<loads, location, inputError>> /\ visits' \in 0 .. MaxVisits
  BY VisitCounts DEF FailFetch, HistoryInv
<1>. HIDE DEF r
<1>7. /\ query' \in [Queries -> Results]
      /\ (\A q \in Queries : ResultInv(query[q], q))'
  BY <1>1, <1>3, <1>4, <1>5, <1>6, OneResult
<1>. QED  BY <1>6, <1>7 DEF HistoryInv

\* A page that arrives is put where it was asked for.
LEMMA AnswerKeeps == ASSUME HistoryInv, NEW c \in Queries, Answer(c) PROVE HistoryInv'
<1>. DEFINE pages == query[c].pages
            f == query[c].fetch
            so == IF f.kind = "next" THEN pages ELSE f.got
            p == Serve(c, CursorOf(c))
            got == Append(f.got, p)
            goesOn == f.kind = "all" /\ Len(got) < Len(pages) /\ p.next # None
            r == IF goesOn
                 THEN [pages |-> pages, failed |-> query[c].failed,
                       fetch |-> [kind |-> f.kind, got |-> got]]
                 ELSE [pages |-> IF f.kind = "next" THEN pages \o got ELSE got,
                       failed |-> FALSE, fetch |-> None]
<1>1. query[c] \in Results /\ ResultInv(query[c], c) /\ query \in [Queries -> Results]
      /\ loads \in Seq(Archives) /\ loads # <<>>
  BY DEF HistoryInv
<1>2. /\ f # None /\ f \in Fetch /\ pages \in Seq(Page) /\ f.got \in Seq(Page)
      /\ PagesOf(pages, c) /\ PagesOf(f.got, c) /\ ReadOf(f, pages)
  BY <1>1 DEF Answer, Results, ResultInv, PagesOf
<1>3. PagesOf(so, c) /\ (so # <<>> => so[Len(so)].next # None) /\ CursorOf(c) = CursorAfter(so)
  BY <1>2 DEF ReadOf, CursorOf, CursorAfter
<1>4. p # None /\ p \in Page
  BY <1>1, ServeTyped DEF Answer
<1>5. PagesOf(Append(so, p), c)
  <2>. HIDE DEF so
  <2>. QED  BY <1>1, <1>3, <1>4, PageContinues
<1>6. (IF f.kind = "next" THEN pages \o got ELSE got) = Append(so, p)
  <2>1. CASE f.kind = "next"
    <3>1. f.got = <<>> /\ so = pages
      BY <1>2, <2>1 DEF ReadOf
    <3>2. \A t \in Page : pages \o Append(<<>>, t) = Append(pages, t)
      BY <1>2
    <3>. QED  BY <1>4, <2>1, <3>1, <3>2
  <2>2. CASE f.kind # "next"
    BY <2>2
  <2>. QED  BY <2>1, <2>2
<1>7. query' = [query EXCEPT ![c] = r]
  <2>1. IF goesOn
        THEN query' = [query EXCEPT ![c].fetch.got = got]
        ELSE query' = [query EXCEPT ![c] =
                [pages |-> IF f.kind = "next" THEN pages \o got ELSE got,
                 failed |-> FALSE, fetch |-> None]]
    BY DEF Answer
  <2>2. CASE goesOn
    <3>1. query' = [query EXCEPT ![c].fetch.got = got]
      BY <2>1, <2>2
    <3>. HIDE DEF got
    <3>2. [query[c] EXCEPT !.fetch.got = got]
            = [pages |-> pages, failed |-> query[c].failed, fetch |-> [kind |-> f.kind, got |-> got]]
      <4>1. [f EXCEPT !.got = got] = [kind |-> f.kind, got |-> got]
        BY <1>2 DEF Fetch
      <4>2. [query[c] EXCEPT !.fetch.got = got]
              = [query[c] EXCEPT !.fetch = [f EXCEPT !.got = got]]
        BY <1>1 DEF Results
      <4>. HIDE DEF f
      <4>3. \A t : [query[c] EXCEPT !.fetch = t]
                     = [pages |-> pages, failed |-> query[c].failed, fetch |-> t]
        BY <1>1 DEF Results
      <4>. QED  BY <4>1, <4>2, <4>3
    <3>3. query' = [query EXCEPT ![c] = [query[c] EXCEPT !.fetch.got = got]]
      BY <1>1, <3>1
    <3>. QED  BY <2>2, <3>2, <3>3
  <2>3. CASE ~goesOn
    BY <2>1, <2>3
  <2>. QED  BY <2>2, <2>3
<1>8. r \in Results /\ ResultInv(r, c)
  <2>1. CASE goesOn
    <3>1. got = Append(so, p) /\ f.kind = "all"
      BY <2>1
    <3>2. got \in Seq(Page) /\ PagesOf(got, c)
      BY <1>5, <3>1 DEF PagesOf
    <3>3. got[Len(got)] = p
      BY <1>2, <1>4
    <3>. HIDE DEF got
    <3>4. [kind |-> f.kind, got |-> got] \in Fetch
      BY <3>1, <3>2 DEF Fetch
    <3>5. ReadOf([kind |-> f.kind, got |-> got], pages)
      BY <2>1, <3>1, <3>3 DEF ReadOf
    <3>6. r = [pages |-> pages, failed |-> query[c].failed,
               fetch |-> [kind |-> f.kind, got |-> got]]
      BY <2>1
    <3>. QED  BY <1>1, <1>2, <3>2, <3>4, <3>5, <3>6 DEF Results, ResultInv
  <2>2. CASE ~goesOn
    <3>1. r = [pages |-> Append(so, p), failed |-> FALSE, fetch |-> None]
      BY <1>6, <2>2
    <3>2. Append(so, p) \in Seq(Page)
      BY <1>5 DEF PagesOf
    <3>. QED  BY <1>5, <3>1, <3>2 DEF Results, ResultInv
  <2>. QED  BY <2>1, <2>2
<1>9. UNCHANGED <<loads, location, inputError, visits>>
  BY DEF Answer
<1>. HIDE DEF r
<1>10. /\ query' \in [Queries -> Results]
       /\ (\A q \in Queries : ResultInv(query[q], q))'
  BY <1>7, <1>8, <1>9, OneResult
<1>. QED  BY <1>9, <1>10 DEF HistoryInv

\* What leaves the results as they are keeps them in order.
LEMMA RestKeeps ==
    ASSUME HistoryInv, NEW archive \in Archives,
           loads' = loads \/ loads' = Append(loads, archive), UNCHANGED query,
           inputError' \in BOOLEAN, visits' \in 0 .. MaxVisits
    PROVE  HistoryInv'
<1>1. loads' \in Seq(Archives) /\ loads' # <<>>
  BY DEF HistoryInv
<1>2. ASSUME NEW q \in Queries
      PROVE  ResultInv(query[q], q)'
  <2>1. ResultInv(query[q], q) /\ loads \in Seq(Archives)
    BY DEF HistoryInv
  <2>2. \A t : t = query[q] => ResultInv(t, q)'
    BY <2>1, ResultStays
  <2>. QED  BY <2>2
<1>. QED  BY <1>1, <1>2 DEF HistoryInv

\* No step of the page, the API or a new load ends the invariant.
LEMMA HistoryNextKeeps == HistoryInv /\ [HistoryNext]_historyVars => HistoryInv'
<1>. SUFFICES ASSUME HistoryInv, [HistoryNext]_historyVars
              PROVE  HistoryInv'
  OBVIOUS
<1>0. inputError \in BOOLEAN /\ visits \in 0 .. MaxVisits /\ loads[1] \in Archives
  BY DEF HistoryInv
<1>1. ASSUME NEW archive \in Archives, LoadArchive(archive)
      PROVE  HistoryInv'
  BY <1>0, <1>1, RestKeeps DEF LoadArchive
<1>2. ASSUME NEW q \in Queries \cup {Malformed}, LookUp(q)
      PROVE  HistoryInv'
  BY <1>0, <1>2, RestKeeps, VisitCounts DEF LookUp, Navigate
<1>3. ASSUME NEW q \in Queries, Follow(q)
      PROVE  HistoryInv'
  BY <1>0, <1>3, RestKeeps, VisitCounts DEF Follow, Navigate
<1>4. CASE UNCHANGED historyVars
  BY <1>0, <1>4, RestKeeps DEF historyVars
<1>. QED
  BY <1>1, <1>2, <1>3, <1>4, AnswerKeeps, FailFetchKeeps, FetchFirstKeeps, FetchNextPageKeeps,
     RefetchKeeps DEF HistoryNext

\* Every page that is held was cut from an archive the API had loaded, at the cursor
\* of the page before it (HistoryPage.tsx, archive.ts).
THEOREM HistoryInvariance == HistorySpec => []HistoryInv
  BY HistoryInitHolds, HistoryNextKeeps, PTL DEF HistorySpec

\* The invariant has the types in it.
LEMMA InvHistoryTypeOK == HistoryInv => HistoryTypeOK
  BY DEF HistoryInv, HistoryTypeOK, Results

\* A set of natural numbers that is not empty has a least one.
LEMMA LeastPlace ==
    ASSUME NEW S \in SUBSET Nat, S # {}
    PROVE  \E i \in S : \A j \in S : i <= j
<1>. DEFINE Less == {ss \in Nat \X Nat : ss[1] < ss[2]}
<1>1. IsWellFoundedOn(Less, Nat)
  BY NatLessThanWellFounded DEF OpToRel
<1>2. PICK i \in S : \A j \in S : ~(<<j, i>> \in Less)
  <2>. HIDE DEF Less
  <2>. QED  BY <1>1, WFMin
<1>3. \A j \in S : ~(j < i)
  BY <1>2
<1>. QED  BY <1>3

\* The first k of a sequence and the l behind them are the first k + l.
LEMMA PiecesJoin ==
    ASSUME NEW w \in Seq(Nat), NEW k \in Nat, NEW l \in Nat, k + l <= Len(w)
    PROVE  [m \in 1 .. k |-> w[m]] \o [m \in 1 .. l |-> w[k + m]] = [m \in 1 .. k + l |-> w[m]]
<1>. DEFINE s == [m \in 1 .. k |-> w[m]]
            t == [m \in 1 .. l |-> w[k + m]]
            u == [m \in 1 .. k + l |-> w[m]]
<1>1. s \in Seq(Nat) /\ Len(s) = k /\ t \in Seq(Nat) /\ Len(t) = l
  <2>1. \A m \in 1 .. k : w[m] \in Nat
    OBVIOUS
  <2>2. \A m \in 1 .. l : w[k + m] \in Nat
    OBVIOUS
  <2>. QED  BY <2>1, <2>2
<1>2. u \in Seq(Nat) /\ Len(u) = k + l
  <2>1. \A m \in 1 .. k + l : w[m] \in Nat
    OBVIOUS
  <2>. QED  BY <2>1
<1>3. s \o t \in Seq(Nat) /\ Len(s \o t) = k + l
  <2>. HIDE DEF s, t
  <2>. QED  BY <1>1, ConcatProperties
<1>4. ASSUME NEW m \in 1 .. k + l
      PROVE  (s \o t)[m] = u[m]
  <2>1. (s \o t)[m] = IF m <= k THEN s[m] ELSE t[m - k]
    <3>. HIDE DEF s, t
    <3>. QED  BY <1>1, ConcatProperties
  <2>2. CASE m <= k
    <3>1. m \in 1 .. k
      BY <2>2
    <3>. QED  BY <2>1, <2>2, <3>1
  <2>3. CASE ~(m <= k)
    <3>1. m - k \in 1 .. l /\ k + (m - k) = m
      BY <2>3
    <3>. QED  BY <2>1, <2>3, <3>1
  <2>. QED  BY <2>2, <2>3
<1>. HIDE DEF s, t, u
<1>5. s \o t = u
  <2>. PICK v : v = s \o t
    OBVIOUS
  <2>1. v \in Seq(Nat) /\ Len(v) = Len(u) /\ \A m \in 1 .. Len(v) : v[m] = u[m]
    BY <1>2, <1>3, <1>4
  <2>. QED  BY <1>2, <2>1, SeqEqual
<1>. QED  BY <1>5 DEF s, t, u

\* The number of records of the first i of n pages, all but the last of them full.
Taken(i, n, size) == IF i < n THEN i * PageSize ELSE (n - 1) * PageSize + size

\* s holds n pieces of the whole, one behind the other, the last of this size.
CutUp(s, n, size, whole) ==
    /\ s = [i \in 1 .. n |-> s[i]] /\ Len(s) = n
    /\ \A i \in 1 .. n : s[i] = [m \in 1 .. IF i < n THEN PageSize ELSE size |->
                                   whole[(i - 1) * PageSize + m]]

\* Pieces one behind the other, put together, are the beginning of the whole.
LEMMA PiecesFlatten ==
    ASSUME NEW whole \in Seq(Nat), NEW n \in Nat \ {0}, NEW size \in Nat,
           (n - 1) * PageSize + size <= Len(whole),
           NEW s, CutUp(s, n, size, whole)
    PROVE  Seqs!FlattenSeq(s) = [m \in 1 .. (n - 1) * PageSize + size |-> whole[m]]
<1>. DEFINE Solves(f) == f = [i \in 1 .. n |-> IF i = 1 THEN s[i] ELSE f[i - 1] \o s[i]]
            g == [i \in 1 .. n |-> [m \in 1 .. Taken(i, n, size) |-> whole[m]]]
            flatten == CHOOSE f : Solves(f)
<1>0. PageSize \in Nat
  BY HistoryAssumption
<1>7. /\ s = [i \in 1 .. n |-> s[i]] /\ Len(s) = n
      /\ \A i \in 1 .. n : s[i] = [m \in 1 .. IF i < n THEN PageSize ELSE size |->
                                     whole[(i - 1) * PageSize + m]]
  BY DEF CutUp
<1>1. Solves(g)
  <2>1. ASSUME NEW i \in 1 .. n
        PROVE  g[i] = IF i = 1 THEN s[i] ELSE g[i - 1] \o s[i]
    <3>. DEFINE k == (i - 1) * PageSize
                l == IF i < n THEN PageSize ELSE size
    <3>1. k \in Nat /\ l \in Nat /\ Taken(i, n, size) = k + l
      <4>1. i - 1 \in Nat /\ (i - 1) * PageSize \in Nat /\ (i - 1) * PageSize + PageSize = i * PageSize
        BY <1>0
      <4>2. ~(i < n) => i = n
        OBVIOUS
      <4>. QED  BY <1>0, <4>1, <4>2 DEF Taken
    <3>2. k + l <= Len(whole)
      <4>1. CASE i = n
        BY <3>1, <4>1
      <4>2. CASE i # n
        <5>1. i < n /\ i <= n - 1 /\ n - 1 \in Nat
          BY <4>2
        <5>2. i * PageSize <= (n - 1) * PageSize
          <6>1. n - 1 - i \in Nat /\ (n - 1 - i) * PageSize \in Nat
            BY <1>0, <5>1
          <6>2. (n - 1) * PageSize = i * PageSize + (n - 1 - i) * PageSize
            BY <1>0, <5>1
          <6>3. i * PageSize \in Nat
            BY <1>0
          <6>. QED  BY <6>1, <6>2, <6>3
        <5>3. k + l = i * PageSize
          BY <1>0, <5>1
        <5>. PICK a, b : a = i * PageSize /\ b = (n - 1) * PageSize
          OBVIOUS
        <5>4. a \in Nat /\ b \in Nat /\ b + size <= Len(whole) /\ Len(whole) \in Nat
          BY <1>0, <5>1
        <5>5. k + l = a /\ a <= b
          BY <5>2, <5>3
        <5>. HIDE DEF k, l
        <5>. QED  BY <5>4, <5>5
      <4>. QED  BY <4>1, <4>2
    <3>3. s[i] = [m \in 1 .. l |-> whole[k + m]] /\ g[i] = [m \in 1 .. k + l |-> whole[m]]
      BY <1>7, <3>1
    <3>4. CASE i = 1
      <4>1. k = 0
        BY <1>0, <3>4
      <4>2. \A m \in 1 .. l : k + m = m
        BY <3>1, <4>1
      <4>. HIDE DEF g, k, l
      <4>3. g[i] = [m \in 1 .. l |-> whole[m]]
        BY <3>1, <3>3, <4>1
      <4>. QED  BY <3>3, <3>4, <4>2, <4>3
    <3>5. CASE i # 1
      <4>1. i - 1 \in 1 .. n /\ Taken(i - 1, n, size) = k
        BY <3>5 DEF Taken
      <4>2. g[i - 1] = [m \in 1 .. k |-> whole[m]]
        BY <4>1
      <4>. HIDE DEF g, k, l
      <4>3. g[i - 1] \o s[i] = g[i]
        <5>1. [m \in 1 .. k |-> whole[m]] \o [m \in 1 .. l |-> whole[k + m]]
                = [m \in 1 .. k + l |-> whole[m]]
          BY <3>1, <3>2, PiecesJoin
        <5>. QED  BY <3>3, <4>2, <5>1
      <4>. QED  BY <3>5, <4>3
    <3>. QED  BY <3>4, <3>5
  <2>. HIDE DEF g
  <2>2. g = [i \in 1 .. n |-> g[i]]
    BY DEF g
  <2>. QED  BY <2>1, <2>2
<1>2. Solves(flatten)
  <2>. HIDE DEF Solves, g
  <2>. QED  BY <1>1
<1>. DEFINE odd == {i \in 1 .. n : flatten[i] # g[i]}
<1>. HIDE DEF flatten, g
<1>3. odd = {}
  <2>1. SUFFICES ASSUME odd # {}
                 PROVE  FALSE
    OBVIOUS
  <2>2. PICK i \in odd : \A j \in odd : i <= j
    <3>1. odd \in SUBSET Nat
      OBVIOUS
    <3>. HIDE DEF odd
    <3>. QED  BY <2>1, <3>1, LeastPlace
  <2>3. /\ flatten[i] = IF i = 1 THEN s[i] ELSE flatten[i - 1] \o s[i]
        /\ g[i] = IF i = 1 THEN s[i] ELSE g[i - 1] \o s[i]
    BY <1>1, <1>2
  <2>4. i # 1 => i - 1 \in 1 .. n /\ i - 1 \notin odd
    BY <2>2
  <2>5. i # 1 => flatten[i - 1] = g[i - 1]
    BY <2>4
  <2>. QED  BY <2>3, <2>5
<1>4. flatten[n] = g[n]
  BY <1>3
<1>5. Seqs!FlattenSeq(s) = flatten[n]
  BY <1>7 DEF Seqs!FlattenSeq, flatten
<1>6. g[n] = [m \in 1 .. (n - 1) * PageSize + size |-> whole[m]]
  <2>1. n \in 1 .. n /\ Taken(n, n, size) = (n - 1) * PageSize + size
    BY DEF Taken
  <2>. QED  BY <2>1 DEF g
<1>. QED  BY <1>4, <1>5, <1>6

\* What the pages of one load list is the beginning of the whole, and the last
\* of them offers older records exactly while there are some.
LEMMA PagesAddUp ==
    ASSUME HistoryInv, NEW q \in Queries, q.type = "address", NEW s, s # <<>>, PagesOf(s, q),
           \A i \in DOMAIN s : s[i].load = s[1].load
    PROVE  LET listed == Seqs!FlattenSeq([i \in DOMAIN s |-> s[i].records])
               whole == WholeOf(s[1], q.value)
           IN  /\ Len(listed) <= Len(whole)
               /\ listed = SubSeq(whole, 1, Len(listed))
               /\ (s[Len(s)].next # None) <=> Len(listed) < Len(whole)
<1>. DEFINE a == q.value
            whole == WholeOf(s[1], a)
            n == Len(s)
            rs == [i \in DOMAIN s |-> s[i].records]
            from == (n - 1) * PageSize
            size == IF from + PageSize < Len(whole) THEN PageSize ELSE Len(whole) - from
            listed == Seqs!FlattenSeq(rs)
<1>1. n \in Nat \ {0} /\ DOMAIN s = 1 .. n /\ PageSize \in Nat /\ PageSize # 0 /\ None \notin Nat
  BY HistoryAssumption DEF PagesOf
<1>. HIDE DEF n
<1>2. loads[s[1].load] \in Archives
  BY <1>1 DEF HistoryInv, PagesOf, Chained
<1>3. whole \in Seq(Nat) /\ Len(whole) \in Nat
  <2>. DEFINE W == Involving(loads[s[1].load], a)
  <2>1. W \in SUBSET Nat /\ IsFiniteSet(W)
    BY <1>2, ArchivePlaces
  <2>2. whole = Descending(W)
    BY DEF WholeOf
  <2>. HIDE DEF W, whole
  <2>3. Cardinality(W) \in Nat /\ whole \in [1 .. Cardinality(W) -> W]
    BY <2>1, <2>2, DescendingOnce
  <2>4. whole \in [1 .. Cardinality(W) -> Nat]
    BY <2>1, <2>3
  <2>. QED  BY <2>3, <2>4
<1>4. \A i \in 1 .. n : IsPieceAfter(s[i], (i - 1) * PageSize, whole)
  <2>1. ASSUME NEW i \in 1 .. n
        PROVE  IsPieceAfter(s[i], (i - 1) * PageSize, whole)
    <3>1. \A j \in 1 .. i : s[j].load = s[1].load
      BY <1>1
    <3>2. IsPiece(s[i], i, a)
      BY <1>1, <3>1 DEF PagesOf, ArePieces
    <3>3. WholeOf(s[i], a) = whole
      BY <1>1 DEF WholeOf
    <3>. HIDE DEF whole
    <3>. QED  BY <3>2, <3>3 DEF IsPiece
  <2>. QED  BY <2>1
<1>. HIDE DEF whole
<1>5. \A i \in 1 .. n : i < n => (i - 1) * PageSize + PageSize < Len(whole)
  <2>1. ASSUME NEW i \in 1 .. n, i < n
        PROVE  (i - 1) * PageSize + PageSize < Len(whole)
    <3>1. s[i].next # None
      BY <1>1, <2>1 DEF PagesOf, Chained, n
    <3>. QED  BY <1>4, <3>1 DEF IsPieceAfter
  <2>. QED  BY <2>1
<1>6. /\ from \in Nat /\ from <= Len(whole)
      /\ s[n].next = IF from + PageSize < Len(whole) THEN whole[from + PageSize] ELSE None
      /\ size \in Nat /\ from + size <= Len(whole)
  <2>1. n \in 1 .. n /\ n - 1 \in Nat
    BY <1>1
  <2>2. from \in Nat
    BY <1>1, <2>1
  <2>3. /\ from <= Len(whole)
        /\ s[n].next = IF from + PageSize < Len(whole) THEN whole[from + PageSize] ELSE None
    BY <1>4, <2>1 DEF IsPieceAfter
  <2>. HIDE DEF from
  <2>. QED  BY <1>1, <1>3, <2>2, <2>3
<1>7. \A i \in 1 .. n : rs[i] = [m \in 1 .. IF i < n THEN PageSize ELSE size |->
                                  whole[(i - 1) * PageSize + m]]
  <2>1. ASSUME NEW i \in 1 .. n
        PROVE  rs[i] = [m \in 1 .. IF i < n THEN PageSize ELSE size |->
                          whole[(i - 1) * PageSize + m]]
    <3>1. rs[i] = [m \in 1 .. IF (i - 1) * PageSize + PageSize < Len(whole) THEN PageSize
                              ELSE Len(whole) - (i - 1) * PageSize |->
                     whole[(i - 1) * PageSize + m]]
      BY <1>1, <1>4 DEF IsPieceAfter
    <3>2. CASE i < n
      BY <1>5, <3>1, <3>2
    <3>3. CASE ~(i < n)
      <4>1. i = n
        <5>1. i \in Nat /\ n \in Nat /\ i <= n
          BY <1>1
        <5>. QED  BY <3>3, <5>1
      <4>. QED  BY <3>1, <3>3, <4>1
    <3>. QED  BY <3>2, <3>3
  <2>. QED  BY <2>1
<1>8. rs = [i \in 1 .. n |-> rs[i]] /\ Len(rs) = n
  BY <1>1 DEF n
<1>. HIDE DEF rs, size, from
<1>9. listed = [m \in 1 .. from + size |-> whole[m]]
  <2>1. (n - 1) * PageSize + size <= Len(whole)
    BY <1>6 DEF from
  <2>2. CutUp(rs, n, size, whole)
    BY <1>7, <1>8 DEF CutUp
  <2>3. Seqs!FlattenSeq(rs) = [m \in 1 .. (n - 1) * PageSize + size |-> whole[m]]
    BY <1>1, <1>3, <1>6, <2>1, <2>2, PiecesFlatten
  <2>. QED  BY <2>3 DEF from
<1>. HIDE DEF listed
<1>10. Len(listed) = from + size
  BY <1>6, <1>9
<1>11. SubSeq(whole, 1, from + size) = [m \in 1 .. from + size |-> whole[m]]
  BY <1>3, <1>6
<1>12. (s[n].next # None) <=> from + size < Len(whole)
  <2>1. CASE from + PageSize < Len(whole)
    <3>1. from + PageSize \in 1 .. Len(whole)
      BY <1>1, <1>3, <1>6, <2>1
    <3>2. whole[from + PageSize] \in Nat
      BY <1>3, <3>1
    <3>. QED  BY <1>1, <1>6, <2>1, <3>2 DEF size
  <2>2. CASE ~(from + PageSize < Len(whole))
    BY <1>3, <1>6, <2>2 DEF size
  <2>. QED  BY <2>1, <2>2
<1>13. /\ Len(listed) <= Len(whole)
       /\ listed = SubSeq(whole, 1, Len(listed))
       /\ (s[n].next # None) <=> Len(listed) < Len(whole)
  BY <1>6, <1>9, <1>10, <1>11, <1>12
<1>. QED  BY <1>13 DEF listed, rs, whole, n

\* So what is listed is, for the archive of the first page.
LEMMA InvPagesAreWhole == HistoryInv => PagesAreWhole
<1>. SUFFICES ASSUME HistoryInv, NEW q \in Queries, q.type = "address", ResultShown(q),
                     \A i \in DOMAIN query[q].pages : query[q].pages[i].load = query[q].pages[1].load
              PROVE  LET s == query[q].pages
                         listed == Seqs!FlattenSeq([i \in DOMAIN s |-> s[i].records])
                         whole == WholeOf(s[1], q.value)
                     IN  /\ Len(listed) <= Len(whole)
                         /\ listed = SubSeq(whole, 1, Len(listed))
                         /\ (s[Len(s)].next # None) <=> Len(listed) < Len(whole)
  BY DEF PagesAreWhole, WholeOf
<1>. PICK s : s = query[q].pages
  OBVIOUS
<1>1. s # <<>> /\ PagesOf(s, q) /\ \A i \in DOMAIN s : s[i].load = s[1].load
  BY DEF HistoryInv, ResultInv, ResultShown
<1>. QED  BY <1>1, PagesAddUp

\* Pages read from one load list the newest records of the address, each once and
\* none left out, and older ones are offered exactly while there are some, for
\* any archives, page size and number of loads between the reads
\* (archive.ts getArchiveByAddress, HistoryPage.tsx AddressHistory).
THEOREM HistoryIsWhole == HistorySpec => []PagesAreWhole
  BY HistoryInvariance, InvPagesAreWhole, PTL

-----------------------------------------------------------------------------
(* The types of a chain's card: the contract pays out no more than it has, for *)
(* a batch the contract accepts is covered asset by asset.                    *)

\* g is the fold that adds up what f is of the elements, for every subset of S.
AddsUp(g, f, S) ==
    g = [s \in SUBSET S |->
            IF s = {} THEN 0
            ELSE f[CHOOSE x \in s : TRUE] + g[s \ {CHOOSE x \in s : TRUE}]]

\* The fold exists, and no sum is negative: there is no least size at which one
\* would be missing.
LEMMA SumExists ==
    ASSUME NEW S, IsFiniteSet(S), NEW T, T \in {Nat, Int}, NEW f, \A x \in S : f[x] \in T
    PROVE  \E g \in [SUBSET S -> T] : AddsUp(g, f, S)
<1>. DEFINE Small(n) == {s \in SUBSET S : Cardinality(s) <= n}
            any(s) == CHOOSE x \in s : TRUE
            Upto(n, g) == /\ g \in [Small(n) -> T]
                          /\ \A s \in Small(n) : g[s] = IF s = {} THEN 0 ELSE f[any(s)] + g[s \ {any(s)}]
            missing == {n \in Nat : ~ \E g : Upto(n, g)}
<1>0. 0 \in T /\ \A a, b \in T : a + b \in T
  <2>1. CASE T = Nat
    BY <2>1
  <2>2. CASE T = Int
    BY <2>2
  <2>. QED  BY <2>1, <2>2
<1>1. ASSUME NEW s \in SUBSET S
      PROVE  /\ IsFiniteSet(s) /\ Cardinality(s) \in Nat
             /\ Cardinality(s) = 0 <=> s = {}
             /\ s # {} => /\ any(s) \in s /\ s \ {any(s)} \in SUBSET S
                          /\ f[any(s)] \in T
                          /\ Cardinality(s \ {any(s)}) = Cardinality(s) - 1
  <2>1. IsFiniteSet(s) /\ Cardinality(s) \in Nat
    BY FS_Subset, FS_CardinalityType
  <2>2. Cardinality(s) = 0 <=> s = {}
    BY <2>1, FS_EmptySet
  <2>3. ASSUME s # {}
        PROVE  /\ any(s) \in s /\ s \ {any(s)} \in SUBSET S
               /\ f[any(s)] \in T
               /\ Cardinality(s \ {any(s)}) = Cardinality(s) - 1
    <3>1. any(s) \in s
      BY <2>3
    <3>. HIDE DEF any
    <3>2. Cardinality(s \ {any(s)}) = Cardinality(s) - 1
      BY <2>1, <3>1, FS_RemoveElement
    <3>. QED  BY <3>1, <3>2
  <2>. QED  BY <2>1, <2>2, <2>3
<1>. HIDE DEF any
<1>2. ASSUME NEW n \in Nat, \A m \in Nat : m < n => \E g : Upto(m, g)
      PROVE  \E g : Upto(n, g)
  <2>1. CASE n = 0
    <3>. DEFINE g == [s \in Small(0) |-> 0]
    <3>1. ASSUME NEW s \in Small(0)
          PROVE  s = {}
      <4>1. s \in SUBSET S /\ Cardinality(s) \in Nat /\ Cardinality(s) <= 0
        BY <1>1
      <4>2. Cardinality(s) = 0
        BY <4>1
      <4>. QED  BY <1>1, <4>1, <4>2
    <3>2. Upto(0, g)
      BY <1>0, <3>1
    <3>. QED  BY <2>1, <3>2
  <2>2. CASE n # 0
    <3>1. PICK h : Upto(n - 1, h)
      <4>. HIDE DEF Upto
      <4>1. n - 1 \in Nat /\ n - 1 < n
        BY <2>2
      <4>. QED  BY <1>2, <4>1
    <3>. DEFINE g == [s \in Small(n) |-> IF s = {} THEN 0 ELSE f[any(s)] + h[s \ {any(s)}]]
    <3>2. ASSUME NEW s \in Small(n), s # {}
          PROVE  /\ s \ {any(s)} \in Small(n - 1) /\ s \ {any(s)} \in Small(n)
                 /\ f[any(s)] \in T
      <4>1. s \in SUBSET S
        OBVIOUS
      <4>2. Cardinality(s \ {any(s)}) = Cardinality(s) - 1 /\ s \ {any(s)} \in SUBSET S
        BY <1>1, <3>2, <4>1
      <4>. QED  BY <1>1, <3>2, <4>1, <4>2
    <3>3. \A s \in Small(n - 1) : s \in Small(n) /\ (s # {} => h[s] = f[any(s)] + h[s \ {any(s)}])
                                  /\ (s = {} => h[s] = 0)
      <4>1. ASSUME NEW s \in Small(n - 1)
            PROVE  s \in Small(n)
        <5>1. Cardinality(s) \in Nat /\ Cardinality(s) <= n - 1
          BY <1>1
        <5>. QED  BY <5>1
      <4>. QED  BY <3>1, <4>1
    <3>4. \A s \in Small(n - 1) : g[s] = h[s]
      <4>. HIDE DEF Small, Upto
      <4>. QED  BY <3>3
    <3>5. g \in [Small(n) -> T]
      <4>1. h \in [Small(n - 1) -> T]
        BY <3>1
      <4>. HIDE DEF Small, Upto
      <4>2. \A s \in Small(n) : s # {} => h[s \ {any(s)}] \in T /\ f[any(s)] \in T
        BY <3>2, <4>1
      <4>. QED  BY <1>0, <4>2
    <3>6. \A s \in Small(n) : g[s] = IF s = {} THEN 0 ELSE f[any(s)] + g[s \ {any(s)}]
      <4>. HIDE DEF Small, Upto
      <4>1. \A s \in Small(n) : s # {} => g[s \ {any(s)}] = h[s \ {any(s)}]
        <5>. HIDE DEF g
        <5>. QED  BY <3>2, <3>4
      <4>. QED  BY <4>1
    <3>7. Upto(n, g)
      <4>. HIDE DEF g, Small
      <4>. QED  BY <3>5, <3>6
    <3>. HIDE DEF g, Upto
    <3>. QED  BY <3>7
  <2>. QED  BY <2>1, <2>2
<1>3. missing = {}
  <2>. HIDE DEF Upto
  <2>1. SUFFICES ASSUME missing # {}
                 PROVE  FALSE
    OBVIOUS
  <2>2. PICK n \in missing : \A m \in missing : n <= m
    <3>1. missing \in SUBSET Nat
      OBVIOUS
    <3>. HIDE DEF missing
    <3>. QED  BY <2>1, <3>1, LeastPlace
  <2>3. n \in Nat /\ ~ \E g : Upto(n, g)
    OBVIOUS
  <2>4. \A m \in Nat : m < n => \E g : Upto(m, g)
    BY <2>2
  <2>. QED  BY <1>2, <2>3, <2>4
<1>4. PICK g : Upto(Cardinality(S), g)
  <2>1. Cardinality(S) \in Nat
    BY <1>1
  <2>. HIDE DEF Upto
  <2>. QED  BY <1>3, <2>1
<1>5. Small(Cardinality(S)) = SUBSET S
  <2>1. ASSUME NEW s \in SUBSET S
        PROVE  Cardinality(s) <= Cardinality(S)
    <3>. QED  BY FS_Subset
  <2>. QED  BY <2>1
<1>6. g \in [SUBSET S -> T] /\ \A s \in SUBSET S : g[s] = IF s = {} THEN 0 ELSE f[any(s)] + g[s \ {any(s)}]
  <2>1. /\ g \in [Small(Cardinality(S)) -> T]
        /\ \A s \in Small(Cardinality(S)) : g[s] = IF s = {} THEN 0 ELSE f[any(s)] + g[s \ {any(s)}]
    BY <1>4
  <2>. HIDE DEF Small, Upto
  <2>. QED  BY <1>5, <2>1
<1>. HIDE DEF Upto, Small
<1>7. AddsUp(g, f, S)
  <2>1. g = [s \in SUBSET S |-> g[s]]
    BY <1>6
  <2>2. g = [s \in SUBSET S |-> IF s = {} THEN 0 ELSE f[any(s)] + g[s \ {any(s)}]]
    BY <1>6, <2>1
  <2>. QED  BY <2>2 DEF AddsUp, any
<1>. QED  BY <1>6, <1>7

\* And there is no other: the fold is that one.
LEMMA SumIs ==
    ASSUME NEW S, IsFiniteSet(S), NEW T, T \in {Nat, Int}, NEW f, \A x \in S : f[x] \in T,
           NEW sum, sum = CHOOSE g : AddsUp(g, f, S)
    PROVE  sum \in [SUBSET S -> T] /\ AddsUp(sum, f, S)
<1>1. PICK g \in [SUBSET S -> T] : AddsUp(g, f, S)
  BY SumExists
<1>2. AddsUp(sum, f, S)
  BY <1>1
<1>3. DOMAIN sum = SUBSET S /\ DOMAIN g = SUBSET S
  BY <1>1, <1>2 DEF AddsUp
<1>4. \A s \in SUBSET S : IsFiniteSet(s) /\ Cardinality(s) \in Nat
  BY FS_Subset, FS_CardinalityType
<1>5. ASSUME NEW s \in SUBSET S, s # {}
      PROVE  s \ {CHOOSE x \in s : TRUE} \in SUBSET S
             /\ Cardinality(s \ {CHOOSE x \in s : TRUE}) < Cardinality(s)
  <2>. PICK any : any = CHOOSE x \in s : TRUE
    OBVIOUS
  <2>1. IsFiniteSet(s) /\ any \in s
    BY <1>4, <1>5
  <2>2. Cardinality(s) \in Nat /\ Cardinality(s \ {any}) = Cardinality(s) - 1
    BY <2>1, FS_RemoveElement, FS_CardinalityType
  <2>. QED  BY <2>1, <2>2
<1>. DEFINE sizes == {n \in Nat : \E s \in SUBSET S : Cardinality(s) = n /\ sum[s] # g[s]}
<1>6. sizes = {}
  <2>1. SUFFICES ASSUME sizes # {}
                 PROVE  FALSE
    OBVIOUS
  <2>2. PICK n \in sizes : \A m \in sizes : n <= m
    <3>1. sizes \in SUBSET Nat
      OBVIOUS
    <3>. HIDE DEF sizes
    <3>. QED  BY <2>1, <3>1, LeastPlace
  <2>3. PICK s \in SUBSET S : Cardinality(s) = n /\ sum[s] # g[s]
    OBVIOUS
  <2>. DEFINE rest == s \ {CHOOSE x \in s : TRUE}
  <2>4. s # {} => sum[rest] = g[rest]
    <3>. SUFFICES ASSUME s # {}, sum[rest] # g[rest] PROVE FALSE
      OBVIOUS
    <3>1. rest \in SUBSET S /\ Cardinality(rest) \in Nat /\ Cardinality(rest) < n
      BY <1>4, <1>5, <2>3
    <3>2. n \in Nat /\ Cardinality(rest) \in sizes
      BY <3>1
    <3>. HIDE DEF rest, sizes
    <3>. QED  BY <2>2, <3>1, <3>2
  <2>5. /\ sum[s] = IF s = {} THEN 0 ELSE f[CHOOSE x \in s : TRUE] + sum[rest]
        /\ g[s] = IF s = {} THEN 0 ELSE f[CHOOSE x \in s : TRUE] + g[rest]
    <3>. HIDE DEF sizes
    <3>. QED  BY <1>1, <1>2 DEF AddsUp
  <2>. HIDE DEF sizes
  <2>. QED  BY <2>3, <2>4, <2>5
<1>7. \A s \in SUBSET S : sum[s] = g[s]
  <2>. SUFFICES ASSUME NEW s \in SUBSET S, sum[s] # g[s] PROVE FALSE
    OBVIOUS
  <2>1. Cardinality(s) \in sizes
    BY <1>4
  <2>. QED  BY <1>6, <2>1
<1>8. sum = [s \in SUBSET S |-> sum[s]]
  BY <1>2 DEF AddsUp
<1>9. \A s \in SUBSET S : sum[s] \in T
  BY <1>1, <1>7
<1>. HIDE DEF sizes
<1>10. sum \in [SUBSET S -> T]
  BY <1>8, <1>9
<1>. QED  BY <1>2, <1>10

\* What is owed of an asset is an amount, and nothing for no rows of it.
LEMMA OwedIsAmount ==
    ASSUME NEW rows \in SUBSET Rows, NEW a
    PROVE  /\ Owed(rows, a) \in Nat
           /\ {r \in rows : AssetOf[r] = a} = {} => Owed(rows, a) = 0
<1>. DEFINE S == {r \in rows : AssetOf[r] = a}
            sum == CHOOSE g : AddsUp(g, AmountOf, S)
<1>1. Owed(rows, a) = sum[S]
  BY DEF Owed, MapThenSumSet, MapThenFoldSet, AddsUp
<1>2. IsFiniteSet(S) /\ \A r \in S : AmountOf[r] \in Nat
  BY RowsAssumption, AmountsAssumption, FS_Subset
<1>. HIDE DEF S
<1>3. sum \in [SUBSET S -> Nat] /\ AddsUp(sum, AmountOf, S)
  BY <1>2, SumIs
<1>. HIDE DEF sum
<1>4. S = {} => sum[S] = 0
  BY <1>3 DEF AddsUp
<1>. QED  BY <1>1, <1>3, <1>4 DEF S

\* A batch the contract accepts leaves no asset short.
LEMMA PayTyped ==
    ASSUME BridgeTypeOK, NEW batch \in SUBSET Rows, NEW by \in Hashes \cup {Someone},
           Accepts(batch), Pay(batch, by)
    PROVE  /\ code' = code /\ refusing' = refusing
           /\ payer' \in [Rows -> Hashes \cup {Someone, None}]
           /\ available' \in Amounts
<1>1. Transfers(batch) \in SUBSET Rows
  BY DEF Transfers
<1>2. ASSUME NEW a \in Assets
      PROVE  available[a] - Owed(Transfers(batch), a) \in 0 .. MaxFunds
  <2>1. available[a] \in 0 .. MaxFunds
    BY DEF BridgeTypeOK, Amounts
  <2>2. Owed(Transfers(batch), a) \in Nat /\ Owed(Transfers(batch), a) <= available[a]
    <3>1. CASE {r \in Transfers(batch) : AssetOf[r] = a} = {}
      BY <1>1, <2>1, <3>1, OwedIsAmount
    <3>2. CASE \E r \in Transfers(batch) : AssetOf[r] = a
      BY <1>1, <3>2, OwedIsAmount DEF Accepts
    <3>. QED  BY <3>1, <3>2
  <2>. QED  BY <2>1, <2>2, BoundsAssumption
<1>3. payer' \in [Rows -> Hashes \cup {Someone, None}]
  <2>1. \A r \in Rows : payer[r] \in Hashes \cup {Someone, None}
    BY DEF BridgeTypeOK
  <2>. QED  BY <2>1 DEF Pay
<1>4. available' = [a \in Assets |-> available[a] - Owed(Transfers(batch), a)]
  BY DEF Pay
<1>. QED  BY <1>2, <1>3, <1>4 DEF Amounts, Pay

\* Steps that are counted keep to their bound.
LEMMA MovesCount == ASSUME BridgeTypeOK, Moves PROVE moves' \in 0 .. MaxMoves
  BY BoundsAssumption DEF BridgeTypeOK, Moves

\* A transaction that ends is one still, with its end.
LEMMA SentTyped ==
    ASSUME BridgeTypeOK, NEW h \in Hashes, sent[h] # None
    PROVE  sent[h].batch \in SUBSET Rows
           /\ \A how \in Ends : [sent EXCEPT ![h].end = how] \in [Hashes -> SentTx \cup {None}]
<1>1. sent \in [Hashes -> SentTx \cup {None}] /\ sent[h] \in SentTx
  BY DEF BridgeTypeOK
<1>2. \A how \in Ends : [sent[h] EXCEPT !.end = how] \in SentTx
  BY <1>1 DEF SentTx
<1>. QED  BY <1>1, <1>2 DEF SentTx

\* What the chain and others do keeps the types.
LEMMA ChainTyped == ASSUME BridgeTypeOK, ChainStep PROVE BridgeTypeOK'
<1>1. ASSUME NEW batch \in SUBSET Rows, OtherClaim(batch)
      PROVE  BridgeTypeOK'
  <2>1. /\ Accepts(batch) /\ Pay(batch, Someone) /\ Moves
        /\ UNCHANGED <<sent, queryVars, cardVars>>
    BY <1>1 DEF OtherClaim
  <2>. QED  BY <2>1, PayTyped, MovesCount DEF BridgeTypeOK, queryVars, cardVars
<1>2. ASSUME NEW a \in Assets, TokenMoves(a)
      PROVE  BridgeTypeOK'
  <2>1. moves' \in 0 .. MaxMoves
    BY <1>2, MovesCount DEF TokenMoves
  <2>. QED  BY <1>2, <2>1 DEF BridgeTypeOK, TokenMoves, queryVars, cardVars
<1>3. ASSUME NEW a \in Assets, NEW n \in 0 .. MaxFunds, SafeMoves(a, n)
      PROVE  BridgeTypeOK'
  <2>1. moves' \in 0 .. MaxMoves
    BY <1>3, MovesCount DEF SafeMoves
  <2>2. available' \in Amounts
    BY <1>3 DEF BridgeTypeOK, SafeMoves, Amounts
  <2>. QED  BY <1>3, <2>1, <2>2 DEF BridgeTypeOK, SafeMoves, queryVars, cardVars
<1>4. ASSUME NEW h \in Hashes, NEW how \in {"included", "repriced"}, Include(h, how)
      PROVE  BridgeTypeOK'
  <2>1. /\ sent[h].batch \in SUBSET Rows
        /\ sent' \in [Hashes -> SentTx \cup {None}]
    <3>1. /\ sent[h] # None /\ how \in Ends /\ "reverted" \in Ends
          /\ \E end \in {how, "reverted"} : sent' = [sent EXCEPT ![h].end = end]
      BY <1>4 DEF Include, Ends
    <3>. QED  BY <3>1, SentTyped
  <2>2. /\ code' = code /\ refusing' = refusing
        /\ payer' \in [Rows -> Hashes \cup {Someone, None}]
        /\ available' \in Amounts
    <3>1. CASE Accepts(sent[h].batch)
      BY <1>4, <2>1, <3>1, PayTyped DEF Include
    <3>2. CASE ~Accepts(sent[h].batch)
      BY <1>4, <3>2 DEF Include, chainVars, BridgeTypeOK
    <3>. QED  BY <3>1, <3>2
  <2>. QED  BY <1>4, <2>1, <2>2 DEF BridgeTypeOK, Include, queryVars, cardVars
<1>5. ASSUME NEW h \in Hashes, NEW how \in {"cancelled", "replaced"}, NEW batch \in SUBSET Rows,
             Replace(h, how, batch)
      PROVE  BridgeTypeOK'
  <2>1. sent' \in [Hashes -> SentTx \cup {None}]
    BY <1>5, SentTyped DEF Replace, Ends
  <2>2. /\ Accepts(batch) /\ Pay(batch, h) /\ Moves
        /\ UNCHANGED <<queryVars, cardVars>>
    BY <1>5 DEF Replace
  <2>. QED  BY <2>1, <2>2, PayTyped, MovesCount DEF BridgeTypeOK, queryVars, cardVars
<1>. QED  BY <1>1, <1>2, <1>3, <1>4, <1>5 DEF ChainStep

\* What the card holds has its types.
CardTyped ==
    /\ read \in ReadState
    /\ view \in View \cup {None}
    /\ stale \in BOOLEAN
    /\ refused \in SUBSET Rows
    /\ check \in Check
    /\ tx \in ClaimTx

\* Of the card: its reading of the unpaid rows,
LEMMA ReadTyped ==
    ASSUME BridgeTypeOK, StartRead \/ ReadStep \/ FailRead
    PROVE  /\ CardTyped'
           /\ UNCHANGED <<chainVars, sent>> /\ (moves' = moves \/ Moves)
<1>. USE DEF cardVars, CardTyped
<1>1. NoRead \in ReadState /\ (\A s \in {"none", "calls"} : [NoRead EXCEPT !.step = s] \in ReadState)
  BY DEF NoRead, ReadState
<1>2. CASE StartRead
  <2>1. [code |-> code, claimed |-> {}, available |-> [a \in Assets |-> 0]] \in View
    BY BoundsAssumption DEF BridgeTypeOK, View, Amounts
  <2>. QED  BY <1>1, <1>2, <2>1 DEF StartRead, BridgeTypeOK
<1>3. CASE ReadClaimed
  <2>1. Claimed \in SUBSET Rows
    BY DEF Claimed
  <2>2. read' \in ReadState
    BY <1>3, <2>1 DEF ReadClaimed, BridgeTypeOK, ReadState
  <2>. QED  BY <1>3, <2>2 DEF ReadClaimed, BridgeTypeOK
<1>4. CASE ReadAvailable
  <2>1. read' \in ReadState
    BY <1>4 DEF ReadAvailable, BridgeTypeOK, ReadState
  <2>. QED  BY <1>4, <2>1 DEF ReadAvailable, BridgeTypeOK
<1>5. CASE FinishRead
  <2>1. view' \in View
    BY <1>5 DEF FinishRead, BridgeTypeOK, ReadState, View
  <2>. QED  BY <1>1, <1>5, <2>1 DEF FinishRead, BridgeTypeOK
<1>6. CASE FailRead
  BY <1>1, <1>6 DEF FailRead, BridgeTypeOK
<1>. QED  BY <1>2, <1>3, <1>4, <1>5, <1>6 DEF ReadStep

\* its check of the rows that are chosen,
LEMMA CheckTyped ==
    ASSUME BridgeTypeOK, Claim \/ CheckStep \/ FailSimulation
    PROVE  /\ CardTyped'
           /\ UNCHANGED <<chainVars, sent>> /\ (moves' = moves \/ Moves)
<1>. USE DEF queryVars, CardTyped
<1>1. /\ check \in Check /\ tx \in ClaimTx /\ refused \in SUBSET Rows
      /\ tx.batch \in SUBSET Rows /\ check.todo \in SUBSET Rows /\ check.failed \in SUBSET Rows
  BY DEF BridgeTypeOK, Check, ClaimTx
<1>2. /\ NoCheck \in Check
      /\ \A phase \in Phases : [tx EXCEPT !.phase = phase] \in ClaimTx
      /\ \A phase \in Phases, batch \in SUBSET Rows :
            [IdleTx EXCEPT !.phase = phase, !.batch = batch] \in ClaimTx
  BY <1>1 DEF NoCheck, Check, ClaimTx, IdleTx
<1>3. ASSUME Failed(None, FALSE)
      PROVE  tx' \in ClaimTx
  BY <1>1, <1>3 DEF Failed, ClaimTx, Phases
<1>4. ASSUME NEW rows \in SUBSET Rows, Refuse(rows)
      PROVE  refused' \in SUBSET Rows /\ tx' \in ClaimTx /\ check' \in Check
  BY <1>1, <1>2, <1>4 DEF Refuse, Phases
<1>5. CASE Claim
  <2>1. Payable \in SUBSET Rows
    BY DEF Payable, PayableRows
  <2>2. [NoCheck EXCEPT !.step = "batch"] \in Check
    BY DEF NoCheck, Check
  <2>. QED  BY <1>2, <1>5, <2>1, <2>2 DEF Claim, BridgeTypeOK, Phases
<1>6. CASE SimulateBatch
  <2>1. [check EXCEPT !.step = "alone", !.todo = tx.batch] \in Check
    BY <1>1 DEF Check
  <2>2. CASE Accepts(tx.batch)
    BY <1>2, <1>6, <2>2 DEF SimulateBatch, BridgeTypeOK, Phases
  <2>3. CASE ~Accepts(tx.batch) /\ Cardinality(tx.batch) = 1
    BY <1>1, <1>4, <1>6, <2>3 DEF SimulateBatch, BridgeTypeOK
  <2>4. CASE ~Accepts(tx.batch) /\ Cardinality(tx.batch) # 1
    BY <1>1, <1>6, <2>1, <2>4 DEF SimulateBatch, BridgeTypeOK
  <2>. QED  BY <2>2, <2>3, <2>4
<1>7. ASSUME NEW r \in Rows, SimulateRow(r)
      PROVE  /\ CardTyped'
             /\ UNCHANGED <<chainVars, sent>> /\ (moves' = moves \/ Moves)
  <2>1. check' \in Check
    BY <1>1, <1>7 DEF SimulateRow, Check
  <2>. QED  BY <1>7, <2>1 DEF SimulateRow, BridgeTypeOK
<1>8. CASE FinishAlone
  <2>1. [check EXCEPT !.step = "left"] \in Check
    BY <1>1 DEF Check
  <2>2. CASE check.rpc
    BY <1>1, <1>2, <1>3, <1>8, <2>2 DEF FinishAlone, BridgeTypeOK
  <2>3. CASE ~check.rpc /\ check.failed = tx.batch
    BY <1>1, <1>4, <1>8, <2>3 DEF FinishAlone, BridgeTypeOK
  <2>4. CASE ~check.rpc /\ check.failed # tx.batch
    BY <1>1, <1>8, <2>1, <2>4 DEF FinishAlone, BridgeTypeOK
  <2>. QED  BY <2>2, <2>3, <2>4
<1>9. CASE SimulateLeft
  <2>2. CASE ~Accepts(tx.batch \ check.failed)
    BY <1>1, <1>2, <1>3, <1>9, <2>2 DEF SimulateLeft, BridgeTypeOK
  <2>3. CASE Accepts(tx.batch \ check.failed) /\ check.failed # {}
    BY <1>1, <1>4, <1>9, <2>3 DEF SimulateLeft, BridgeTypeOK
  <2>4. CASE Accepts(tx.batch \ check.failed) /\ check.failed = {}
    BY <1>1, <1>2, <1>9, <2>4 DEF SimulateLeft, BridgeTypeOK, Phases
  <2>. QED  BY <2>2, <2>3, <2>4
<1>10. CASE FailSimulation
  <2>1. CASE check.step = "alone"
    <3>1. check' \in Check /\ tx' = tx
      BY <1>1, <1>10, <2>1 DEF FailSimulation, Check
    <3>. QED  BY <1>10, <3>1 DEF FailSimulation, BridgeTypeOK
  <2>2. CASE check.step # "alone"
    BY <1>2, <1>3, <1>10, <2>2 DEF FailSimulation, BridgeTypeOK
  <2>. QED  BY <2>1, <2>2
<1>. QED  BY <1>5, <1>6, <1>7, <1>8, <1>9, <1>10 DEF CheckStep

\* and the claim, from the wallet to its end.
LEMMA FollowTyped ==
    ASSUME BridgeTypeOK,
           (\E h \in Hashes : Send(h)) \/ Reject \/ Receipt \/ StopWaiting \/ CheckAgain \/ LookAway
    PROVE  /\ CardTyped' /\ sent' \in [Hashes -> SentTx \cup {None}]
           /\ UNCHANGED chainVars /\ (moves' = moves \/ Moves)
<1>. USE DEF CardTyped
<1>1. /\ sent \in [Hashes -> SentTx \cup {None}] /\ tx \in ClaimTx
      /\ tx.batch \in SUBSET Rows /\ tx.hash \in Hashes \cup {None}
  BY DEF BridgeTypeOK, ClaimTx
<1>2. NoRead \in ReadState /\ NoCheck \in Check /\ IdleTx \in ClaimTx
  BY DEF NoRead, ReadState, NoCheck, Check, IdleTx, ClaimTx, Phases
<1>3. \A h \in Hashes : [sent EXCEPT ![h] = [batch |-> tx.batch, end |-> "open"]]
                          \in [Hashes -> SentTx \cup {None}]
  BY <1>1 DEF SentTx, Ends
<1>4. ASSUME NEW retry \in BOOLEAN, NEW h \in Hashes \cup {None}, Failed(h, retry)
      PROVE  tx' \in ClaimTx
  BY <1>1, <1>4 DEF Failed, ClaimTx, Phases
<1>5. ASSUME Invalidate
      PROVE  read' \in ReadState /\ view' \in View \cup {None} /\ stale' \in BOOLEAN
  BY <1>2, <1>5 DEF Invalidate, BridgeTypeOK
<1>6. ASSUME NEW h \in Hashes, Send(h)
      PROVE  /\ CardTyped' /\ sent' \in [Hashes -> SentTx \cup {None}]
             /\ UNCHANGED chainVars /\ (moves' = moves \/ Moves)
  <2>1. tx' \in ClaimTx
    BY <1>1, <1>6 DEF Send, ClaimTx, Phases
  <2>. QED  BY <1>3, <1>6, <2>1 DEF Send, BridgeTypeOK, queryVars
<1>7. CASE Reject
  BY <1>1, <1>3, <1>4, <1>5, <1>7 DEF Reject, LeftToWallet, BridgeTypeOK
<1>8. CASE Receipt
  <2>1. tx' \in ClaimTx
    <3>. DEFINE counted == ClaimedIndexes(tx.hash) \cap tx.batch
    <3>1. counted \in SUBSET Rows
      BY <1>1
    <3>2. [tx EXCEPT !.phase = "done", !.paid = counted] \in ClaimTx
      BY <1>1, <3>1 DEF ClaimTx, Phases
    <3>. QED  BY <1>1, <1>4, <1>8, <3>2 DEF Receipt
  <2>. QED  BY <1>1, <1>5, <1>8, <2>1 DEF Receipt, BridgeTypeOK
<1>9. CASE StopWaiting
  BY <1>1, <1>4, <1>5, <1>9 DEF StopWaiting, BridgeTypeOK
<1>10. CASE CheckAgain
  <2>1. tx' \in ClaimTx
    BY <1>1, <1>10 DEF CheckAgain, ClaimTx, Phases
  <2>. QED  BY <1>10, <2>1 DEF CheckAgain, BridgeTypeOK, queryVars
<1>11. CASE LookAway
  BY <1>1, <1>2, <1>3, <1>11 DEF LookAway, LeftToWallet, BridgeTypeOK, queryVars
<1>. QED  BY <1>6, <1>7, <1>8, <1>9, <1>10, <1>11

\* So each step of the card keeps them.
LEMMA CardIsTyped == ASSUME BridgeTypeOK, CardStep PROVE BridgeTypeOK'
<1>1. CardTyped' /\ UNCHANGED chainVars /\ sent' \in [Hashes -> SentTx \cup {None}]
      /\ (moves' = moves \/ Moves)
  BY ReadTyped, CheckTyped, FollowTyped DEF CardStep, BridgeTypeOK
<1>2. moves' \in 0 .. MaxMoves
  BY <1>1, MovesCount DEF BridgeTypeOK
<1>. QED  BY <1>1, <1>2 DEF BridgeTypeOK, CardTyped, chainVars

\* The contract never pays more of an asset than it has, and the card's state and
\* every transaction's have their types (claim.ts, BridgePage.tsx).
THEOREM BridgeTyped == ClaimsSpec => []BridgeTypeOK
<1>1. ClaimsInit => BridgeTypeOK
  BY BoundsAssumption
     DEF ClaimsInit, BridgeTypeOK, NoRead, ReadState, NoCheck, Check, IdleTx, ClaimTx, Phases
<1>2. BridgeTypeOK /\ [ClaimsNext]_claimsVars => BridgeTypeOK'
  <2>1. BridgeTypeOK /\ UNCHANGED claimsVars => BridgeTypeOK'
    BY DEF BridgeTypeOK, claimsVars, chainVars, queryVars, cardVars
  <2>. QED  BY <2>1, ChainTyped, CardIsTyped DEF ClaimsNext
<1>. QED  BY <1>1, <1>2, PTL DEF ClaimsSpec

=============================================================================
