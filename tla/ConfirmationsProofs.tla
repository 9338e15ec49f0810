------------------------- MODULE ConfirmationsProofs -------------------------
(***************************************************************************)
(* Theorems about Confirmations, for every set of wallets, requests and    *)
(* versions, any clock and any number of candidate loads.                  *)
(***************************************************************************)
EXTENDS Confirmations, TLAPS

-----------------------------------------------------------------------------
(* What a request has read, by where it is.                                *)

Found == {"confirmation", "select", "again"} \cup InTransaction
Verified == {"select", "again"} \cup InTransaction

RequestOK(q) ==
  /\ q.pc \in Busy => q.address \in Addresses
  /\ q.pc \in Busy /\ q.message # None => q.message.address = q.address
  /\ q.pc \in Found => q.found \in CandidateRow
  /\ q.pc \in Verified => q.message \in Message /\ q.message.version = q.found.version

RequestInv == \A r \in Requests : RequestOK(request[r])

LEMMA IdleOK == Idle \in RequestState /\ RequestOK(Idle) /\ Idle.message = None
  BY DEF Idle, RequestState, RequestOK, Answers, Busy, InTransaction, Found, Verified

\* An answered request is of no concern to the tables any more.
LEMMA AnswerType ==
  ASSUME request \in [Requests -> RequestState], NEW r \in Requests,
         NEW answer \in Answers, Answer(r, answer), RequestInv
  PROVE  /\ request' \in [Requests -> RequestState]
         /\ RequestInv'
         /\ request'[r].pc \notin Busy
         /\ \A q \in Requests \ {r} : request'[q] = request[q]
         /\ request'[r].message = request[r].message
         /\ request[r].message # None => request'[r].answer = answer
<1>. DEFINE new == IF request[r].message = None THEN Idle
                   ELSE [request[r] EXCEPT !.pc = "done", !.answer = answer]
<1>1. request[r] \in RequestState
  OBVIOUS
<1>2. [request[r] EXCEPT !.pc = "done", !.answer = answer] \in RequestState
  BY <1>1 DEF RequestState
<1>3. new \in RequestState /\ new.pc \in {"idle", "done"}
      /\ new.message = request[r].message
      /\ (request[r].message # None => new.answer = answer)
  BY <1>1, <1>2, IdleOK DEF RequestState, Idle
<1>4. RequestOK(new)
  BY <1>3 DEF RequestOK, Busy, InTransaction, Found, Verified
<1>5. request' = [request EXCEPT ![r] = new]
  BY DEF Answer
<1>. HIDE DEF new
<1>6. request'[r] = new /\ \A q \in Requests \ {r} : request'[q] = request[q]
  BY <1>5
<1>7. request' \in [Requests -> RequestState]
  BY <1>3, <1>5
<1>8. RequestInv'
  BY <1>4, <1>6 DEF RequestInv, RequestOK
<1>9. request'[r].pc \notin Busy
  BY <1>3, <1>6 DEF Busy, InTransaction
<1>. QED  BY <1>3, <1>6, <1>7, <1>8, <1>9

\* A step to a place that asks no more of the request than it has.
LEMMA StepType ==
  ASSUME request \in [Requests -> RequestState], NEW r \in Requests,
         NEW pc \in Busy, Step(r, pc), RequestInv,
         request[r].pc \in Busy,
         request[r].found \in CandidateRow, request[r].message \in Message,
         request[r].message.version = request[r].found.version
  PROVE  /\ request' \in [Requests -> RequestState]
         /\ RequestInv'
         /\ request'[r] = [request[r] EXCEPT !.pc = pc]
         /\ \A q \in Requests \ {r} : request'[q] = request[q]
<1>. DEFINE new == [request[r] EXCEPT !.pc = pc]
<1>1. request[r] \in RequestState /\ RequestOK(request[r])
  BY DEF RequestInv
<1>2. /\ new \in RequestState
      /\ new.address = request[r].address /\ new.message = request[r].message
      /\ new.found = request[r].found
  BY <1>1 DEF RequestState
<1>3. RequestOK(new)
  BY <1>1, <1>2 DEF RequestOK
<1>4. request' = [request EXCEPT ![r] = new]
  BY DEF Step
<1>. HIDE DEF new
<1>5. request'[r] = new /\ \A q \in Requests \ {r} : request'[q] = request[q]
  BY <1>4
<1>6. request' \in [Requests -> RequestState]
  BY <1>2, <1>4
<1>7. RequestInv'
  BY <1>3, <1>5 DEF RequestInv, RequestOK
<1>. QED  BY <1>5, <1>6, <1>7 DEF new

-----------------------------------------------------------------------------
(* Type correctness.                                                       *)

TypeInv == TypeOK /\ RequestInv

LEMMA InitType == Init => TypeInv
<1>. SUFFICES ASSUME Init PROVE TypeInv
  OBVIOUS
<1>1. request \in [Requests -> RequestState] /\ RequestInv
  BY IdleOK DEF Init, RequestInv
<1>2. loader \in LoaderState /\ attestation \in AttestationState
  BY DEF Init, LoaderState, AttestationState, NoRows
<1>3. now \in Time /\ loads \in 0..MaxLoads
  BY ConstantsAssumption DEF Init, Time
<1>. QED  BY <1>1, <1>2, <1>3 DEF Init, TypeInv, TypeOK, NoRows

\* A request that arrives.
Refused(q, answer) ==
  /\ [q EXCEPT !.pc = "done", !.answer = answer] \in RequestState
  /\ RequestOK([q EXCEPT !.pc = "done", !.answer = answer])

LEMMA ArriveType ==
  ASSUME TypeInv, NEW r \in Requests
  PROVE  /\ \A a \in Addresses : Ask(r, a) => TypeInv'
         /\ \A m \in challenges, claimed \in Versions \cup {None} :
              Submit(r, m, claimed) => TypeInv'
<1>1. ASSUME NEW a \in Addresses, NEW m \in Message \cup {None},
             NEW claimed \in Versions \cup {None},
             m # None => m.address = a
      PROVE  /\ NewRequest(a, m, claimed) \in RequestState
             /\ RequestOK(NewRequest(a, m, claimed))
             /\ \A answer \in Answers : Refused(NewRequest(a, m, claimed), answer)
  <2>. DEFINE new == NewRequest(a, m, claimed)
  <2>1. /\ new \in RequestState
        /\ new.pc = "candidate" /\ new.address = a /\ new.message = m
    BY IdleOK DEF NewRequest, RequestState, Busy
  <2>. HIDE DEF new
  <2>2. RequestOK(new)
    BY <1>1, <2>1 DEF RequestOK, Found, Verified, InTransaction
  <2>3. ASSUME NEW answer \in Answers
        PROVE  Refused(new, answer)
    BY <2>1 DEF Refused, RequestState, RequestOK, Busy, Found, Verified, InTransaction
  <2>. QED  BY <2>1, <2>2, <2>3 DEF new
<1>2. ASSUME NEW new \in RequestState, RequestOK(new),
             request' = [request EXCEPT ![r] = new],
             UNCHANGED <<now, ledgerVersion, candidates, confirmations,
                         challenges, ownerVars>>
      PROVE  TypeInv'
  BY <1>2 DEF TypeInv, TypeOK, RequestInv, RequestOK, ownerVars
<1>3. ASSUME NEW a \in Addresses, Ask(r, a)
      PROVE  TypeInv'
  BY <1>1, <1>2, <1>3 DEF Ask
<1>4. ASSUME NEW m \in challenges, NEW claimed \in Versions \cup {None},
             Submit(r, m, claimed)
      PROVE  TypeInv'
  <2>1. m \in Message /\ m.address \in Addresses
    BY DEF TypeInv, TypeOK, Message
  <2>2. ClockAnswer(m) \in Answers
    BY DEF ClockAnswer, Answers
  <2>. DEFINE q == NewRequest(m.address, m, claimed)
              new == [q EXCEPT
                        !.pc = IF ClockAnswer(m) = "none" THEN "candidate" ELSE "done",
                        !.answer = ClockAnswer(m)]
  <2>3. q.pc = "candidate" /\ q.answer = "none"
    BY IdleOK DEF NewRequest, RequestState, Idle
  <2>4. q \in RequestState /\ RequestOK(q) /\ Refused(q, ClockAnswer(m))
    BY <1>1, <2>1, <2>2
  <2>. HIDE DEF q
  <2>5. ClockAnswer(m) = "none" => new = q
    BY <2>3, <2>4 DEF RequestState
  <2>6. ClockAnswer(m) # "none" => new = [q EXCEPT !.pc = "done", !.answer = ClockAnswer(m)]
    OBVIOUS
  <2>7. new \in RequestState /\ RequestOK(new)
    BY <2>4, <2>5, <2>6 DEF Refused
  <2>. QED  BY <1>2, <1>4, <2>7 DEF Submit, q
<1>. QED  BY <1>3, <1>4

\* The two reads every request starts with.
LEMMA ReadType ==
  ASSUME TypeInv, NEW r \in Requests
  PROVE  FindCandidate(r) \/ FindConfirmation(r) => TypeInv'
<1>0. /\ request \in [Requests -> RequestState] /\ RequestInv
      /\ request[r] \in RequestState /\ RequestOK(request[r])
      /\ candidates \in [Addresses -> CandidateRow \cup {None}]
      /\ None \notin CandidateRow
  BY ConstantsAssumption DEF TypeInv, TypeOK, RequestInv
<1>1. ASSUME FindCandidate(r)
      PROVE  TypeInv'
  <2>. DEFINE row == candidates[request[r].address]
              found == [request[r] EXCEPT !.pc = "confirmation", !.found = row]
              refused == [request[r] EXCEPT
                            !.pc = "done", !.found = row,
                            !.answer = IF row = None THEN "not_eligible"
                                       ELSE "data_updated"]
  <2>1. row \in CandidateRow \cup {None}
    BY <1>0, <1>1 DEF FindCandidate, RequestOK, Busy
  <2>2. found \in RequestState /\ refused \in RequestState
    BY <1>0, <2>1 DEF RequestState, Busy, Answers
  <2>3. row # None => RequestOK(found)
    BY <1>0, <1>1, <2>1 DEF FindCandidate, RequestOK, RequestState, Busy, Found,
                            Verified, InTransaction
  <2>4. RequestOK(refused)
    BY <1>0 DEF RequestOK, RequestState, Busy, Found, Verified, InTransaction
  <2>5. PICK new \in RequestState : RequestOK(new) /\ request' = [request EXCEPT ![r] = new]
    BY <1>1, <2>2, <2>3, <2>4, IdleOK DEF FindCandidate
  <2>. QED  BY <1>0, <1>1, <2>5
            DEF FindCandidate, TypeInv, TypeOK, RequestInv, RequestOK, ownerVars
<1>2. ASSUME FindConfirmation(r)
      PROVE  TypeInv'
  <2>. DEFINE rows == ConfirmationOf(request[r].address, request[r].found.version)
  <2>0. /\ request[r].pc = "confirmation" /\ request[r].pc \in Busy
        /\ request[r].address \in Addresses /\ request[r].found \in CandidateRow
    BY <1>0, <1>2 DEF FindConfirmation, RequestOK, Busy, Found
  <2>1. CASE ChallengeConfirmation(r, rows)
    <3>1. request' \in [Requests -> RequestState] /\ RequestInv'
      BY <1>0, <2>1, AnswerType DEF ChallengeConfirmation, Answers
    <3>2. \A nonce \in Nonces :
            MessageFor(request[r].address, request[r].found, now, nonce) \in Message
      BY <2>0 DEF MessageFor, Message, CandidateRow, TypeInv, TypeOK
    <3>3. challenges' \subseteq Message
      BY <2>1, <3>2 DEF ChallengeConfirmation, TypeInv, TypeOK
    <3>. QED  BY <1>2, <3>1, <3>3 DEF FindConfirmation, TypeInv, TypeOK, ownerVars
  <2>2. CASE SubmitConfirmation(r, rows)
    <3>1. request[r].message \in Message
      BY <1>0, <2>2 DEF SubmitConfirmation, RequestState
    <3>2. request' \in [Requests -> RequestState] /\ RequestInv'
      <4>1. CASE \E row \in rows : Replay(r, row)
        <5>1. \E answer \in Answers : Answer(r, answer)
          BY <4>1 DEF Replay, Answers
        <5>. QED  BY <1>0, <5>1, AnswerType
      <4>2. CASE /\ request[r].message = MessageFor(request[r].address, request[r].found,
                                  request[r].message.issuedAt, request[r].message.nonce)
                 /\ Step(r, "select")
        <5>1. request[r].message.version = request[r].found.version
          BY <4>2 DEF MessageFor
        <5>. QED  BY <1>0, <2>0, <3>1, <4>2, <5>1, StepType DEF Busy
      <4>3. CASE Answer(r, "bad_signature")
        BY <1>0, <4>3, AnswerType DEF Answers
      <4>. QED  BY <2>2, <4>1, <4>2, <4>3 DEF SubmitConfirmation
    <3>. QED  BY <1>2, <2>2, <3>2
              DEF FindConfirmation, SubmitConfirmation, TypeInv, TypeOK, ownerVars
  <2>. QED  BY <1>2, <2>1, <2>2 DEF FindConfirmation
<1>. QED  BY <1>1, <1>2

\* The row a transaction is about to commit.
LEMMA NewConfirmationType ==
  ASSUME TypeInv, NEW r \in Requests, request[r].pc = "commit"
  PROVE  NewConfirmation(r) \in ConfirmationRow
  BY DEF TypeInv, TypeOK, RequestInv, RequestOK, NewConfirmation, ConfirmationRow,
         CandidateRow, Busy, Found, Verified, InTransaction

\* The transaction of insertConfirmation, and what ends a request.
LEMMA InsertType ==
  ASSUME TypeInv, NEW r \in Requests
  PROVE  InsertSelect(r) \/ InsertRow(r) \/ InsertCommit(r) \/ FindAgain(r) \/ Fail(r)
           => TypeInv'
<1>0. /\ request \in [Requests -> RequestState] /\ RequestInv
      /\ request[r] \in RequestState /\ RequestOK(request[r])
  BY DEF TypeInv, TypeOK, RequestInv
<1>1. ASSUME request' \in [Requests -> RequestState] /\ RequestInv',
             confirmations' \subseteq ConfirmationRow,
             UNCHANGED <<now, ledgerVersion, candidates, challenges, ownerVars>>
      PROVE  TypeInv'
  BY <1>1 DEF TypeInv, TypeOK, ownerVars
<1>2. confirmations \subseteq ConfirmationRow
  BY DEF TypeInv, TypeOK
<1>3. ASSUME NEW pc \in Busy, request[r].pc \in Verified, Step(r, pc)
      PROVE  request' \in [Requests -> RequestState] /\ RequestInv'
  BY <1>0, <1>3, StepType DEF RequestOK, Busy, Found, Verified, InTransaction
<1>4. ASSUME NEW answer \in Answers, Answer(r, answer)
      PROVE  request' \in [Requests -> RequestState] /\ RequestInv'
  BY <1>0, <1>4, AnswerType
<1>5. CASE InsertSelect(r)
  BY <1>1, <1>2, <1>3, <1>4, <1>5
     DEF InsertSelect, Busy, Verified, InTransaction, Answers
<1>6. CASE InsertRow(r)
  BY <1>1, <1>2, <1>3, <1>6 DEF InsertRow, Busy, Verified, InTransaction
<1>7. CASE InsertCommit(r)
  <2>1. confirmations' \subseteq ConfirmationRow
    BY <1>2, <1>7, NewConfirmationType DEF InsertCommit
  <2>. QED  BY <1>1, <1>4, <1>7, <2>1 DEF InsertCommit, Answers
<1>8. CASE FindAgain(r)
  <2>1. \E answer \in Answers : Answer(r, answer)
    BY <1>8 DEF FindAgain, Replay, Answers
  <2>. QED  BY <1>1, <1>2, <1>4, <1>8, <2>1 DEF FindAgain
<1>9. CASE Fail(r)
  <2>1. confirmations' \subseteq ConfirmationRow
    BY <1>2, <1>9, NewConfirmationType DEF Fail
  <2>. QED  BY <1>1, <1>4, <1>9, <2>1 DEF Fail, Answers
<1>. QED  BY <1>5, <1>6, <1>7, <1>8, <1>9

\* The owner's commands, the clock and the ledger.
LEMMA OwnerType ==
  ASSUME TypeInv
  PROVE  /\ \A v \in Versions, cutoff \in Cutoffs : SelectCandidates(v, cutoff) => TypeInv'
         /\ LoaderStep => TypeInv'
         /\ \A v \in Versions : InjectLedger(v) => TypeInv'
         /\ \A wallets \in SUBSET Attestable : ReadCandidates(wallets) => TypeInv'
         /\ AttestationStep => TypeInv'
         /\ Tick => TypeInv'
<1>. USE DEF TypeInv, TypeOK
<1>0. /\ NoRows \in [Addresses -> CandidateRow \cup {None}]
      /\ [pc |-> "idle", rows |-> NoRows] \in LoaderState
      /\ [pc |-> "idle", rows |-> {}] \in AttestationState
  BY DEF NoRows, LoaderState, AttestationState
<1>1. ASSUME NEW v \in Versions, NEW cutoff \in Cutoffs, SelectCandidates(v, cutoff)
      PROVE  TypeInv'
  <2>1. PICK chosen \in SUBSET DeferredIn[v] : \E reason \in [chosen -> Reasons] :
          loader' = [pc |-> "selected",
                     rows |-> [a \in Addresses |->
                                 IF a \in chosen
                                 THEN [version |-> v, cutoff |-> cutoff,
                                       reason |-> reason[a]]
                                 ELSE None]]
    BY <1>1 DEF SelectCandidates
  <2>2. loader' \in LoaderState
    BY <2>1 DEF LoaderState, CandidateRow
  <2>3. loads' \in 0..MaxLoads
    BY <1>1, ConstantsAssumption DEF SelectCandidates
  <2>. QED  BY <1>1, <2>2, <2>3 DEF SelectCandidates, apiVars, RequestInv
<1>2. ASSUME LoaderStep
      PROVE  TypeInv'
  <2>1. CASE AskTruncate \/ TruncateCandidates
    <3>1. loader' \in LoaderState
      BY <2>1 DEF AskTruncate, TruncateCandidates, LoaderState
    <3>. QED  BY <2>1, <3>1 DEF AskTruncate, TruncateCandidates, apiVars, RequestInv
  <2>2. CASE CommitLoad
    <3>1. loader' \in LoaderState /\ candidates' \in [Addresses -> CandidateRow \cup {None}]
      BY <1>0, <2>2 DEF CommitLoad, LoaderState
    <3>2. ASSUME NEW q \in Requests
          PROVE  request'[q] \in RequestState /\ RequestOK(request'[q])
      <4>1. request[q] \in RequestState /\ RequestOK(request[q])
        BY DEF RequestInv
      <4>2. request'[q] = [request[q] EXCEPT !.reloaded = TRUE] \/ request'[q] = request[q]
        BY <2>2 DEF CommitLoad
      <4>. QED  BY <4>1, <4>2 DEF RequestState, RequestOK
    <3>3. request' \in [Requests -> RequestState] /\ RequestInv'
      BY <2>2, <3>2 DEF CommitLoad, RequestInv, RequestOK
    <3>. QED  BY <2>2, <3>1, <3>3 DEF CommitLoad
  <2>3. CASE FailLoad
    BY <1>0, <2>3 DEF FailLoad, apiVars, RequestInv
  <2>. QED  BY <1>2, <2>1, <2>2, <2>3 DEF LoaderStep
<1>3. ASSUME NEW v \in Versions, InjectLedger(v)
      PROVE  TypeInv'
  BY <1>3 DEF InjectLedger, apiVars, ownerVars, RequestInv
<1>4. ASSUME NEW wallets \in SUBSET Attestable, ReadCandidates(wallets)
      PROVE  TypeInv'
  <2>1. \A a \in wallets : a \in Addresses /\ candidates[a] \in CandidateRow
    BY <1>4, ConstantsAssumption DEF ReadCandidates
  <2>2. attestation' \in AttestationState
    BY <1>4, <2>1 DEF ReadCandidates, AttestationState, PlanRow, CandidateRow
  <2>. QED  BY <1>4, <2>2 DEF ReadCandidates, apiVars, RequestInv
<1>5. ASSUME AttestationStep
      PROVE  TypeInv'
  <2>1. CASE PlanAttestation \/ CheckPlan \/ InsertPlan
    <3>1. attestation' \in AttestationState
      BY <2>1 DEF PlanAttestation, CheckPlan, InsertPlan, AttestationState
    <3>. QED  BY <2>1, <3>1 DEF PlanAttestation, CheckPlan, InsertPlan, apiVars, RequestInv
  <2>2. CASE CommitPlan
    <3>1. \A row \in attestation.rows : AttestedRow(row) \in ConfirmationRow
      BY DEF AttestationState, AttestedRow, PlanRow, ConfirmationRow
    <3>. QED  BY <1>0, <2>2, <3>1 DEF CommitPlan, apiVars, RequestInv
  <2>3. CASE StopAttestation
    BY <1>0, <2>3 DEF StopAttestation, apiVars, RequestInv
  <2>. QED  BY <1>5, <2>1, <2>2, <2>3 DEF AttestationStep
<1>6. ASSUME Tick
      PROVE  TypeInv'
  BY <1>6 DEF Tick, apiVars, ownerVars, RequestInv
<1>. QED  BY <1>1, <1>2, <1>3, <1>4, <1>5, <1>6

LEMMA NextType == TypeInv /\ [Next]_vars => TypeInv'
<1>. SUFFICES ASSUME TypeInv, [Next]_vars PROVE TypeInv'
  OBVIOUS
<1>1. CASE UNCHANGED vars
  BY <1>1 DEF vars, TypeInv, TypeOK, RequestInv
<1>2. CASE \E r \in Requests :
             \/ \E a \in Addresses : Ask(r, a)
             \/ \E m \in challenges : \E claimed \in Versions \cup {None} :
                  Submit(r, m, claimed)
             \/ RequestStep(r)
  BY <1>2, ArriveType, ReadType, InsertType DEF RequestStep
<1>. QED  BY <1>1, <1>2, OwnerType DEF Next

-----------------------------------------------------------------------------
(* What a request's step can do to the tables and to other requests.       *)

Arrives(r) ==
  \/ \E a \in Addresses : Ask(r, a)
  \/ \E m \in challenges : \E claimed \in Versions \cup {None} : Submit(r, m, claimed)

\* It is, or ends, outside a transaction; perhaps with its row committed.
Leaves(r) ==
  /\ request'[r].pc \notin InTransaction
  /\ \/ UNCHANGED confirmations
     \/ /\ request[r].pc = "commit"
        /\ confirmations' = confirmations \cup {NewConfirmation(r)}

\* It opens its transaction on the candidate row it read before.
Enters(r) ==
  /\ request[r].pc = "select" /\ Readable
  /\ candidates[request[r].address] # None
  /\ candidates[request[r].address].version = request[r].found.version
  /\ request'[r] = [request[r] EXCEPT !.pc = "insert"]
  /\ UNCHANGED confirmations

\* It inserts its row under a key nobody has.
Inserts(r) ==
  /\ request[r].pc = "insert"
  /\ KeyFree(request[r].address, request[r].found.version)
  /\ ConfirmationOf(request[r].address, request[r].found.version) = {}
  /\ request'[r] = [request[r] EXCEPT !.pc = "commit"]
  /\ UNCHANGED confirmations

LEMMA RequestMoves ==
  ASSUME TypeInv, NEW r \in Requests, Arrives(r) \/ RequestStep(r)
  PROVE  /\ UNCHANGED <<candidates, loader, attestation>>
         /\ \A q \in Requests \ {r} : request'[q] = request[q]
         /\ Leaves(r) \/ Enters(r) \/ Inserts(r)
<1>. USE DEF InTransaction
<1>0. request \in [Requests -> RequestState] /\ RequestInv
  BY DEF TypeInv, TypeOK
<1>1. ASSUME NEW answer \in Answers, Answer(r, answer)
      PROVE  /\ request'[r].pc \notin InTransaction
             /\ \A q \in Requests \ {r} : request'[q] = request[q]
  BY <1>0, <1>1, AnswerType DEF Busy
<1>2. ASSUME NEW pc, Step(r, pc)
      PROVE  /\ request'[r] = [request[r] EXCEPT !.pc = pc]
             /\ request'[r].pc = pc
             /\ \A q \in Requests \ {r} : request'[q] = request[q]
  <2>1. /\ request'[r] = [request[r] EXCEPT !.pc = pc]
        /\ \A q \in Requests \ {r} : request'[q] = request[q]
    BY <1>0, <1>2 DEF Step
  <2>. QED  BY <1>0, <2>1 DEF RequestState
<1>3. CASE Arrives(r)
  <2>1. /\ \A a, m, claimed : NewRequest(a, m, claimed).pc = "candidate"
        /\ \A a, m, claimed, pc, answer :
             [NewRequest(a, m, claimed) EXCEPT !.pc = pc, !.answer = answer].pc = pc
    BY IdleOK DEF NewRequest, RequestState
  <2>2. PICK new : request' = [request EXCEPT ![r] = new] /\ new.pc \notin InTransaction
    <3>1. CASE \E a \in Addresses : Ask(r, a)
      <4>1. PICK a \in Addresses : Ask(r, a)
        BY <3>1
      <4>2. request' = [request EXCEPT ![r] = NewRequest(a, None, None)]
        BY <4>1 DEF Ask
      <4>. QED  BY <2>1, <4>2
    <3>2. CASE \E m \in challenges : \E claimed \in Versions \cup {None} : Submit(r, m, claimed)
      <4>1. PICK m \in challenges, claimed \in Versions \cup {None} : Submit(r, m, claimed)
        BY <3>2
      <4>. DEFINE pc == IF ClockAnswer(m) = "none" THEN "candidate" ELSE "done"
                  new == [NewRequest(m.address, m, claimed) EXCEPT
                            !.pc = pc, !.answer = ClockAnswer(m)]
      <4>2. request' = [request EXCEPT ![r] = new]
        BY <4>1 DEF Submit
      <4>3. new.pc = pc /\ pc \notin InTransaction
        BY <2>1
      <4>. QED  BY <4>2, <4>3
    <3>. QED  BY <1>3, <3>1, <3>2 DEF Arrives
  <2>. QED  BY <1>0, <1>3, <2>2 DEF Arrives, Ask, Submit, Leaves, ownerVars
<1>4. CASE FindCandidate(r)
  <2>1. PICK new : request' = [request EXCEPT ![r] = new] /\ new.pc \notin InTransaction
    <3>. DEFINE row == candidates[request[r].address]
                found == [request[r] EXCEPT !.pc = "confirmation", !.found = row]
                refused == [request[r] EXCEPT
                              !.pc = "done", !.found = row,
                              !.answer = IF row = None THEN "not_eligible"
                                         ELSE "data_updated"]
    <3>1. request[r] \in RequestState
      BY <1>0
    <3>2. found.pc = "confirmation" /\ refused.pc = "done" /\ Idle.pc = "idle"
      BY <3>1 DEF RequestState, Idle
    <3>3. \/ request' = [request EXCEPT ![r] = found]
          \/ request' = [request EXCEPT ![r] = refused]
          \/ request' = [request EXCEPT ![r] = Idle]
      BY <1>4 DEF FindCandidate
    <3>. HIDE DEF found, refused
    <3>. QED  BY <3>2, <3>3
  <2>. QED  BY <1>0, <1>4, <2>1 DEF FindCandidate, Leaves, ownerVars
<1>5. CASE FindConfirmation(r)
  <2>1. \/ \E answer \in Answers : Answer(r, answer)
        \/ Step(r, "select")
    BY <1>5 DEF FindConfirmation, ChallengeConfirmation, SubmitConfirmation,
                Replay, Answers
  <2>2. /\ request'[r].pc \notin InTransaction
        /\ \A q \in Requests \ {r} : request'[q] = request[q]
    <3>1. CASE \E answer \in Answers : Answer(r, answer)
      BY <1>1, <3>1
    <3>2. CASE Step(r, "select")
      <4>1. request'[r].pc = "select" /\ \A q \in Requests \ {r} : request'[q] = request[q]
        BY <1>2, <3>2
      <4>. QED  BY <4>1
    <3>. QED  BY <2>1, <3>1, <3>2
  <2>. QED  BY <1>5, <2>2 DEF FindConfirmation, Leaves, ownerVars
<1>6. CASE InsertSelect(r)
  <2>1. CASE Step(r, "insert") /\ candidates[request[r].address] # None
             /\ candidates[request[r].address].version = request[r].found.version
    BY <1>2, <1>6, <2>1 DEF InsertSelect, Enters, ownerVars
  <2>2. CASE Answer(r, "data_updated")
    BY <1>1, <1>6, <2>2 DEF InsertSelect, Leaves, ownerVars, Answers
  <2>. QED  BY <1>6, <2>1, <2>2 DEF InsertSelect
<1>7. CASE InsertRow(r)
  <2>1. \/ /\ Step(r, "commit")
           /\ ConfirmationOf(request[r].address, request[r].found.version) = {}
        \/ Step(r, "again")
    BY <1>7 DEF InsertRow
  <2>2. CASE /\ Step(r, "commit")
             /\ ConfirmationOf(request[r].address, request[r].found.version) = {}
    BY <1>2, <1>7, <2>2 DEF InsertRow, Inserts, ownerVars
  <2>3. CASE Step(r, "again")
    <3>1. request'[r].pc = "again" /\ \A q \in Requests \ {r} : request'[q] = request[q]
      BY <1>2, <2>3
    <3>. QED  BY <1>7, <3>1 DEF InsertRow, Leaves, ownerVars
  <2>. QED  BY <2>1, <2>2, <2>3
<1>8. CASE InsertCommit(r)
  BY <1>1, <1>8 DEF InsertCommit, Leaves, ownerVars, Answers
<1>9. CASE FindAgain(r)
  <2>1. \E answer \in Answers : Answer(r, answer)
    BY <1>9 DEF FindAgain, Replay, Answers
  <2>. QED  BY <1>1, <1>9, <2>1 DEF FindAgain, Leaves, ownerVars
<1>10. CASE Fail(r)
  BY <1>1, <1>10 DEF Fail, Leaves, ownerVars, Answers
<1>. QED  BY <1>3, <1>4, <1>5, <1>6, <1>7, <1>8, <1>9, <1>10 DEF RequestStep

-----------------------------------------------------------------------------
(* Inside a transaction the candidate row it looked at stays as it was.    *)

LoadedAs(a, v) == candidates[a] # None /\ candidates[a].version = v

LockInv ==
  /\ \A r \in Requests : request[r].pc \in InTransaction =>
       /\ loader.pc # "truncated"
       /\ LoadedAs(request[r].address, request[r].found.version)
  /\ attestation.pc \in {"checked", "inserted"} =>
       /\ loader.pc # "truncated"
       /\ \A row \in attestation.rows :
            /\ LoadedAs(row.address, row.version)
            /\ candidates[row.address].reason = row.reason

LEMMA InitLock == Init => LockInv
  BY DEF Init, LockInv, Idle, InTransaction

LEMMA NextLock == TypeInv /\ LockInv /\ [Next]_vars => LockInv'
<1>. SUFFICES ASSUME TypeInv, LockInv, [Next]_vars PROVE LockInv'
  OBVIOUS
<1>. USE DEF LockInv, LoadedAs
<1>1. ASSUME NEW r \in Requests, Arrives(r) \/ RequestStep(r)
      PROVE  LockInv'
  <2>1. /\ UNCHANGED <<candidates, loader, attestation>>
        /\ \A q \in Requests \ {r} : request'[q] = request[q]
        /\ Leaves(r) \/ Enters(r) \/ Inserts(r)
    BY <1>1, RequestMoves
  <2>2. request'[r].pc \in InTransaction =>
          /\ loader.pc # "truncated"
          /\ LoadedAs(request'[r].address, request'[r].found.version)
    <3>1. request[r] \in RequestState
      BY DEF TypeInv, TypeOK
    <3>. QED  BY <2>1, <3>1
              DEF Leaves, Enters, Inserts, Readable, RequestState, InTransaction
  <2>. QED  BY <2>1, <2>2
<1>2. ASSUME \/ \E v \in Versions, cutoff \in Cutoffs : SelectCandidates(v, cutoff)
             \/ AskTruncate \/ FailLoad
             \/ \E v \in Versions : InjectLedger(v)
             \/ Tick
             \/ UNCHANGED vars
      PROVE  LockInv'
  <2>1. loader' # loader => loader'.pc # "truncated"
    BY <1>2 DEF SelectCandidates, AskTruncate, FailLoad, InjectLedger, Tick, vars,
                ownerVars, TypeInv, TypeOK, LoaderState
  <2>2. UNCHANGED <<candidates, request, attestation>>
    BY <1>2 DEF SelectCandidates, AskTruncate, FailLoad, InjectLedger, Tick, vars,
                apiVars, ownerVars
  <2>. QED  BY <2>1, <2>2
<1>3. ASSUME TruncateCandidates
      PROVE  LockInv'
  BY <1>3 DEF TruncateCandidates, Unshared, apiVars
<1>4. ASSUME CommitLoad
      PROVE  LockInv'
  <2>1. \A r \in Requests : request[r].pc \notin InTransaction
    BY <1>4 DEF CommitLoad
  <2>2. \A r \in Requests : request'[r].pc = request[r].pc
    BY <1>4 DEF CommitLoad, TypeInv, TypeOK, RequestState
  <2>3. attestation'.pc \notin {"checked", "inserted"}
    BY <1>4 DEF CommitLoad
  <2>. QED  BY <2>1, <2>2, <2>3
<1>5. ASSUME \/ \E wallets \in SUBSET Attestable : ReadCandidates(wallets)
             \/ AttestationStep
      PROVE  LockInv'
  <2>1. UNCHANGED <<candidates, request, loader>>
    BY <1>5 DEF ReadCandidates, AttestationStep, PlanAttestation, CheckPlan, InsertPlan,
                CommitPlan, StopAttestation, apiVars
  <2>2. attestation'.pc \in {"checked", "inserted"} =>
          \/ attestation'.rows = attestation.rows /\ attestation.pc = "checked"
          \/ attestation'.rows = attestation.rows /\ CheckPlan
    BY <1>5 DEF ReadCandidates, AttestationStep, PlanAttestation, CheckPlan, InsertPlan,
                CommitPlan, StopAttestation, TypeInv, TypeOK, AttestationState
  <2>3. CheckPlan => /\ loader.pc # "truncated"
                     /\ \A row \in attestation.rows :
                          /\ LoadedAs(row.address, row.version)
                          /\ candidates[row.address].reason = row.reason
    BY DEF CheckPlan, Readable
  <2>. QED  BY <2>1, <2>2, <2>3
<1>. QED  BY <1>1, <1>2, <1>3, <1>4, <1>5 DEF Next, LoaderStep, Arrives

-----------------------------------------------------------------------------
(* A key is taken once.  The UNIQUE constraint is what InsertRow and       *)
(* InsertPlan wait for and test; the invariant adds the rows that are      *)
(* inserted and not committed yet.                                         *)

Holds(r, a, v) ==
  request[r].pc = "commit" /\ request[r].address = a /\ request[r].found.version = v

Planned(a, v) ==
  /\ attestation.pc = "inserted"
  /\ \E row \in attestation.rows : row.address = a /\ row.version = v

KeyInv ==
  /\ ConfirmedOnce
  /\ \A x, y \in attestation.rows : x.address = y.address => x = y
  /\ \A a \in Addresses, v \in Versions :
       /\ \A r \in Requests : Holds(r, a, v) =>
            /\ ConfirmationOf(a, v) = {}
            /\ ~Planned(a, v)
            /\ \A q \in Requests : Holds(q, a, v) => q = r
       /\ Planned(a, v) => ConfirmationOf(a, v) = {}

LEMMA InitKey == Init => KeyInv
  BY DEF Init, KeyInv, ConfirmedOnce, Holds, Planned, Idle

\* Nothing but a request's own step moves what it holds.
LEMMA HoldsSame ==
  ASSUME TypeInv, NEW q \in Requests, NEW a, NEW v,
         request'[q] = request[q] \/ request'[q] = [request[q] EXCEPT !.reloaded = TRUE]
  PROVE  Holds(q, a, v)' <=> Holds(q, a, v)
<1>1. request[q] \in RequestState
  BY DEF TypeInv, TypeOK
<1>. QED  BY <1>1 DEF Holds, RequestState

LEMMA RequestKey ==
  ASSUME TypeInv, KeyInv, NEW r \in Requests, Arrives(r) \/ RequestStep(r)
  PROVE  KeyInv'
<1>0. /\ UNCHANGED <<candidates, loader, attestation>>
      /\ \A q \in Requests \ {r} : request'[q] = request[q]
      /\ Leaves(r) \/ Enters(r) \/ Inserts(r)
      /\ request[r] \in RequestState
  BY RequestMoves DEF TypeInv, TypeOK
<1>1. \A a, v : \A q \in Requests \ {r} : Holds(q, a, v)' <=> Holds(q, a, v)
  BY <1>0 DEF Holds
<1>2. \A a, v : Planned(a, v)' <=> Planned(a, v)
  BY <1>0 DEF Planned
<1>3. ASSUME UNCHANGED confirmations
      PROVE  /\ ConfirmedOnce'
             /\ \A a, v : ConfirmationOf(a, v)' = ConfirmationOf(a, v)
  BY <1>3 DEF KeyInv, ConfirmedOnce, ConfirmationOf
<1>4. CASE Leaves(r) /\ UNCHANGED confirmations
  <2>1. \A a, v : ~Holds(r, a, v)'
    BY <1>4 DEF Leaves, Holds, InTransaction
  <2>. QED  BY <1>0, <1>1, <1>2, <1>3, <1>4, <2>1 DEF KeyInv
<1>5. CASE /\ Leaves(r)
           /\ request[r].pc = "commit"
           /\ confirmations' = confirmations \cup {NewConfirmation(r)}
  <2>0. PICK row : row = NewConfirmation(r)
    OBVIOUS
  <2>1. row \in ConfirmationRow /\ Holds(r, row.address, row.version)
    BY <1>5, <2>0, NewConfirmationType DEF Holds, NewConfirmation
  <2>2. row.address \in Addresses /\ row.version \in Versions
    BY <2>1 DEF ConfirmationRow
  <2>3. ConfirmationOf(row.address, row.version) = {}
    BY <2>1, <2>2 DEF KeyInv
  <2>4. confirmations' = confirmations \cup {row}
    BY <1>5, <2>0
  <2>5. ConfirmedOnce'
    BY <2>3, <2>4 DEF KeyInv, ConfirmedOnce, ConfirmationOf
  <2>6. \A a, v : a # row.address \/ v # row.version =>
          ConfirmationOf(a, v)' = ConfirmationOf(a, v)
    BY <2>4 DEF ConfirmationOf
  <2>7. \A a, v : ~Holds(r, a, v)'
    BY <1>5 DEF Leaves, Holds, InTransaction
  <2>8. \A q \in Requests \ {r} : ~Holds(q, row.address, row.version)'
    BY <1>1, <2>1, <2>2 DEF KeyInv
  <2>9. ~Planned(row.address, row.version)
    BY <2>1, <2>2 DEF KeyInv
  <2>. QED  BY <1>0, <1>1, <1>2, <2>5, <2>6, <2>7, <2>8, <2>9 DEF KeyInv
<1>6. CASE Enters(r)
  <2>1. \A a, v : ~Holds(r, a, v)'
    BY <1>0, <1>6 DEF Enters, Holds, RequestState
  <2>. QED  BY <1>0, <1>1, <1>2, <1>3, <1>6, <2>1 DEF KeyInv, Enters
<1>7. CASE Inserts(r)
  <2>1. \A a, v : Holds(r, a, v)' =>
          a = request[r].address /\ v = request[r].found.version
    BY <1>0, <1>7 DEF Inserts, Holds, RequestState
  <2>2. \A a, v : Holds(r, a, v)' =>
          /\ ConfirmationOf(a, v) = {}
          /\ ~Planned(a, v)
          /\ \A q \in Requests \ {r} : ~Holds(q, a, v)
    BY <1>7, <2>1 DEF Inserts, KeyFree, Holds, Planned
  <2>. QED  BY <1>0, <1>1, <1>2, <1>3, <1>7, <2>2 DEF KeyInv, Inserts
<1>. QED  BY <1>0, <1>4, <1>5, <1>6, <1>7 DEF Leaves

LEMMA AttestationKey ==
  ASSUME TypeInv, KeyInv,
         \/ \E wallets \in SUBSET Attestable : ReadCandidates(wallets)
         \/ AttestationStep
  PROVE  KeyInv'
<1>0. attestation \in AttestationState /\ confirmations \subseteq ConfirmationRow
  BY DEF TypeInv, TypeOK
<1>1. UNCHANGED request
  BY DEF ReadCandidates, AttestationStep, PlanAttestation, CheckPlan, InsertPlan,
         CommitPlan, StopAttestation, apiVars
<1>2. \A r, a, v : Holds(r, a, v)' <=> Holds(r, a, v)
  BY <1>1 DEF Holds
<1>3. ASSUME UNCHANGED confirmations
      PROVE  /\ ConfirmedOnce'
             /\ \A a, v : ConfirmationOf(a, v)' = ConfirmationOf(a, v)
  BY <1>3 DEF KeyInv, ConfirmedOnce, ConfirmationOf
<1>4. ASSUME UNCHANGED confirmations, attestation'.pc # "inserted",
             \A x, y \in attestation'.rows : x.address = y.address => x = y
      PROVE  KeyInv'
  <2>1. \A a, v : ~Planned(a, v)'
    BY <1>4 DEF Planned
  <2>. QED  BY <1>2, <1>3, <1>4, <2>1 DEF KeyInv
<1>5. CASE \E wallets \in SUBSET Attestable : ReadCandidates(wallets)
  <2>1. PICK wallets \in SUBSET Attestable :
          /\ UNCHANGED confirmations
          /\ attestation' =
               [pc |-> "extracted",
                rows |-> {[address |-> a, version |-> candidates[a].version,
                           reason |-> candidates[a].reason] : a \in wallets}]
    BY <1>5 DEF ReadCandidates
  <2>. QED  BY <1>4, <2>1
<1>6. CASE PlanAttestation \/ CheckPlan \/ StopAttestation
  BY <1>0, <1>4, <1>6
     DEF PlanAttestation, CheckPlan, StopAttestation, AttestationState, KeyInv
<1>7. CASE InsertPlan
  <2>1. attestation'.rows = attestation.rows /\ UNCHANGED confirmations
    BY <1>0, <1>7 DEF InsertPlan, AttestationState
  <2>2. \A a, v : Planned(a, v)' =>
          ConfirmationOf(a, v) = {} /\ \A r \in Requests : ~Holds(r, a, v)
    BY <1>7, <2>1 DEF InsertPlan, KeyFree, Planned, Holds
  <2>. QED  BY <1>2, <1>3, <2>1, <2>2 DEF KeyInv
<1>8. CASE CommitPlan
  <2>. DEFINE new == {AttestedRow(row) : row \in attestation.rows}
  <2>1. confirmations' = confirmations \cup new /\ attestation'.rows = {}
        /\ attestation'.pc = "idle"
    BY <1>8 DEF CommitPlan
  <2>2. \A x \in new :
          /\ Planned(x.address, x.version)
          /\ x.address \in Addresses /\ x.version \in Versions
    BY <1>0, <1>8 DEF CommitPlan, AttestedRow, Planned, AttestationState, PlanRow
  <2>3. \A x \in new : ConfirmationOf(x.address, x.version) = {}
                     /\ \A r \in Requests : ~Holds(r, x.address, x.version)
    BY <2>2 DEF KeyInv
  <2>4. \A x, y \in new : x.address = y.address => x = y
    BY DEF KeyInv, AttestedRow
  <2>. HIDE DEF new
  <2>5. ConfirmedOnce'
    BY <2>1, <2>3, <2>4 DEF KeyInv, ConfirmedOnce, ConfirmationOf
  <2>6. ASSUME NEW a, NEW v, NEW r \in Requests, Holds(r, a, v)
        PROVE  ConfirmationOf(a, v)' = ConfirmationOf(a, v)
    BY <2>1, <2>3, <2>6 DEF ConfirmationOf
  <2>7. \A a, v : ~Planned(a, v)'
    BY <2>1 DEF Planned
  <2>. QED  BY <1>2, <2>1, <2>5, <2>6, <2>7 DEF KeyInv
<1>. QED  BY <1>5, <1>6, <1>7, <1>8 DEF AttestationStep

LEMMA NextKey == TypeInv /\ KeyInv /\ [Next]_vars => KeyInv'
<1>. SUFFICES ASSUME TypeInv, KeyInv, [Next]_vars PROVE KeyInv'
  OBVIOUS
<1>1. CASE \E r \in Requests : Arrives(r) \/ RequestStep(r)
  BY <1>1, RequestKey
<1>2. CASE \/ \E wallets \in SUBSET Attestable : ReadCandidates(wallets)
           \/ AttestationStep
  BY <1>2, AttestationKey
<1>3. CASE \/ \E v \in Versions, cutoff \in Cutoffs : SelectCandidates(v, cutoff)
           \/ LoaderStep
           \/ \E v \in Versions : InjectLedger(v)
           \/ Tick
           \/ UNCHANGED vars
  <2>1. UNCHANGED <<confirmations, attestation>>
    BY <1>3 DEF SelectCandidates, LoaderStep, AskTruncate, TruncateCandidates,
                CommitLoad, FailLoad, InjectLedger, Tick, ownerVars, vars
  <2>2. \A q \in Requests : \/ request'[q] = request[q]
                            \/ request'[q] = [request[q] EXCEPT !.reloaded = TRUE]
    BY <1>3 DEF SelectCandidates, LoaderStep, AskTruncate, TruncateCandidates,
                CommitLoad, FailLoad, InjectLedger, Tick, apiVars, vars
  <2>3. \A q \in Requests : \A a, v : Holds(q, a, v)' <=> Holds(q, a, v)
    BY <2>2, HoldsSame
  <2>. QED  BY <2>1, <2>3 DEF KeyInv, ConfirmedOnce, ConfirmationOf, Planned
<1>. QED  BY <1>1, <1>2, <1>3 DEF Next, Arrives

-----------------------------------------------------------------------------
(* What a caller is told and what its signature stands for.                *)

SignedInv == SignedForItsSet /\ RecordedIsStored

LEMMA InitSigned == Init => SignedInv
  BY DEF Init, SignedInv, SignedForItsSet, RecordedIsStored, Done, Idle

\* "recorded" is answered over a row of the caller's own.
LEMMA RecordedMoves ==
  ASSUME TypeInv, SignedForItsSet, NEW r \in Requests,
         Arrives(r) \/ RequestStep(r), Done(r, "recorded")'
  PROVE  \E row \in confirmations' :
           /\ row.evidence = request'[r].message
           /\ row.address = request'[r].message.address
           /\ row.version = request'[r].message.version
<1>0. /\ request \in [Requests -> RequestState] /\ RequestInv
      /\ request[r] \in RequestState /\ RequestOK(request[r])
      /\ request'[r].pc = "done" /\ request'[r].answer = "recorded"
  BY DEF TypeInv, TypeOK, RequestInv, Done
<1>1. ASSUME NEW answer \in Answers, Answer(r, answer)
      PROVE  answer = "recorded" /\ request'[r].message = request[r].message
             /\ request[r].message # None
  <2>1. request[r].message = None => request'[r] = Idle
    BY <1>0, <1>1 DEF Answer
  <2>. QED  BY <1>0, <1>1, <2>1, AnswerType DEF Idle
<1>2. ASSUME NEW rows, rows = ConfirmationOf(request[r].address, request[r].found.version),
             request[r].pc \in Busy, NEW row \in rows, Replay(r, row),
             UNCHANGED confirmations
      PROVE  \E x \in confirmations' :
               /\ x.evidence = request'[r].message
               /\ x.address = request'[r].message.address
               /\ x.version = request'[r].message.version
  <2>1. row \in confirmations /\ row.address = request[r].address
    BY <1>2 DEF ConfirmationOf
  <2>2. /\ row.evidence = request[r].message
        /\ request'[r].message = request[r].message /\ request[r].message # None
    BY <1>1, <1>2 DEF Replay, Answers
  <2>3. request[r].message \in Message
    BY <1>0, <2>2 DEF RequestState
  <2>4. row.evidence # Attested
    BY <2>2, <2>3, ConstantsAssumption
  <2>. QED  BY <1>2, <2>1, <2>2, <2>4 DEF SignedForItsSet
<1>3. ASSUME NEW pc, Step(r, pc)
      PROVE  pc = "done"
  BY <1>0, <1>3 DEF Step, RequestState
<1>4. CASE Arrives(r)
  <2>1. CASE \E a \in Addresses : Ask(r, a)
    BY <1>0, <2>1, IdleOK DEF Ask, NewRequest, RequestState
  <2>2. CASE \E m \in challenges : \E claimed \in Versions \cup {None} : Submit(r, m, claimed)
    <3>1. PICK m \in challenges, claimed \in Versions \cup {None} : Submit(r, m, claimed)
      BY <2>2
    <3>2. request'[r].answer = ClockAnswer(m)
      BY <1>0, <3>1, IdleOK DEF Submit, NewRequest, RequestState
    <3>. QED  BY <1>0, <3>2 DEF ClockAnswer
  <2>. QED  BY <1>4, <2>1, <2>2 DEF Arrives
<1>5. CASE FindCandidate(r)
  <2>. DEFINE row == candidates[request[r].address]
              found == [request[r] EXCEPT !.pc = "confirmation", !.found = row]
              refused == [request[r] EXCEPT
                            !.pc = "done", !.found = row,
                            !.answer = IF row = None THEN "not_eligible"
                                       ELSE "data_updated"]
  <2>1. /\ found.pc = "confirmation" /\ refused.answer # "recorded"
        /\ Idle.pc = "idle"
    BY <1>0 DEF RequestState, Idle
  <2>2. request'[r] \in {found, refused, Idle}
    BY <1>0, <1>5 DEF FindCandidate
  <2>. HIDE DEF found, refused
  <2>. QED  BY <1>0, <2>1, <2>2
<1>6. CASE FindConfirmation(r)
  <2>1. PICK rows : /\ rows = ConfirmationOf(request[r].address, request[r].found.version)
                    /\ ChallengeConfirmation(r, rows) \/ SubmitConfirmation(r, rows)
    BY <1>6 DEF FindConfirmation
  <2>2. request[r].pc \in Busy /\ UNCHANGED confirmations
    BY <1>6 DEF FindConfirmation, Busy
  <2>3. \/ \E row \in rows : Replay(r, row)
        \/ Answer(r, "none") \/ Answer(r, "bad_signature") \/ Step(r, "select")
    BY <2>1 DEF ChallengeConfirmation, SubmitConfirmation
  <2>4. ~ Answer(r, "none") /\ ~ Answer(r, "bad_signature") /\ ~ Step(r, "select")
    BY <1>1, <1>3 DEF Answers
  <2>. QED  BY <1>2, <2>1, <2>2, <2>3, <2>4
<1>7. CASE InsertSelect(r) \/ InsertRow(r) \/ Fail(r)
  <2>1. \/ Step(r, "insert") \/ Step(r, "commit") \/ Step(r, "again")
        \/ Answer(r, "data_updated") \/ Answer(r, "error")
    BY <1>7 DEF InsertSelect, InsertRow, Fail
  <2>2. ~ Answer(r, "data_updated") /\ ~ Answer(r, "error")
    BY <1>1 DEF Answers
  <2>3. ~ Step(r, "insert") /\ ~ Step(r, "commit") /\ ~ Step(r, "again")
    BY <1>3
  <2>. QED  BY <2>1, <2>2, <2>3
<1>8. CASE InsertCommit(r)
  <2>1. /\ NewConfirmation(r) \in confirmations'
        /\ request'[r].message = request[r].message /\ request[r].message # None
    BY <1>1, <1>8 DEF InsertCommit, Answers
  <2>2. /\ request[r].message.address = request[r].address
        /\ request[r].message.version = request[r].found.version
    BY <1>0, <1>8, <2>1
       DEF InsertCommit, RequestOK, Busy, Verified, InTransaction
  <2>. QED  BY <2>1, <2>2 DEF NewConfirmation
<1>9. CASE FindAgain(r)
  <2>1. /\ request[r].pc \in Busy /\ UNCHANGED confirmations
        /\ \/ \E row \in ConfirmationOf(request[r].address, request[r].found.version) :
                Replay(r, row)
           \/ Answer(r, "data_updated")
    BY <1>9 DEF FindAgain, Busy
  <2>2. ~ Answer(r, "data_updated")
    BY <1>1 DEF Answers
  <2>. QED  BY <1>2, <2>1, <2>2
<1>. QED  BY <1>4, <1>5, <1>6, <1>7, <1>8, <1>9 DEF RequestStep

LEMMA NextSigned == TypeInv /\ SignedInv /\ [Next]_vars => SignedInv'
<1>. SUFFICES ASSUME TypeInv, SignedInv, [Next]_vars PROVE SignedInv'
  OBVIOUS
<1>1. ASSUME NEW r \in Requests, Arrives(r) \/ RequestStep(r)
      PROVE  SignedInv'
  <2>1. /\ \A q \in Requests \ {r} : request'[q] = request[q]
        /\ \/ UNCHANGED confirmations
           \/ /\ request[r].pc = "commit"
              /\ confirmations' = confirmations \cup {NewConfirmation(r)}
    BY <1>1, RequestMoves DEF Leaves, Enters, Inserts
  <2>2. request[r].pc = "commit" =>
          /\ NewConfirmation(r).evidence.address = NewConfirmation(r).address
          /\ NewConfirmation(r).evidence.version = NewConfirmation(r).version
    <3>1. ASSUME request[r].pc = "commit"
          PROVE  /\ request[r].message.address = request[r].address
                 /\ request[r].message.version = request[r].found.version
      BY <3>1, ConstantsAssumption
         DEF TypeInv, RequestInv, RequestOK, Busy, Verified, InTransaction
    <3>. QED  BY <3>1 DEF NewConfirmation
  <2>3. SignedForItsSet'
    BY <2>1, <2>2 DEF SignedInv, SignedForItsSet
  <2>4. confirmations \subseteq confirmations'
    BY <2>1
  <2>5. \A q \in Requests \ {r} : Done(q, "recorded")' => Done(q, "recorded")
    BY <2>1 DEF Done
  <2>6. Done(r, "recorded")' =>
          \E row \in confirmations' :
            /\ row.evidence = request'[r].message
            /\ row.address = request'[r].message.address
            /\ row.version = request'[r].message.version
    BY <1>1, RecordedMoves DEF SignedInv
  <2>. QED  BY <2>1, <2>3, <2>4, <2>5, <2>6 DEF SignedInv, RecordedIsStored
<1>2. CASE \/ \E wallets \in SUBSET Attestable : ReadCandidates(wallets)
           \/ AttestationStep
           \/ \E v \in Versions, cutoff \in Cutoffs : SelectCandidates(v, cutoff)
           \/ LoaderStep
           \/ \E v \in Versions : InjectLedger(v)
           \/ Tick
           \/ UNCHANGED vars
  <2>1. \A q \in Requests : \/ request'[q] = request[q]
                            \/ request'[q] = [request[q] EXCEPT !.reloaded = TRUE]
    BY <1>2 DEF ReadCandidates, AttestationStep, PlanAttestation, CheckPlan, InsertPlan,
                CommitPlan, StopAttestation, SelectCandidates, LoaderStep, AskTruncate,
                TruncateCandidates, CommitLoad, FailLoad, InjectLedger, Tick, apiVars, vars
  <2>2. \A q \in Requests : /\ Done(q, "recorded")' => Done(q, "recorded")
                            /\ request'[q].message = request[q].message
    <3>. SUFFICES ASSUME NEW q \in Requests
                  PROVE  /\ Done(q, "recorded")' => Done(q, "recorded")
                         /\ request'[q].message = request[q].message
      OBVIOUS
    <3>1. request[q] \in RequestState
      BY DEF TypeInv, TypeOK
    <3>2. /\ request'[q].pc = request[q].pc
          /\ request'[q].answer = request[q].answer
          /\ request'[q].message = request[q].message
      BY <2>1, <3>1 DEF RequestState
    <3>. QED  BY <3>2 DEF Done
  <2>3. \/ UNCHANGED confirmations
        \/ confirmations' = confirmations \cup {AttestedRow(row) : row \in attestation.rows}
    BY <1>2 DEF ReadCandidates, AttestationStep, PlanAttestation, CheckPlan, InsertPlan,
                CommitPlan, StopAttestation, SelectCandidates, LoaderStep, AskTruncate,
                TruncateCandidates, CommitLoad, FailLoad, InjectLedger, Tick, ownerVars, vars
  <2>4. \A row : AttestedRow(row).evidence = Attested
    BY DEF AttestedRow
  <2>5. confirmations \subseteq confirmations'
        /\ \A row \in confirmations' : row \in confirmations \/ row.evidence = Attested
    BY <2>3, <2>4
  <2>. QED  BY <2>2, <2>5 DEF SignedInv, SignedForItsSet, RecordedIsStored
<1>. QED  BY <1>1, <1>2 DEF Next, Arrives

-----------------------------------------------------------------------------
(* The theorems.                                                           *)

IInv == TypeInv /\ LockInv /\ KeyInv /\ SignedInv

LEMMA Invariant == Spec => []IInv
<1>1. Init => IInv
  BY InitType, InitLock, InitKey, InitSigned DEF IInv
<1>2. IInv /\ [Next]_vars => IInv'
  BY NextType, NextLock, NextKey, NextSigned DEF IInv
<1>. QED  BY <1>1, <1>2, PTL DEF Spec

\* Every row and every message has its type, whatever a request had read by
\* the time it wrote.
THEOREM TypeCorrect == Spec => []TypeOK
  BY Invariant, PTL DEF IInv, TypeInv

\* One confirmation per wallet and candidate set, whatever mix of requests,
\* retries, attestations and crashes inserts it.
THEOREM OneConfirmationPerKey == Spec => []ConfirmedOnce
  BY Invariant, PTL DEF IInv, KeyInv

\* A caller told "recorded" has its own signature in the table.
THEOREM AnswersAreStored == Spec => []RecordedIsStored
  BY Invariant, PTL DEF IInv, SignedInv

\* A signature confirms only the wallet and the candidate set it names.
THEOREM SignaturesStayInTheirSet == Spec => []SignedForItsSet
  BY Invariant, PTL DEF IInv, SignedInv

\* New rows come from a request's commit or from the attestation's.
LEMMA NewRows ==
  ASSUME IInv, [Next]_vars, NEW row \in confirmations' \ confirmations
  PROVE  /\ LoadedAs(row.address, row.version)
         /\ row.evidence = Attested => candidates[row.address].reason = row.reason
<1>. USE DEF IInv
<1>1. CASE \E r \in Requests : Arrives(r) \/ RequestStep(r)
  <2>1. PICK r \in Requests : Arrives(r) \/ RequestStep(r)
    BY <1>1
  <2>2. request[r].pc = "commit" /\ row = NewConfirmation(r)
    <3>1. Leaves(r) \/ Enters(r) \/ Inserts(r)
      BY <2>1, RequestMoves
    <3>. QED  BY <3>1 DEF Leaves, Enters, Inserts
  <2>3. LoadedAs(request[r].address, request[r].found.version)
    BY <2>2 DEF LockInv, InTransaction
  <2>4. row.address = request[r].address /\ row.version = request[r].found.version
        /\ row.evidence = request[r].message
    BY <2>2 DEF NewConfirmation
  <2>5. request[r].message \in Message
    BY <2>2 DEF TypeInv, RequestInv, RequestOK, Verified, InTransaction
  <2>. QED  BY <2>3, <2>4, <2>5, ConstantsAssumption
<1>2. CASE AttestationStep
  <2>1. PICK planned \in attestation.rows : row = AttestedRow(planned) /\ CommitPlan
    BY <1>2 DEF AttestationStep, PlanAttestation, CheckPlan, InsertPlan, CommitPlan,
                StopAttestation
  <2>. QED  BY <2>1 DEF CommitPlan, LockInv, AttestedRow
<1>3. CASE UNCHANGED confirmations
  BY <1>3
<1>. QED
  BY <1>1, <1>2, <1>3
     DEF Next, Arrives, vars, SelectCandidates, LoaderStep, AskTruncate, TruncateCandidates,
         CommitLoad, FailLoad, InjectLedger, ReadCandidates, Tick

\* A confirmation enters the table only while its wallet is a candidate under
\* that very version: the lock kept since the check makes it still true.
THEOREM RecordedUnderLock == Spec => RecordedUnderLoadedSet
<1>1. IInv /\ [Next]_vars =>
        [\A row \in confirmations' \ confirmations :
           /\ candidates[row.address] # None
           /\ candidates[row.address].version = row.version]_vars
  BY NewRows DEF LoadedAs
<1>. QED  BY <1>1, Invariant, PTL DEF Spec, RecordedUnderLoadedSet

\* An attestation carries the stage reason of the candidate row as it is when
\* it commits.
THEOREM AttestedUnderLock == Spec => AttestedAsLoaded
<1>1. IInv /\ [Next]_vars =>
        [\A row \in confirmations' \ confirmations :
           row.evidence = Attested =>
             candidates[row.address].reason = row.reason]_vars
  BY NewRows
<1>. QED  BY <1>1, Invariant, PTL DEF Spec, AttestedAsLoaded

-----------------------------------------------------------------------------
(* The tables implement the write-once register.                           *)

Loaded == [a \in Addresses |-> IF candidates[a] = None THEN None ELSE candidates[a].version]

Evidences == [k \in Addresses \X Versions |-> {row.evidence : row \in ConfirmationOf(k[1], k[2])}]

\* A selection is of one candidate set.
LoaderInv ==
  \A a, b \in Addresses :
    loader.rows[a] # None /\ loader.rows[b] # None =>
      loader.rows[a].version = loader.rows[b].version

LEMMA InitLoader == Init => LoaderInv
  BY DEF Init, LoaderInv, NoRows

LEMMA NextLoader == TypeInv /\ LoaderInv /\ [Next]_vars => LoaderInv'
<1>. SUFFICES ASSUME TypeInv, LoaderInv, [Next]_vars PROVE LoaderInv'
  OBVIOUS
<1>1. ASSUME NEW v \in Versions, NEW cutoff \in Cutoffs, SelectCandidates(v, cutoff)
      PROVE  LoaderInv'
  <2>1. PICK chosen \in SUBSET DeferredIn[v] : \E reason \in [chosen -> Reasons] :
          loader' = [pc |-> "selected",
                     rows |-> [a \in Addresses |->
                                 IF a \in chosen
                                 THEN [version |-> v, cutoff |-> cutoff,
                                       reason |-> reason[a]]
                                 ELSE None]]
    BY <1>1 DEF SelectCandidates
  <2>2. \A a \in Addresses : loader'.rows[a] = None \/ loader'.rows[a].version = v
    BY <2>1
  <2>. QED  BY <2>2 DEF LoaderInv
<1>2. CASE LoaderStep
  BY <1>2 DEF LoaderStep, AskTruncate, TruncateCandidates, CommitLoad, FailLoad,
              LoaderInv, TypeInv, TypeOK, LoaderState, NoRows
<1>3. CASE \E r \in Requests : Arrives(r) \/ RequestStep(r)
  BY <1>3, RequestMoves DEF LoaderInv
<1>4. CASE \/ \E wallets \in SUBSET Attestable : ReadCandidates(wallets)
           \/ AttestationStep
           \/ \E v \in Versions : InjectLedger(v)
           \/ Tick
           \/ UNCHANGED vars
  BY <1>4 DEF ReadCandidates, AttestationStep, PlanAttestation, CheckPlan, InsertPlan,
              CommitPlan, StopAttestation, InjectLedger, Tick, ownerVars, vars, LoaderInv
<1>. QED  BY <1>1, <1>2, <1>3, <1>4 DEF Next, Arrives

\* Rows under keys that had none, with one evidence, are one Record.
LEMMA RecordStep ==
  ASSUME NEW new, confirmations' = confirmations \cup new, UNCHANGED candidates,
         NEW e \in Message \cup {Attested},
         new # {},
         \A row \in new : /\ row.address \in Addresses /\ row.version \in Versions
                         /\ row.evidence = e
                         /\ LoadedAs(row.address, row.version)
                         /\ ConfirmationOf(row.address, row.version) = {},
         None \notin Versions
  PROVE  Register!Next
<1>. DEFINE wallets == {row.address : row \in new}
<1>1. wallets \in SUBSET Addresses /\ wallets # {}
  OBVIOUS
<1>2. \A a \in wallets : \E row \in new :
        row.address = a /\ Loaded[a] = row.version
  BY DEF LoadedAs, Loaded
<1>3. \A a \in wallets : /\ Loaded[a] # None /\ <<a, Loaded[a]>> \in Addresses \X Versions
                         /\ ConfirmationOf(a, Loaded[a]) = {}
  BY <1>2
<1>4. \A a \in wallets : Evidences[<<a, Loaded[a]>>] = {}
  BY <1>3 DEF Evidences
<1>5. Loaded' = Loaded
  BY DEF Loaded
<1>6. ASSUME NEW k \in Addresses \X Versions
      PROVE  {row.evidence : row \in ConfirmationOf(k[1], k[2])}' =
               IF k[1] \in wallets /\ k[2] = Loaded[k[1]] THEN {e} ELSE Evidences[k]
  <2>1. ConfirmationOf(k[1], k[2])' =
          ConfirmationOf(k[1], k[2]) \cup {row \in new : row.address = k[1] /\ row.version = k[2]}
    BY DEF ConfirmationOf
  <2>2. CASE k[1] \in wallets /\ k[2] = Loaded[k[1]]
    <3>1. ConfirmationOf(k[1], k[2]) = {}
      BY <1>3, <2>2
    <3>2. PICK row \in new : row.address = k[1] /\ row.version = k[2]
      BY <1>2, <2>2
    <3>. QED  BY <2>1, <2>2, <3>1, <3>2
  <2>3. CASE ~(k[1] \in wallets /\ k[2] = Loaded[k[1]])
    <3>1. {row \in new : row.address = k[1] /\ row.version = k[2]} = {}
      BY <2>3 DEF LoadedAs, Loaded
    <3>. QED  BY <2>1, <2>3, <3>1 DEF Evidences
  <2>. QED  BY <2>2, <2>3
<1>7. Evidences' = [k \in Addresses \X Versions |->
                     IF k[1] \in wallets /\ k[2] = Loaded[k[1]] THEN {e} ELSE Evidences[k]]
  BY <1>6 DEF Evidences
<1>8. Register!Record(wallets, e)
  BY <1>1, <1>3, <1>4, <1>5, <1>7 DEF Register!Record, Register!Keys, Loaded, Evidences
<1>. QED  BY <1>1, <1>8 DEF Register!Next

LEMMA RegisterInit == TypeInv /\ Init => Register!Init
  BY DEF Init, Register!Init, Register!Keys, NoRows, ConfirmationOf

LEMMA RegisterStep ==
  IInv /\ LoaderInv /\ [Next]_vars => [Register!Next]_(Register!vars)
<1>. SUFFICES ASSUME IInv, LoaderInv, [Next]_vars
              PROVE  Register!Next \/ UNCHANGED <<Loaded, Evidences>>
  BY DEF Register!vars, Loaded, Evidences
<1>. USE DEF IInv
<1>0. None \notin Versions /\ None \notin CandidateRow
  BY ConstantsAssumption
<1>1. ASSUME UNCHANGED <<candidates, confirmations>>
      PROVE  UNCHANGED <<Loaded, Evidences>>
  BY <1>1 DEF Loaded, Evidences, ConfirmationOf
<1>2. ASSUME NEW r \in Requests, Arrives(r) \/ RequestStep(r)
      PROVE  Register!Next \/ UNCHANGED <<Loaded, Evidences>>
  <2>1. UNCHANGED candidates /\ (Leaves(r) \/ Enters(r) \/ Inserts(r))
    BY <1>2, RequestMoves
  <2>2. CASE /\ request[r].pc = "commit"
             /\ confirmations' = confirmations \cup {NewConfirmation(r)}
    <3>1. PICK row : row = NewConfirmation(r)
      OBVIOUS
    <3>2. /\ row \in ConfirmationRow
          /\ row.address = request[r].address
          /\ row.version = request[r].found.version
          /\ row.evidence = request[r].message
      BY <2>2, <3>1, NewConfirmationType DEF NewConfirmation
    <3>3. row.address \in Addresses /\ row.version \in Versions
          /\ row.evidence \in Message \cup {Attested}
      BY <3>2 DEF ConfirmationRow
    <3>4. LoadedAs(row.address, row.version)
      BY <2>2, <3>2 DEF LockInv, InTransaction
    <3>5. ConfirmationOf(row.address, row.version) = {}
      BY <2>2, <3>2, <3>3 DEF KeyInv, Holds
    <3>. DEFINE new == {row}
    <3>6. /\ confirmations' = confirmations \cup new /\ new # {}
          /\ \A x \in new : /\ x.address \in Addresses /\ x.version \in Versions
                           /\ x.evidence = row.evidence
                           /\ LoadedAs(x.address, x.version)
                           /\ ConfirmationOf(x.address, x.version) = {}
      BY <2>2, <3>1, <3>3, <3>4, <3>5
    <3>. HIDE DEF new
    <3>7. Register!Next
      BY <1>0, <2>1, <3>3, <3>6, RecordStep
    <3>. QED  BY <3>7
  <2>3. CASE UNCHANGED confirmations
    BY <1>1, <2>1, <2>3
  <2>4. \/ UNCHANGED confirmations
        \/ /\ request[r].pc = "commit"
           /\ confirmations' = confirmations \cup {NewConfirmation(r)}
    BY <2>1 DEF Leaves, Enters, Inserts
  <2>. QED  BY <2>2, <2>3, <2>4
<1>3. ASSUME CommitPlan
      PROVE  Register!Next \/ UNCHANGED <<Loaded, Evidences>>
  <2>. DEFINE new == {AttestedRow(row) : row \in attestation.rows}
  <2>1. confirmations' = confirmations \cup new /\ UNCHANGED candidates
        /\ attestation.pc = "inserted"
    BY <1>3 DEF CommitPlan
  <2>2. ASSUME NEW x \in new
        PROVE  /\ x.address \in Addresses /\ x.version \in Versions
               /\ x.evidence = Attested
               /\ LoadedAs(x.address, x.version)
               /\ ConfirmationOf(x.address, x.version) = {}
    <3>1. PICK row \in attestation.rows : x = AttestedRow(row)
      OBVIOUS
    <3>2. row \in PlanRow
      BY DEF TypeInv, TypeOK, AttestationState
    <3>3. x.address = row.address /\ x.version = row.version /\ x.evidence = Attested
      BY <3>1 DEF AttestedRow
    <3>4. row.address \in Addresses /\ row.version \in Versions
      BY <3>2 DEF PlanRow
    <3>5. Planned(row.address, row.version)
      BY <2>1 DEF Planned
    <3>. QED  BY <2>1, <3>3, <3>4, <3>5 DEF LockInv, KeyInv
  <2>3. CASE new = {}
    BY <1>1, <2>1, <2>3
  <2>4. CASE new # {}
    <3>. HIDE DEF new
    <3>. QED  BY <1>0, <2>1, <2>2, <2>4, RecordStep
  <2>. QED  BY <2>3, <2>4
<1>4. ASSUME CommitLoad
      PROVE  Register!Next
  <2>1. candidates' = loader.rows /\ UNCHANGED confirmations
        /\ loader.rows \in [Addresses -> CandidateRow \cup {None}]
    BY <1>4 DEF CommitLoad, TypeInv, TypeOK, LoaderState
  <2>2. Loaded' = [a \in Addresses |-> IF loader.rows[a] = None THEN None
                                       ELSE loader.rows[a].version]
    BY <2>1 DEF Loaded
  <2>3. \A a \in Addresses : loader.rows[a] # None => loader.rows[a].version \in Versions
    BY <1>0, <2>1 DEF CandidateRow
  <2>4. Loaded' \in [Addresses -> Versions \cup {None}]
    BY <2>2, <2>3
  <2>5. \A a, b \in Addresses :
          Loaded'[a] = Loaded'[b] \/ Loaded'[a] = None \/ Loaded'[b] = None
    BY <2>2 DEF LoaderInv
  <2>6. Evidences' = Evidences
    BY <2>1 DEF Evidences, ConfirmationOf
  <2>7. Register!Load
    BY <2>4, <2>5, <2>6 DEF Register!Load, Loaded, Evidences
  <2>. QED  BY <2>7 DEF Register!Next
<1>5. CASE UNCHANGED <<candidates, confirmations>>
  BY <1>1, <1>5
<1>. QED
  BY <1>2, <1>3, <1>4, <1>5
     DEF Next, Arrives, vars, SelectCandidates, LoaderStep, AskTruncate, TruncateCandidates,
         FailLoad, InjectLedger, ReadCandidates, AttestationStep, PlanAttestation, CheckPlan,
         InsertPlan, StopAttestation, Tick

\* The confirm API and both owner commands implement the write-once register:
\* every step records one evidence under keys that had none, replaces the whole
\* candidate set by one of a single version, or changes neither.
THEOREM Refinement == Spec => ImplementsRegister
<1>1. Init => Register!Init
  BY InitType, RegisterInit
<1>2. Spec => []LoaderInv
  <2>1. TypeInv /\ LoaderInv /\ [Next]_vars => LoaderInv'
    BY NextLoader
  <2>. QED  BY <2>1, InitLoader, Invariant, PTL DEF Spec, IInv
<1>. QED
  BY <1>1, <1>2, RegisterStep, Invariant, PTL DEF Spec, ImplementsRegister, Register!Spec

-----------------------------------------------------------------------------
(* Refusals.                                                               *)

\* Until the transaction reads again, the candidate row a request found is
\* the loaded one unless the set was replaced; a request that met a conflict
\* still has a row to find; what is refused is refused for its reason.
RefusalOK(q) ==
  /\ q.pc \in {"confirmation", "select"} /\ ~q.reloaded =>
       /\ candidates[q.address] # None
       /\ candidates[q.address].version = q.found.version
  /\ q.pc = "again" => ConfirmationOf(q.address, q.found.version) # {}
  /\ q.pc = "done" /\ q.answer = "already_confirmed" =>
       \E row \in ConfirmationOf(q.address, q.found.version) : row.evidence # q.message
  /\ q.pc = "done" /\ q.answer = "data_updated" =>
       q.reloaded \/ q.claimed \notin {None, q.found.version}

RefusalInv == \A r \in Requests : RefusalOK(request[r])

LEMMA InitRefusal == Init => RefusalInv
  BY DEF Init, Idle, RefusalInv, RefusalOK

\* Rows only come, and a set that is replaced is noted with every request in
\* flight, so a request keeps its reasons while others move.
LEMMA RefusalStays ==
  ASSUME NEW r \in Requests, RefusalOK(request[r]),
         confirmations \subseteq confirmations',
         request[r] \in RequestState,
         \/ request'[r] = [request[r] EXCEPT !.reloaded = TRUE]
         \/ /\ request'[r] = request[r]
            /\ UNCHANGED candidates \/ request[r].pc \notin Busy
  PROVE  RefusalOK(request[r])'
<1>1. /\ request'[r].pc = request[r].pc /\ request'[r].address = request[r].address
      /\ request'[r].message = request[r].message /\ request'[r].claimed = request[r].claimed
      /\ request'[r].found = request[r].found /\ request'[r].answer = request[r].answer
      /\ \/ request'[r].reloaded
         \/ /\ request'[r].reloaded = request[r].reloaded
            /\ UNCHANGED candidates \/ request[r].pc \notin Busy
  BY DEF RequestState
<1>2. ConfirmationOf(request[r].address, request[r].found.version) \subseteq
        ConfirmationOf(request[r].address, request[r].found.version)'
  BY <1>1 DEF ConfirmationOf
<1>3. ConfirmationOf(request[r].address, request[r].found.version)' =
        {row \in confirmations' : row.address = request[r].address
                                  /\ row.version = request[r].found.version}
  BY <1>1 DEF ConfirmationOf
<1>. QED  BY <1>1, <1>2, <1>3 DEF RefusalOK, Busy, ConfirmationOf

\* The request that moves gives no refusal without its reason.
LEMMA RefusalMoves ==
  ASSUME TypeInv, RefusalInv, NEW r \in Requests, Arrives(r) \/ RequestStep(r)
  PROVE  RefusalOK(request[r])'
<1>0. /\ request \in [Requests -> RequestState] /\ RequestInv
      /\ request[r] \in RequestState /\ RequestOK(request[r]) /\ RefusalOK(request[r])
      /\ UNCHANGED candidates
  BY RequestMoves DEF TypeInv, TypeOK, RequestInv, RefusalInv
<1>1. ASSUME NEW new \in RequestState, request' = [request EXCEPT ![r] = new],
             new.pc \in {"idle", "candidate", "insert", "commit", "done"},
             new.pc = "done" => new.answer \notin {"already_confirmed", "data_updated"}
      PROVE  RefusalOK(request[r])'
  <2>1. request'[r] = new
    BY <1>0, <1>1
  <2>. QED  BY <1>1, <2>1 DEF RefusalOK
<1>2. ASSUME NEW answer \in Answers, Answer(r, answer)
      PROVE  \/ RefusalOK(request[r])'
             \/ /\ answer \in {"already_confirmed", "data_updated"}
                /\ request'[r].pc = "done" /\ request'[r].answer = answer
                /\ request'[r].address = request[r].address
                /\ request'[r].message = request[r].message
                /\ request'[r].claimed = request[r].claimed
                /\ request'[r].found = request[r].found
                /\ request'[r].reloaded = request[r].reloaded
  <2>. DEFINE new == [request[r] EXCEPT !.pc = "done", !.answer = answer]
  <2>1. CASE request[r].message = None
    <3>1. request' = [request EXCEPT ![r] = Idle]
      BY <1>2, <2>1 DEF Answer
    <3>. QED  BY <1>1, <3>1, IdleOK DEF Idle
  <2>2. CASE request[r].message # None
    <3>1. request' = [request EXCEPT ![r] = new] /\ request'[r] = new
      BY <1>0, <1>2, <2>2 DEF Answer
    <3>2. new \in RequestState /\ new.pc = "done" /\ new.answer = answer
      BY <1>0, <1>2 DEF RequestState
    <3>3. CASE answer \notin {"already_confirmed", "data_updated"}
      BY <1>1, <3>1, <3>2, <3>3
    <3>4. CASE answer \in {"already_confirmed", "data_updated"}
      BY <1>0, <3>1, <3>4 DEF RequestState
    <3>. QED  BY <3>3, <3>4
  <2>. QED  BY <2>1, <2>2
<1>3. ASSUME NEW pc \in {"insert", "commit"}, Step(r, pc)
      PROVE  RefusalOK(request[r])'
  <2>1. [request[r] EXCEPT !.pc = pc] \in RequestState
    BY <1>0, <1>3 DEF RequestState, Busy, InTransaction
  <2>. QED  BY <1>0, <1>1, <1>3, <2>1 DEF Step, RequestState
<1>4. ASSUME NEW row \in ConfirmationOf(request[r].address, request[r].found.version),
             Replay(r, row), UNCHANGED confirmations
      PROVE  RefusalOK(request[r])'
  <2>1. CASE row.evidence = request[r].message
    BY <1>2, <1>4, <2>1 DEF Replay, Answers
  <2>2. CASE row.evidence # request[r].message
    <3>1. Answer(r, "already_confirmed")
      BY <1>4, <2>2 DEF Replay
    <3>2. \/ RefusalOK(request[r])'
          \/ /\ request'[r].pc = "done" /\ request'[r].answer = "already_confirmed"
             /\ request'[r].address = request[r].address
             /\ request'[r].message = request[r].message
             /\ request'[r].found = request[r].found
      BY <1>2, <3>1 DEF Answers
    <3>. QED  BY <1>4, <2>2, <3>2 DEF RefusalOK, ConfirmationOf
  <2>. QED  BY <2>1, <2>2
<1>5. CASE Arrives(r)
  <2>1. CASE \E a \in Addresses : Ask(r, a)
    <3>1. PICK a \in Addresses : Ask(r, a)
      BY <2>1
    <3>2. NewRequest(a, None, None) \in RequestState
          /\ NewRequest(a, None, None).pc = "candidate"
      BY IdleOK DEF NewRequest, RequestState, Busy
    <3>. QED  BY <1>1, <3>1, <3>2 DEF Ask
  <2>2. CASE \E m \in challenges : \E claimed \in Versions \cup {None} : Submit(r, m, claimed)
    <3>1. PICK m \in challenges, claimed \in Versions \cup {None} : Submit(r, m, claimed)
      BY <2>2
    <3>. DEFINE pc == IF ClockAnswer(m) = "none" THEN "candidate" ELSE "done"
                base == NewRequest(m.address, m, claimed)
                new == [base EXCEPT !.pc = pc, !.answer = ClockAnswer(m)]
    <3>2. ClockAnswer(m) \in {"not_valid_yet", "expired", "none"}
      BY DEF ClockAnswer
    <3>3. m \in Message /\ m.address \in Addresses
      BY DEF TypeInv, TypeOK, Message
    <3>4. request' = [request EXCEPT ![r] = new]
      BY <3>1 DEF Submit
    <3>5. base \in RequestState
      BY <3>3, IdleOK DEF NewRequest, RequestState, Busy
    <3>. HIDE DEF base
    <3>6. new \in RequestState /\ new.pc = pc /\ new.answer = ClockAnswer(m)
      BY <3>2, <3>5 DEF RequestState, Busy, Answers
    <3>. HIDE DEF new
    <3>. QED  BY <1>1, <3>2, <3>4, <3>6
  <2>. QED  BY <1>5, <2>1, <2>2 DEF Arrives
<1>6. CASE FindCandidate(r)
  <2>. DEFINE row == candidates[request[r].address]
              found == [request[r] EXCEPT !.pc = "confirmation", !.found = row]
              refused == [request[r] EXCEPT
                            !.pc = "done", !.found = row,
                            !.answer = IF row = None THEN "not_eligible"
                                       ELSE "data_updated"]
  <2>1. CASE row # None /\ request'[r] = found
    <3>1. /\ request'[r].pc = "confirmation" /\ request'[r].found = row
          /\ request'[r].address = request[r].address
      BY <1>0, <2>1 DEF RequestState
    <3>. QED  BY <1>0, <2>1, <3>1 DEF RefusalOK
  <2>2. CASE request' = [request EXCEPT ![r] = Idle]
    BY <1>1, <2>2, IdleOK DEF Idle
  <2>3. CASE /\ ~(row # None /\ request[r].claimed \in {None, row.version})
             /\ request'[r] = refused
    <3>1. /\ request'[r].pc = "done" /\ request'[r].found = row
          /\ request'[r].answer = IF row = None THEN "not_eligible" ELSE "data_updated"
          /\ request'[r].claimed = request[r].claimed
      BY <1>0, <2>3 DEF RequestState
    <3>. QED  BY <2>3, <3>1 DEF RefusalOK
  <2>. QED  BY <1>0, <1>6, <2>1, <2>2, <2>3 DEF FindCandidate
<1>7. CASE FindConfirmation(r)
  <2>1. PICK rows : /\ rows = ConfirmationOf(request[r].address, request[r].found.version)
                    /\ ChallengeConfirmation(r, rows) \/ SubmitConfirmation(r, rows)
    BY <1>7 DEF FindConfirmation
  <2>2. UNCHANGED confirmations /\ request[r].pc = "confirmation"
    BY <1>7 DEF FindConfirmation
  <2>3. CASE Step(r, "select")
    <3>1. request'[r] = [request[r] EXCEPT !.pc = "select"]
      BY <1>0, <2>3 DEF Step
    <3>2. /\ request'[r].pc = "select" /\ request'[r].found = request[r].found
          /\ request'[r].address = request[r].address
          /\ request'[r].reloaded = request[r].reloaded
      BY <1>0, <3>1 DEF RequestState
    <3>. QED  BY <1>0, <2>2, <3>2 DEF RefusalOK
  <2>4. CASE Answer(r, "none") \/ Answer(r, "bad_signature")
    BY <1>2, <2>4 DEF Answers
  <2>5. CASE \E row \in rows : Replay(r, row)
    BY <1>4, <2>1, <2>2, <2>5
  <2>. QED  BY <2>1, <2>3, <2>4, <2>5 DEF ChallengeConfirmation, SubmitConfirmation
<1>8. CASE InsertSelect(r)
  <2>1. CASE Step(r, "insert")
    BY <1>3, <2>1
  <2>2. CASE /\ Answer(r, "data_updated")
             /\ ~(/\ candidates[request[r].address] # None
                  /\ candidates[request[r].address].version = request[r].found.version)
    <3>1. request[r].reloaded
      BY <1>0, <1>8, <2>2 DEF RefusalOK, InsertSelect
    <3>. QED  BY <1>2, <2>2, <3>1 DEF RefusalOK, Answers
  <2>. QED  BY <1>8, <2>1, <2>2 DEF InsertSelect
<1>9. CASE InsertRow(r)
  <2>1. CASE Step(r, "commit")
    BY <1>3, <2>1
  <2>2. CASE /\ Step(r, "again")
             /\ ConfirmationOf(request[r].address, request[r].found.version) # {}
    <3>1. request'[r] = [request[r] EXCEPT !.pc = "again"]
      BY <1>0, <2>2 DEF Step
    <3>2. /\ request'[r].pc = "again" /\ request'[r].found = request[r].found
          /\ request'[r].address = request[r].address
      BY <1>0, <3>1 DEF RequestState
    <3>3. UNCHANGED confirmations
      BY <1>9 DEF InsertRow
    <3>. QED  BY <2>2, <3>2, <3>3 DEF RefusalOK, ConfirmationOf
  <2>. QED  BY <1>9, <2>1, <2>2 DEF InsertRow
<1>10. CASE InsertCommit(r) \/ Fail(r)
  <2>1. Answer(r, "recorded") \/ Answer(r, "error")
    BY <1>10 DEF InsertCommit, Fail
  <2>. QED  BY <1>2, <2>1 DEF Answers
<1>11. CASE FindAgain(r)
  <2>1. /\ ConfirmationOf(request[r].address, request[r].found.version) # {}
        /\ UNCHANGED confirmations
    BY <1>0, <1>11 DEF RefusalOK, FindAgain
  <2>. QED  BY <1>4, <1>11, <2>1 DEF FindAgain
<1>. QED  BY <1>5, <1>6, <1>7, <1>8, <1>9, <1>10, <1>11 DEF RequestStep

LEMMA NextRefusal == TypeInv /\ RefusalInv /\ [Next]_vars => RefusalInv'
<1>. SUFFICES ASSUME TypeInv, RefusalInv, [Next]_vars PROVE RefusalInv'
  OBVIOUS
<1>0. \A q \in Requests : request[q] \in RequestState /\ RefusalOK(request[q])
  BY DEF TypeInv, TypeOK, RefusalInv
<1>1. ASSUME NEW r \in Requests, Arrives(r) \/ RequestStep(r)
      PROVE  RefusalInv'
  <2>1. /\ UNCHANGED candidates
        /\ \A q \in Requests \ {r} : request'[q] = request[q]
        /\ confirmations \subseteq confirmations'
    BY <1>1, RequestMoves DEF Leaves, Enters, Inserts
  <2>2. ASSUME NEW q \in Requests \ {r} PROVE RefusalOK(request[q])'
    BY <1>0, <2>1, RefusalStays
  <2>3. RefusalOK(request[r])'
    BY <1>1, RefusalMoves
  <2>4. ASSUME NEW q \in Requests PROVE RefusalOK(request[q])'
    BY <2>2, <2>3
  <2>. QED  BY <2>4 DEF RefusalInv
<1>2. CASE \/ \E wallets \in SUBSET Attestable : ReadCandidates(wallets)
           \/ AttestationStep
           \/ \E v \in Versions, cutoff \in Cutoffs : SelectCandidates(v, cutoff)
           \/ LoaderStep
           \/ \E v \in Versions : InjectLedger(v)
           \/ Tick
           \/ UNCHANGED vars
  <2>1. confirmations \subseteq confirmations'
    BY <1>2 DEF ReadCandidates, AttestationStep, PlanAttestation, CheckPlan, InsertPlan,
                CommitPlan, StopAttestation, SelectCandidates, LoaderStep, AskTruncate,
                TruncateCandidates, CommitLoad, FailLoad, InjectLedger, Tick, ownerVars, vars
  <2>2. \A q \in Requests :
          \/ request'[q] = [request[q] EXCEPT !.reloaded = TRUE]
          \/ /\ request'[q] = request[q]
             /\ UNCHANGED candidates \/ request[q].pc \notin Busy
    BY <1>2 DEF ReadCandidates, AttestationStep, PlanAttestation, CheckPlan, InsertPlan,
                CommitPlan, StopAttestation, SelectCandidates, LoaderStep, AskTruncate,
                TruncateCandidates, CommitLoad, FailLoad, InjectLedger, Tick, apiVars, vars
  <2>3. ASSUME NEW q \in Requests PROVE RefusalOK(request[q])'
    BY <1>0, <2>1, <2>2, RefusalStays
  <2>. QED  BY <2>3 DEF RefusalInv
<1>. QED  BY <1>1, <1>2 DEF Next, Arrives

\* A refusal has its reason: "already_confirmed" is answered over a row that is
\* not the caller's own signature, "data_updated" only if the set was replaced
\* under the request or the caller claimed another version.
THEOREM RefusedForAReason == Spec => []RefusalsAreDue
<1>1. RefusalInv => RefusalsAreDue
  BY DEF RefusalInv, RefusalOK, RefusalsAreDue, Done
<1>2. Init => RefusalInv
  BY InitRefusal
<1>3. IInv /\ RefusalInv /\ [Next]_vars => RefusalInv'
  BY NextRefusal DEF IInv
<1>. QED  BY <1>1, <1>2, <1>3, Invariant, PTL DEF Spec
=============================================================================
