--------------------------- MODULE VaultNamesProofs ---------------------------
(***************************************************************************)
(* Proofs about VaultNames, for any set of vaults, accounts and concurrent *)
(* submissions, and however long: what a caller is told, who signed what   *)
(* is recorded, and that the two tables implement NameRegister.            *)
(*                                                                         *)
(* The argument rests on the advisory lock.  It is held by whoever is in a *)
(* transaction of the vault and by nobody else (LockIsHeld), so between    *)
(* the row a submission reads and its COMMIT the row stays what it was,    *)
(* and a change that was found to be newer than it still is when it is     *)
(* written (RequestInv).                                                   *)
(***************************************************************************)
EXTENDS VaultNames, TLAPS

\* What is known of a submission q: it has its change; the governor of its
\* vault is among those noted; past the governor read, so is the signer; what
\* it is about to write was issued after the name now shown, so that no
\* signature is written twice; its answer is true.
RequestInv(q) ==
  LET v == q.change.message.vault IN
  /\ q.pc # "idle" => q.change \in Change
  /\ q.pc # "conflict"
  /\ q.pc \in Busy => governor[v] \in q.governors \cup {None}
  /\ q.pc \in {"lock"} \cup InTransaction => q.change.signer \in q.governors
  /\ q.pc \in {"write", "commit"} =>
       metadata[v] = None \/ IssuedAt(metadata[v]) < IssuedAt(q.change)
  /\ q.pc = "done" /\ q.answer = "saved" => q.change \in changes
  /\ q.pc = "done" /\ q.answer = "stale" =>
       \E other \in changes \ {q.change} :
         other.message.vault = v /\ IssuedAt(other) >= IssuedAt(q.change)

InVault(q, v) == q.pc \in InTransaction /\ q.change.message.vault = v

\* A vault's lock is held by whoever is in a transaction of that vault, so by
\* one at most, and by nobody who is not.
LockIsHeld ==
  \A v \in Vaults, r \in Requests : locked[v] = r <=> InVault(request[r], v)

\* A name that is shown is in the history of its vault.
ShownIsRecorded ==
  \A v \in Vaults : metadata[v] # None =>
    metadata[v] \in changes /\ metadata[v].message.vault = v

\* A vault with a history shows a name, and no other was issued as late.
NewestIsShown ==
  \A c \in changes :
    LET current == metadata[c.message.vault] IN
    /\ current # None
    /\ c = current \/ IssuedAt(c) < IssuedAt(current)

\* The inductive invariant.
Inv ==
  /\ TypeOK
  /\ \A r \in Requests : RequestInv(request[r])
  /\ LockIsHeld /\ ShownIsRecorded /\ NewestIsShown

-----------------------------------------------------------------------------
(* One submission moves and no row changes.                                *)

\* A submission that goes on to q holds the lock of the vault it is then in a
\* transaction of, and no other; it took it from nobody.
LockGoesWith(r, q) ==
  /\ locked' = [v \in Vaults |-> IF InVault(q, v) THEN r
                                 ELSE IF locked[v] = r THEN None ELSE locked[v]]
  /\ \A v \in Vaults : InVault(q, v) => locked[v] \in {None, r}

\* The locks are as LockIsHeld says, before and after such a move.
LEMMA LockMoves ==
  ASSUME Inv, NEW r \in Requests, NEW q \in RequestState,
         request' = [request EXCEPT ![r] = q], LockGoesWith(r, q)
  PROVE  /\ LockIsHeld'
         /\ locked' \in [Vaults -> Requests \cup {None}]
<1>1. /\ request \in [Requests -> RequestState]
      /\ locked \in [Vaults -> Requests \cup {None}]
  BY DEF Inv, TypeOK
<1>2. \A s \in Requests : request'[s] = IF s = r THEN q ELSE request[s]
  BY <1>1
<1>3. \A v \in Vaults :
        locked'[v] = IF InVault(q, v) THEN r
                     ELSE IF locked[v] = r THEN None ELSE locked[v]
  BY DEF LockGoesWith
<1>4. ASSUME NEW v \in Vaults, NEW s \in Requests
      PROVE  locked'[v] = s <=> InVault(request'[s], v)
  <2>1. CASE s = r
    BY <1>2, <1>3, <2>1, ConstantsAssumption
  <2>2. CASE s # r
    <3>1. locked[v] = s <=> InVault(request[s], v)
      BY DEF Inv, LockIsHeld
    <3>2. locked'[v] = s <=> locked[v] = s
      BY <1>3, <2>2, ConstantsAssumption DEF LockGoesWith
    <3>3. QED
      BY <1>2, <2>2, <3>1, <3>2
  <2>3. QED
    BY <2>1, <2>2
<1>5. LockIsHeld'
  BY <1>4 DEF LockIsHeld, InVault
<1>6. locked' \in [Vaults -> Requests \cup {None}]
  BY <1>1 DEF LockGoesWith
<1>7. QED
  BY <1>5, <1>6

\* It goes on within its transaction, or outside one, ...
LEMMA LockStays ==
  ASSUME Inv, NEW r \in Requests, NEW q \in RequestState, UNCHANGED locked,
         q.pc \in InTransaction <=> request[r].pc \in InTransaction,
         q.pc \in InTransaction => q.change = request[r].change
  PROVE  LockGoesWith(r, q)
<1>1. locked \in [Vaults -> Requests \cup {None}]
  BY DEF Inv, TypeOK
<1>2. \A v \in Vaults : locked[v] = r <=> InVault(q, v)
  BY DEF Inv, LockIsHeld, InVault
<1>3. \A v \in Vaults :
        locked[v] = IF InVault(q, v) THEN r
                    ELSE IF locked[v] = r THEN None ELSE locked[v]
  BY <1>2
<1>4. QED
  BY <1>1, <1>2, <1>3 DEF LockGoesWith

\* ... or its transaction ends.
LEMMA LockEnds ==
  ASSUME NEW r \in Requests, NEW q, Release(r), q.pc \notin InTransaction
  PROVE  LockGoesWith(r, q)
BY DEF Release, LockGoesWith, InVault

\* The invariant follows from what is known of the submission that moved.
LEMMA MoveKeeps ==
  ASSUME Inv, NEW r \in Requests, NEW q \in RequestState,
         request' = [request EXCEPT ![r] = q],
         UNCHANGED <<now, governor, transfers, challenges, metadata, changes>>,
         RequestInv(q), LockGoesWith(r, q)
  PROVE  Inv'
<1>1. request \in [Requests -> RequestState]
  BY DEF Inv, TypeOK
<1>2. \A s \in Requests : request'[s] = IF s = r THEN q ELSE request[s]
  BY <1>1
<1>3. TypeOK'
  BY <1>1, LockMoves DEF Inv, TypeOK
<1>4. ASSUME NEW s \in Requests PROVE RequestInv(request[s])'
  <2>1. RequestInv(request'[s])
    BY <1>2 DEF Inv
  <2>2. QED
    BY <2>1 DEF RequestInv
<1>5. LockIsHeld'
  BY LockMoves
<1>6. ShownIsRecorded' /\ NewestIsShown'
  BY DEF Inv, ShownIsRecorded, NewestIsShown
<1>7. QED
  BY <1>3, <1>4, <1>5, <1>6 DEF Inv

Ended(q, answer) == [q EXCEPT !.pc = "done", !.answer = answer, !.governors = {}]

\* A step to a new place of the code, or to an answer, is such a move.
LEMMA StepIsMove ==
  ASSUME TypeOK, NEW r \in Requests, request[r].pc \in Busy
  PROVE  /\ \A pc : Step(r, pc) =>
              request' = [request EXCEPT ![r] = [request[r] EXCEPT !.pc = pc]]
         /\ \A answer : Answer(r, answer) =>
              request' = [request EXCEPT ![r] = Ended(request[r], answer)]
<1>1. request \in [Requests -> RequestState] /\ request[r] \in RequestState
  BY DEF TypeOK
<1>2. QED
  BY <1>1 DEF Step, Answer, Ended, RequestState

LEMMA SubmitKeeps ==
  ASSUME Inv, NEW r \in Requests, NEW m \in challenges, NEW signer \in Accounts,
         SubmitName(r, m, signer)
  PROVE  Inv'
<1> DEFINE q == [pc        |-> IF ClockAnswer(m) = "none" THEN "code" ELSE "done",
                 change    |-> [message |-> m, signer |-> signer],
                 answer    |-> ClockAnswer(m),
                 governors |-> {governor[m.vault]} \ {None}]
<1>1. m \in Message /\ m.vault \in Vaults /\ governor[m.vault] \in Accounts \cup {None}
  BY DEF Inv, TypeOK, Message
<1>2. ClockAnswer(m) \in {"not_valid_yet", "expired", "none"}
  BY DEF ClockAnswer
<1>3. q \in RequestState /\ q.change \in Change
  BY <1>1, <1>2 DEF RequestState, Change, Busy, Answers
<1>4. RequestInv(q)
  BY <1>1, <1>2, <1>3 DEF RequestInv, Busy, InTransaction
<1>5. q.pc \notin InTransaction /\ request[r].pc \notin InTransaction
  BY DEF InTransaction, SubmitName, Busy
<1>6. UNCHANGED locked
  BY DEF SubmitName
<1> HIDE DEF q
<1>7. LockGoesWith(r, q)
  BY <1>3, <1>5, <1>6, LockStays
<1>8. request' = [request EXCEPT ![r] = q]
  BY DEF SubmitName, q
<1>9. QED
  BY <1>3, <1>4, <1>7, <1>8, MoveKeeps DEF SubmitName

\* On the way to the lock, a submission holds none.
LEMMA BeforeTheLock ==
  ASSUME Inv, NEW r \in Requests, request[r].pc \in {"code", "governor"},
         NEW q \in RequestState, RequestInv(q), q.pc \notin InTransaction,
         request' = [request EXCEPT ![r] = q],
         UNCHANGED <<now, governor, transfers, challenges, metadata, changes, locked>>
  PROVE  Inv'
<1>1. LockGoesWith(r, q)
  BY LockStays DEF InTransaction
<1>2. QED
  BY <1>1, MoveKeeps

LEMMA ReadCodeKeeps ==
  ASSUME Inv, NEW r \in Requests, ReadCode(r)
  PROVE  Inv'
<1> DEFINE old == request[r]
           q == [old EXCEPT !.pc = "governor"]
<1>1. /\ old \in RequestState /\ old.pc = "code" /\ RequestInv(old) /\ TypeOK
      /\ old.pc \in Busy /\ old.change \in Change
  BY DEF Inv, TypeOK, ReadCode, Busy, RequestInv
<1>2. CASE Answer(r, "not_vault")
  <2>1. request' = [request EXCEPT ![r] = Ended(old, "not_vault")]
    BY <1>1, <1>2, StepIsMove
  <2>2. /\ Ended(old, "not_vault") \in RequestState /\ RequestInv(Ended(old, "not_vault"))
        /\ Ended(old, "not_vault").pc \notin InTransaction
    BY <1>1 DEF Ended, RequestState, Answers, RequestInv, Busy, InTransaction
  <2>3. QED
    BY <1>1, <2>1, <2>2, BeforeTheLock DEF ReadCode
<1>3. CASE Step(r, "governor")
  <2>1. request' = [request EXCEPT ![r] = q]
    BY <1>1, <1>3, StepIsMove
  <2>2. q \in RequestState /\ RequestInv(q) /\ q.pc \notin InTransaction
    BY <1>1 DEF RequestState, RequestInv, Busy, InTransaction
  <2> HIDE DEF q
  <2>3. QED
    BY <1>1, <2>1, <2>2, BeforeTheLock DEF ReadCode
<1>4. QED
  BY <1>2, <1>3 DEF ReadCode

LEMMA ReadGovernorKeeps ==
  ASSUME Inv, NEW r \in Requests, ReadGovernor(r)
  PROVE  Inv'
<1> DEFINE old == request[r]
           g == governor[VaultOf(r)]
           q == [old EXCEPT !.pc = "lock"]
<1>1. /\ old \in RequestState /\ old.pc = "governor" /\ RequestInv(old) /\ TypeOK
      /\ old.pc \in Busy /\ old.change \in Change
  BY DEF Inv, TypeOK, ReadGovernor, Busy, RequestInv
<1>2. g \in old.governors \cup {None} /\ old.change.signer # None
  BY <1>1, ConstantsAssumption DEF RequestInv, VaultOf, Change
<1>3. CASE Answer(r, "not_governor")
  <2>1. request' = [request EXCEPT ![r] = Ended(old, "not_governor")]
    BY <1>1, <1>3, StepIsMove
  <2>2. /\ Ended(old, "not_governor") \in RequestState
        /\ RequestInv(Ended(old, "not_governor"))
        /\ Ended(old, "not_governor").pc \notin InTransaction
    BY <1>1 DEF Ended, RequestState, Answers, RequestInv, Busy, InTransaction
  <2>3. QED
    BY <1>1, <2>1, <2>2, BeforeTheLock DEF ReadGovernor
<1>4. CASE old.change.signer = g /\ Step(r, "lock")
  <2>1. request' = [request EXCEPT ![r] = q]
    BY <1>1, <1>4, StepIsMove
  <2>2. q \in RequestState /\ RequestInv(q) /\ q.pc \notin InTransaction
    BY <1>1, <1>2, <1>4 DEF RequestState, RequestInv, Busy, InTransaction
  <2> HIDE DEF q
  <2>3. QED
    BY <1>1, <2>1, <2>2, BeforeTheLock DEF ReadGovernor
<1>5. QED
  BY <1>3, <1>4 DEF ReadGovernor

\* The lock is free: nobody is in a transaction of the vault.
LEMMA LockVaultKeeps ==
  ASSUME Inv, NEW r \in Requests, LockVault(r)
  PROVE  Inv'
<1> DEFINE old == request[r]
           q == [old EXCEPT !.pc = "select"]
<1>1. /\ old \in RequestState /\ old.pc = "lock" /\ RequestInv(old) /\ TypeOK
      /\ old.pc \in Busy /\ old.change \in Change
  BY DEF Inv, TypeOK, LockVault, Busy, RequestInv
<1>2. request' = [request EXCEPT ![r] = q]
  BY <1>1, StepIsMove DEF LockVault
<1>3. q \in RequestState /\ RequestInv(q)
  BY <1>1 DEF RequestState, RequestInv, Busy, InTransaction
<1>4. LockGoesWith(r, q)
  <2>1. /\ locked \in [Vaults -> Requests \cup {None}] /\ VaultOf(r) \in Vaults
        /\ \A v \in Vaults : InVault(q, v) <=> v = VaultOf(r)
    BY <1>1 DEF TypeOK, Change, Message, VaultOf, InVault, InTransaction, RequestState
  <2>2. \A v \in Vaults : locked[v] # r
    BY <1>1 DEF Inv, LockIsHeld, InVault, InTransaction
  <2>3. locked' = [locked EXCEPT ![VaultOf(r)] = r] /\ locked[VaultOf(r)] = None
    BY DEF LockVault
  <2> HIDE DEF q
  <2>4. QED
    BY <2>1, <2>2, <2>3 DEF LockGoesWith
<1>5. QED
  BY <1>2, <1>3, <1>4, MoveKeeps DEF LockVault

\* Whoever is in a transaction stays the only one in that vault.
LEMMA OthersElsewhere ==
  ASSUME Inv, NEW r \in Requests, request[r].pc \in InTransaction
  PROVE  \A s \in Requests \ {r} : request[s].pc \in InTransaction =>
           VaultOf(s) # request[r].change.message.vault
<1>1. request[r].change.message.vault \in Vaults
  BY DEF Inv, RequestInv, InTransaction, Change, Message
<1>2. QED
  BY <1>1 DEF Inv, LockIsHeld, InVault, VaultOf

LEMMA SelectCurrentKeeps ==
  ASSUME Inv, NEW r \in Requests, SelectCurrent(r)
  PROVE  Inv'
<1> DEFINE old == request[r]
           v == old.change.message.vault
           current == metadata[v]
           end(answer) == Ended(old, answer)
           q == [old EXCEPT !.pc = "write"]
<1>1. /\ old \in RequestState /\ old.pc = "select" /\ RequestInv(old) /\ TypeOK
      /\ old.pc \in Busy /\ old.pc \in InTransaction /\ old.change \in Change
  BY DEF Inv, TypeOK, SelectCurrent, Busy, InTransaction, RequestInv
<1>2. /\ v \in Vaults /\ current \in Change \cup {None}
      /\ old.change # None /\ IssuedAt(old.change) \in Int
      /\ current # None => IssuedAt(current) \in Int
  BY <1>1, ConstantsAssumption DEF TypeOK, Change, Message, IssuedAt, Time
<1>3. ASSUME NEW answer \in {"saved", "stale"}, Answer(r, answer), Release(r),
             RequestInv(end(answer))
      PROVE  Inv'
  <2>1. request' = [request EXCEPT ![r] = end(answer)]
    BY <1>1, <1>3, StepIsMove
  <2>2. end(answer) \in RequestState
    BY <1>1 DEF Ended, RequestState, Answers
  <2>3. LockGoesWith(r, end(answer))
    <3>1. end(answer).pc \notin InTransaction
      BY <1>1 DEF Ended, RequestState, InTransaction
    <3> HIDE DEF end
    <3>2. QED
      BY <1>3, <3>1, LockEnds
  <2>4. QED
    BY <1>3, <2>1, <2>2, <2>3, MoveKeeps DEF SelectCurrent
<1>4. CASE current = old.change /\ Answer(r, "saved") /\ Release(r)
  <2>1. old.change \in changes
    BY <1>2, <1>4 DEF Inv, ShownIsRecorded
  <2>2. RequestInv(end("saved"))
    BY <1>1, <2>1 DEF Ended, RequestState, RequestInv, Busy, InTransaction
  <2>3. QED
    BY <1>3, <1>4, <2>2
<1>5. CASE /\ current # old.change /\ current # None
           /\ IssuedAt(current) >= IssuedAt(old.change)
           /\ Answer(r, "stale") /\ Release(r)
  <2>1. current \in changes \ {old.change} /\ current.message.vault = v
    BY <1>2, <1>5 DEF Inv, ShownIsRecorded
  <2>2. RequestInv(end("stale"))
    BY <1>1, <1>5, <2>1 DEF Ended, RequestState, RequestInv, Busy, InTransaction
  <2>3. QED
    BY <1>3, <1>5, <2>2
<1>6. CASE /\ ~(current # None /\ IssuedAt(current) >= IssuedAt(old.change))
           /\ Step(r, "write") /\ UNCHANGED locked
  <2>1. request' = [request EXCEPT ![r] = q]
    BY <1>1, <1>6, StepIsMove
  <2>2. current = None \/ IssuedAt(current) < IssuedAt(old.change)
    BY <1>2, <1>6
  <2>3. q \in RequestState /\ RequestInv(q)
    BY <1>1, <2>2 DEF RequestState, RequestInv, Busy, InTransaction
  <2>4. q.change = old.change /\ q.pc \in InTransaction
    BY <1>1 DEF RequestState, InTransaction
  <2> HIDE DEF q
  <2>5. LockGoesWith(r, q)
    BY <1>1, <1>6, <2>3, <2>4, LockStays
  <2>6. QED
    BY <2>1, <2>3, <2>5, MoveKeeps DEF SelectCurrent
<1>7. QED
  BY <1>4, <1>5, <1>6 DEF SelectCurrent, VaultOf, IssuedAt

\* A change that is newer than the name shown is not in the history.
LEMMA NewerIsNotRecorded ==
  ASSUME Inv, NEW r \in Requests, request[r].pc \in {"write", "commit"}
  PROVE  /\ request[r].change \in Change /\ request[r].change \notin changes
         /\ \A c \in changes : c.message.vault = VaultOf(r) =>
              IssuedAt(c) < IssuedAt(request[r].change)
<1> DEFINE change == request[r].change
           v == change.message.vault
<1>1. RequestInv(request[r]) /\ change \in Change /\ v \in Vaults
  BY DEF Inv, RequestInv, Change, Message
<1>2. metadata[v] = None \/ IssuedAt(metadata[v]) < IssuedAt(change)
  BY <1>1 DEF RequestInv
<1>3. ASSUME NEW c \in changes, c.message.vault = v
      PROVE  IssuedAt(c) < IssuedAt(change)
  <2>1. metadata[v] # None /\ (c = metadata[v] \/ IssuedAt(c) < IssuedAt(metadata[v]))
    BY <1>3 DEF Inv, NewestIsShown
  <2>2. c \in Change /\ metadata[v] \in Change
    BY <1>1, <2>1 DEF Inv, TypeOK
  <2>3. IssuedAt(c) \in Int /\ IssuedAt(metadata[v]) \in Int /\ IssuedAt(change) \in Int
    BY <1>1, <2>2, ConstantsAssumption DEF Change, Message, IssuedAt, Time
  <2>4. QED
    BY <1>2, <2>1, <2>3
<1>4. IssuedAt(change) \in Int
  BY <1>1, ConstantsAssumption DEF Change, Message, IssuedAt, Time
<1>5. QED
  BY <1>1, <1>3, <1>4 DEF VaultOf

\* So the unique constraint holds and the write succeeds.
LEMMA WriteChangeKeeps ==
  ASSUME Inv, NEW r \in Requests, WriteChange(r)
  PROVE  Inv'
<1> DEFINE old == request[r]
           q == [old EXCEPT !.pc = "commit"]
<1>1. /\ old \in RequestState /\ old.pc = "write" /\ RequestInv(old) /\ TypeOK
      /\ old.pc \in Busy /\ old.pc \in InTransaction
  BY DEF Inv, TypeOK, WriteChange, Busy, InTransaction
<1>2. Step(r, "commit") /\ UNCHANGED locked
  BY <1>1, NewerIsNotRecorded DEF WriteChange
<1>3. request' = [request EXCEPT ![r] = q]
  BY <1>1, <1>2, StepIsMove
<1>4. /\ q \in RequestState /\ RequestInv(q) /\ q.change = old.change
      /\ q.pc \in InTransaction
  BY <1>1 DEF RequestState, RequestInv, Busy, InTransaction
<1> HIDE DEF q
<1>5. LockGoesWith(r, q)
  BY <1>1, <1>2, <1>4, LockStays
<1>6. QED
  BY <1>3, <1>4, <1>5, MoveKeeps DEF WriteChange

\* Nobody is there to list the names again.
LEMMA ReadRowKeeps ==
  ASSUME Inv, NEW r \in Requests, ReadRow(r)
  PROVE  Inv'
<1>1. request[r].pc # "conflict"
  BY DEF Inv, RequestInv
<1>2. QED
  BY <1>1, SelectCurrentKeeps DEF ReadRow

-----------------------------------------------------------------------------
(* The rows of a transaction become visible.                               *)

LEMMA PublishKeeps ==
  ASSUME Inv, NEW r \in Requests, request[r].pc = "commit", Publish(r),
         NEW answer \in {"saved", "error"}, Answer(r, answer), Release(r),
         UNCHANGED <<now, governor, transfers, challenges>>
  PROVE  Inv'
<1> DEFINE old == request[r]
           change == old.change
           v == change.message.vault
           q == Ended(old, answer)
<1>1. /\ old \in RequestState /\ old.pc = "commit" /\ RequestInv(old) /\ TypeOK
      /\ old.pc \in Busy /\ old.pc \in InTransaction
  BY DEF Inv, TypeOK, Busy, InTransaction
<1>2. /\ change \in Change /\ v \in Vaults /\ change # None
      /\ \A c \in changes : c.message.vault = v => IssuedAt(c) < IssuedAt(change)
  BY <1>1, NewerIsNotRecorded, ConstantsAssumption DEF Change, Message, VaultOf
<1>3. /\ request' = [request EXCEPT ![r] = q] /\ q \in RequestState
      /\ q.pc = "done" /\ q.change = change /\ q.answer = answer
  BY <1>1, StepIsMove DEF Ended, RequestState, Answers
<1>4. \A s \in Requests : request'[s] = IF s = r THEN q ELSE request[s]
  BY <1>1, <1>3 DEF TypeOK
<1>5. changes' = changes \cup {change}
  BY DEF Publish
<1>6. /\ metadata' \in [Vaults -> Change \cup {None}]
      /\ \A w \in Vaults : metadata'[w] = IF w = v THEN change ELSE metadata[w]
  BY <1>1, <1>2 DEF Publish, TypeOK, VaultOf
<1>7. LockIsHeld' /\ locked' \in [Vaults -> Requests \cup {None}]
  <2>1. LockGoesWith(r, q)
    BY <1>3, LockEnds DEF InTransaction
  <2>2. QED
    BY <1>3, <2>1, LockMoves
<1>8. TypeOK'
  BY <1>1, <1>2, <1>3, <1>5, <1>6, <1>7 DEF TypeOK
<1>9. ASSUME NEW s \in Requests PROVE RequestInv(request[s])'
  <2>1. CASE s = r
    <3>1. /\ request'[s].pc = "done" /\ request'[s].change = change
          /\ request'[s].answer \in {"saved", "error"}
      BY <1>3, <1>4, <2>1
    <3>2. change \in Change /\ change \in changes'
      BY <1>2, <1>5
    <3> HIDE DEF change, q
    <3>3. QED
      BY <3>1, <3>2 DEF RequestInv, Busy, InTransaction
  <2>2. CASE s # r
    <3>1. request'[s] = request[s] /\ RequestInv(request[s])
      BY <1>4, <2>2 DEF Inv
    <3>2. ASSUME request[s].pc \in {"write", "commit"}
          PROVE  LET w == request[s].change.message.vault IN
                 metadata'[w] = None \/ IssuedAt(metadata'[w]) < IssuedAt(request[s].change)
      <4>1. VaultOf(s) # v
        BY <1>1, <2>2, <3>2, OthersElsewhere DEF InTransaction
      <4>2. request[s].change \in Change /\ VaultOf(s) \in Vaults
        BY <3>1, <3>2 DEF RequestInv, Change, Message, VaultOf
      <4>3. metadata'[VaultOf(s)] = metadata[VaultOf(s)]
        BY <1>6, <4>1, <4>2
      <4>4. QED
        BY <3>1, <3>2, <4>3 DEF RequestInv, VaultOf
    <3>3. QED
      BY <1>5, <3>1, <3>2 DEF RequestInv, IssuedAt
  <2>3. QED
    BY <2>1, <2>2
<1>10. ShownIsRecorded'
  BY <1>2, <1>5, <1>6 DEF Inv, ShownIsRecorded
<1>11. NewestIsShown'
  <2>1. SUFFICES ASSUME NEW c \in changes'
                 PROVE  /\ metadata'[c.message.vault] # None
                        /\ \/ c = metadata'[c.message.vault]
                           \/ IssuedAt(c) < IssuedAt(metadata'[c.message.vault])
    BY DEF NewestIsShown, IssuedAt
  <2>2. CASE c = change
    BY <1>2, <1>6, <2>2
  <2>3. CASE c \in changes
    <3>1. c.message.vault \in Vaults
      BY <1>1, <2>3 DEF TypeOK, Change, Message
    <3>2. QED
      BY <1>2, <1>6, <2>3, <3>1 DEF Inv, NewestIsShown
  <2>4. QED
    BY <1>5, <2>2, <2>3
<1>12. QED
  BY <1>7, <1>8, <1>9, <1>10, <1>11 DEF Inv

LEMMA FailKeeps ==
  ASSUME Inv, NEW r \in Requests, Fail(r)
  PROVE  Inv'
<1> DEFINE old == request[r]
           q == Ended(old, "error")
<1>1. CASE request[r].pc = "commit" /\ Publish(r)
  BY <1>1, PublishKeeps DEF Fail
<1>2. CASE UNCHANGED <<metadata, changes>>
  <2>1. /\ old \in RequestState /\ RequestInv(old) /\ TypeOK /\ old.pc \in Busy
        /\ old.change \in Change
    BY DEF Inv, TypeOK, Fail, RequestInv, Busy, InTransaction
  <2>2. request' = [request EXCEPT ![r] = q]
    BY <2>1, StepIsMove DEF Fail
  <2>3. q \in RequestState /\ RequestInv(q) /\ q.pc \notin InTransaction
    BY <2>1 DEF Ended, RequestState, Answers, RequestInv, Busy, InTransaction
  <2>4. LockGoesWith(r, q)
    BY <2>3, LockEnds DEF Fail
  <2>5. QED
    BY <1>2, <2>2, <2>3, <2>4, MoveKeeps DEF Fail
<1>3. QED
  BY <1>1, <1>2 DEF Fail

-----------------------------------------------------------------------------
(* What others do.                                                         *)

\* The new governor is noted by every submission that runs.
LEMMA TransferKeeps ==
  ASSUME Inv, NEW v \in Vaults, NEW account \in Accounts, Transfer(v, account)
  PROVE  Inv'
<1>1. TypeOK
  BY DEF Inv
<1>2. /\ governor' \in [Vaults -> Accounts \cup {None}]
      /\ \A w \in Vaults : governor'[w] = IF w = v THEN account ELSE governor[w]
  BY <1>1 DEF TypeOK, Transfer
<1>3. \A s \in Requests :
        /\ request'[s] \in RequestState
        /\ request'[s].pc = request[s].pc /\ request'[s].change = request[s].change
        /\ request'[s].answer = request[s].answer
        /\ request[s].governors \subseteq request'[s].governors
        /\ request[s].pc \in Busy /\ VaultOf(s) = v => account \in request'[s].governors
  <2> SUFFICES ASSUME NEW s \in Requests
               PROVE  /\ request'[s] \in RequestState
                      /\ request'[s].pc = request[s].pc
                      /\ request'[s].change = request[s].change
                      /\ request'[s].answer = request[s].answer
                      /\ request[s].governors \subseteq request'[s].governors
                      /\ request[s].pc \in Busy /\ VaultOf(s) = v =>
                           account \in request'[s].governors
    OBVIOUS
  <2>1. request[s] \in RequestState
    BY <1>1 DEF TypeOK
  <2>2. request'[s] = IF request[s].pc \in Busy /\ VaultOf(s) = v
                      THEN [request[s] EXCEPT !.governors = @ \cup {account}]
                      ELSE request[s]
    BY DEF Transfer
  <2>3. QED
    BY <2>1, <2>2 DEF RequestState
<1>4. request' \in [Requests -> RequestState]
  BY <1>3 DEF Transfer
<1>5. TypeOK'
  BY <1>1, <1>2, <1>4, ConstantsAssumption DEF TypeOK, Transfer
<1>6. ASSUME NEW s \in Requests PROVE RequestInv(request[s])'
  <2>1. RequestInv(request[s])
    BY DEF Inv
  <2>2. ASSUME request[s].pc \in Busy
        PROVE  governor'[VaultOf(s)] \in request'[s].governors \cup {None}
    <3>1. VaultOf(s) \in Vaults
      BY <2>1, <2>2 DEF RequestInv, Change, Message, VaultOf, Busy, InTransaction
    <3>2. QED
      BY <1>2, <1>3, <2>1, <2>2, <3>1 DEF RequestInv, VaultOf
  <2>3. UNCHANGED <<metadata, changes>>
    BY DEF Transfer
  <2>4. QED
    BY <1>3, <2>1, <2>2, <2>3 DEF RequestInv, VaultOf
<1>7. LockIsHeld'
  BY <1>3 DEF Inv, LockIsHeld, InVault, Transfer
<1>8. ShownIsRecorded' /\ NewestIsShown'
  BY DEF Inv, ShownIsRecorded, NewestIsShown, Transfer
<1>9. QED
  BY <1>5, <1>6, <1>7, <1>8 DEF Inv

LEMMA ClockAndChallengesKeep ==
  ASSUME Inv, TypeOK', UNCHANGED <<governor, metadata, changes, locked, request>>
  PROVE  Inv'
BY DEF Inv, RequestInv, LockIsHeld, InVault, ShownIsRecorded, NewestIsShown

LEMMA ChallengeKeeps ==
  ASSUME Inv, NEW v \in Vaults, NEW name \in Names, ChallengeName(v, name)
  PROVE  Inv'
<1>1. TypeOK'
  <2>1. PICK nonce \in Nonces :
          challenges' = challenges \cup
            {[vault |-> v, name |-> name, issuedAt |-> now, nonce |-> nonce]}
    BY DEF ChallengeName
  <2>2. challenges' \subseteq Message
    BY <2>1 DEF Inv, TypeOK, Message
  <2>3. QED
    BY <2>2 DEF Inv, TypeOK, ChallengeName
<1>2. QED
  BY <1>1, ClockAndChallengesKeep DEF ChallengeName

LEMMA TickKeeps == Inv /\ Tick => Inv'
<1> SUFFICES ASSUME Inv, Tick PROVE Inv'
  OBVIOUS
<1>1. TypeOK'
  BY DEF Inv, TypeOK, Tick
<1>2. QED
  BY <1>1, ClockAndChallengesKeep DEF Tick

-----------------------------------------------------------------------------
(* The theorems.                                                           *)

LEMMA Initially == Init => Inv
<1> SUFFICES ASSUME Init PROVE Inv
  OBVIOUS
<1>1. Idle \in RequestState
  BY DEF Idle, RequestState, Answers
<1>2. TypeOK
  BY <1>1, ConstantsAssumption DEF Init, TypeOK, Time
<1>3. \A r \in Requests : RequestInv(request[r])
  BY DEF Init, Idle, RequestInv, Busy, InTransaction
<1>4. LockIsHeld /\ ShownIsRecorded /\ NewestIsShown
  BY ConstantsAssumption
  DEF Init, Idle, LockIsHeld, InVault, InTransaction, ShownIsRecorded, NewestIsShown
<1>5. QED
  BY <1>2, <1>3, <1>4 DEF Inv

LEMMA Inductive == Inv /\ [Next]_vars => Inv'
<1> SUFFICES ASSUME Inv, [Next]_vars PROVE Inv'
  OBVIOUS
<1>1. ASSUME NEW v \in Vaults, NEW name \in Names, ChallengeName(v, name) PROVE Inv'
  BY <1>1, ChallengeKeeps
<1>2. ASSUME NEW r \in Requests, NEW m \in challenges, NEW signer \in Accounts,
             SubmitName(r, m, signer)
      PROVE  Inv'
  BY <1>2, SubmitKeeps
<1>3. ASSUME NEW r \in Requests, ReadCode(r) PROVE Inv'
  BY <1>3, ReadCodeKeeps
<1>4. ASSUME NEW r \in Requests, ReadGovernor(r) PROVE Inv'
  BY <1>4, ReadGovernorKeeps
<1>5. ASSUME NEW r \in Requests, LockVault(r) PROVE Inv'
  BY <1>5, LockVaultKeeps
<1>6. ASSUME NEW r \in Requests, ReadRow(r) PROVE Inv'
  BY <1>6, ReadRowKeeps
<1>7. ASSUME NEW r \in Requests, WriteChange(r) PROVE Inv'
  BY <1>7, WriteChangeKeeps
<1>8. ASSUME NEW r \in Requests, CommitChange(r) PROVE Inv'
  BY <1>8, PublishKeeps DEF CommitChange
<1>9. ASSUME NEW r \in Requests, Fail(r) PROVE Inv'
  BY <1>9, FailKeeps
<1>10. ASSUME NEW v \in Vaults, NEW account \in Accounts, Transfer(v, account) PROVE Inv'
  BY <1>10, TransferKeeps
<1>11. CASE Tick
  BY <1>11, TickKeeps
<1>12. CASE UNCHANGED vars
  BY <1>12, ClockAndChallengesKeep DEF vars, Inv, TypeOK
<1>13. QED
  BY <1>1, <1>2, <1>3, <1>4, <1>5, <1>6, <1>7, <1>8, <1>9, <1>10, <1>11, <1>12
  DEF Next, Handle

\* The inductive invariant holds of every behaviour.
THEOREM Invariance == Spec => []Inv
<1>1. QED
  BY Initially, Inductive, PTL DEF Spec

\* Every variable keeps to its type: what is stored and answered is a change
\* somebody signed, or nothing.
THEOREM TypeCorrect == Spec => []TypeOK
<1>1. Inv => TypeOK
  BY DEF Inv
<1>2. QED
  BY <1>1, Invariance, PTL

\* apply, on every path to "saved" (the COMMIT, the row that is already there,
\* the branch after a unique violation): the change is in the history.
THEOREM AnsweredSavedIsRecorded == Spec => []SavedIsRecorded
<1>1. Inv => SavedIsRecorded
  BY DEF Inv, RequestInv, SavedIsRecorded, Done
<1>2. QED
  BY <1>1, Invariance, PTL

\* apply answers "stale" only over another change of that vault, issued no
\* earlier, never over the caller's own.
THEOREM AnsweredStaleIsDue == Spec => []StaleIsDue
<1>1. Inv => StaleIsDue
  BY DEF Inv, RequestInv, StaleIsDue, Done, VaultOf
<1>2. QED
  BY <1>1, Invariance, PTL

\* apply never answers with a vault's lock still taken: only a submission in
\* the middle of its transaction holds it, whichever branch ends the others.
THEOREM NoLockIsLeft ==
  Spec => [](\A r \in Requests : request[r].pc \notin InTransaction =>
                                   \A v \in Vaults : locked[v] # r)
<1>1. Inv => \A r \in Requests : request[r].pc \notin InTransaction =>
                                   \A v \in Vaults : locked[v] # r
  BY DEF Inv, LockIsHeld, InVault
<1>2. QED
  BY <1>1, Invariance, PTL

\* The signature recovers to an account that governed the vault while the
\* submission ran, for every row that is ever recorded.
THEOREM RecordedWasGoverned == Spec => SignerGoverned
<1>1. ASSUME Inv
      PROVE  \A r \in Requests :
               changes' # changes /\ request'[r] # request[r] /\ request[r].pc = "commit" =>
                 request[r].change.signer \in request[r].governors
  <2>1. ASSUME NEW r \in Requests, request[r].pc = "commit"
        PROVE  request[r].change.signer \in request[r].governors
    BY <1>1, <2>1 DEF Inv, RequestInv, InTransaction
  <2>2. QED
    BY <2>1
<1>2. QED
  BY <1>1, Invariance, PTL DEF SignerGoverned

-----------------------------------------------------------------------------
(* The two tables implement the register.                                  *)

Log(v) == {c \in changes : c.message.vault = v}

\* Rows that become visible are one Rename of the register.
LEMMA PublishIsRename ==
  ASSUME Inv, NEW r \in Requests, request[r].pc = "commit", Publish(r)
  PROVE  Register!Next
<1> DEFINE change == request[r].change
           v == VaultOf(r)
           log == [w \in Vaults |-> Log(w)]
<1>1. /\ change \in Change /\ v \in Vaults /\ change.message.vault = v
      /\ \A c \in changes : c.message.vault = v => IssuedAt(c) < IssuedAt(change)
  BY NewerIsNotRecorded DEF Change, Message, VaultOf
<1>2. \A earlier \in log[v] : IssuedAt(earlier) < IssuedAt(change)
  BY <1>1 DEF Log
<1>3. metadata' = [metadata EXCEPT ![v] = change]
  BY DEF Publish
<1>4. [w \in Vaults |-> Log(w)'] = [log EXCEPT ![v] = @ \cup {change}]
  <2>1. ASSUME NEW w \in Vaults
        PROVE  Log(w)' = IF w = v THEN log[w] \cup {change} ELSE log[w]
    BY <1>1 DEF Publish, Log
  <2>2. QED
    BY <1>1, <2>1
<1>5. Register!Rename(v, change)
  BY <1>2, <1>3, <1>4 DEF Register!Rename, Log
<1>6. QED
  BY <1>1, <1>5 DEF Register!Next, Register!Rename, Log

\* VaultNames implements NameRegister: two first names at once, a retried
\* older change and a lost COMMIT included, each step that makes rows visible
\* shows and logs one change issued after all before it, and no other step
\* touches what is shown or logged.
THEOREM TablesImplementRegister == Spec => ImplementsRegister
<1>1. Init => Register!Init
  BY DEF Init, Register!Init
<1>2. ASSUME Inv, [Next]_vars PROVE [Register!Next]_(Register!vars)
  <2>1. ASSUME UNCHANGED <<metadata, changes>> PROVE UNCHANGED Register!vars
    BY <2>1 DEF Register!vars
  <2>2. ASSUME NEW r \in Requests, CommitChange(r) PROVE Register!Next
    BY <1>2, <2>2, PublishIsRename DEF CommitChange
  <2>3. ASSUME NEW r \in Requests, Fail(r), ~UNCHANGED <<metadata, changes>>
        PROVE  Register!Next
    BY <1>2, <2>3, PublishIsRename DEF Fail
  <2>4. QED
    BY <1>2, <2>1, <2>2, <2>3
    DEF Next, Handle, vars, ChallengeName, SubmitName, ReadGovernor, LockVault,
        ReadCode, ReadRow, ListAgain, SelectCurrent, WriteChange, Transfer, Tick
<1>3. QED
  BY <1>1, <1>2, Invariance, PTL DEF Spec, ImplementsRegister, Register!Spec
=============================================================================
