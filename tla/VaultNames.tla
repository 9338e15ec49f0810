------------------------------ MODULE VaultNames ------------------------------
(***************************************************************************)
(* Signed display names of governor vaults:                                *)
(*                                                                         *)
(*   backend/src/vault/service.ts   challenge, submit                      *)
(*   backend/src/vault/store.ts     apply, one transaction per change      *)
(*                                                                         *)
(* A submission is a process that takes one step per call it awaits: the   *)
(* code and the governor on Ethereum, the advisory lock of the vault, the  *)
(* row it then reads, the two writes and COMMIT.  Governors change on      *)
(* chain, and other submissions run, between any two of them.              *)
(***************************************************************************)
EXTENDS Integers, FiniteSets

CONSTANTS
  Vaults,     \* addresses a caller may name
  Accounts,   \* who may sign, and govern
  Names,      \* names normalizeVaultName accepts
  Nonces,     \* nonces the API draws
  Requests,   \* submissions the API handles at the same time
  Ttl,        \* opts.challengeTtlSeconds
  Skew,       \* CLOCK_SKEW_MS
  MaxTime,    \* bound: the clock stays in 0..MaxTime
  MaxTransfers,   \* bound: changes of a governor
  None

Time == 0..MaxTime

Message == [vault: Vaults, name: Names, issuedAt: Time, nonce: Nonces]

\* A message with the account that signed it, which stands for the signature.
Change == [message: Message, signer: Accounts]

ASSUME ConstantsAssumption ==
  /\ Ttl \in Nat /\ Skew \in Nat /\ MaxTime \in Nat /\ MaxTransfers \in Nat
  /\ None \notin Change \cup Accounts \cup Requests

VARIABLES
  now,          \* the API host's clock
  governor,     \* on chain: the governor, None where no audited vault is
  transfers,    \* changes of a governor so far (bound)
  challenges,   \* messages the API handed out to sign
  metadata,     \* vault.metadata: the current change of each vault
  changes,      \* vault.metadata_changes, committed rows
  locked,       \* the vaults' advisory locks: the submission that holds each
  request       \* per submission: where it is and what it has read

vars ==
  <<now, governor, transfers, challenges, metadata, changes, locked, request>>

InTransaction == {"select", "write", "commit"}
Busy == {"code", "governor", "lock", "conflict"} \cup InTransaction

Answers ==
  {"none", "not_valid_yet", "expired", "not_vault", "not_governor", "saved",
   "stale", "error"}

\* governors notes, for the properties, who governed the vault since the
\* submission arrived, until it is answered.
RequestState ==
  [pc: Busy \cup {"idle", "done"}, change: Change \cup {None},
   answer: Answers, governors: SUBSET Accounts]

Idle == [pc |-> "idle", change |-> None, answer |-> "none", governors |-> {}]

TypeOK ==
  /\ now \in Time
  /\ governor \in [Vaults -> Accounts \cup {None}]
  /\ transfers \in 0..MaxTransfers
  /\ challenges \subseteq Message
  /\ metadata \in [Vaults -> Change \cup {None}]
  /\ changes \subseteq Change
  /\ locked \in [Vaults -> Requests \cup {None}]
  /\ request \in [Requests -> RequestState]

Init ==
  /\ now = 0
  /\ governor \in [Vaults -> Accounts \cup {None}]
  /\ transfers = 0
  /\ challenges = {}
  /\ metadata = [v \in Vaults |-> None]
  /\ changes = {}
  /\ locked = [v \in Vaults |-> None]
  /\ request = [r \in Requests |-> Idle]

VaultOf(r) == request[r].change.message.vault

Step(r, pc) == request' = [request EXCEPT ![r].pc = pc]

Answer(r, answer) ==
  request' =
    [request EXCEPT ![r].pc = "done", ![r].answer = answer, ![r].governors = {}]

\* COMMIT, ROLLBACK or the end of the session: r holds no lock any more.
Release(r) ==
  locked' = [v \in Vaults |-> IF locked[v] = r THEN None ELSE locked[v]]

-----------------------------------------------------------------------------
(* service.ts                                                              *)

\* challenge: a message for the wallet to sign.  Nothing is stored, and the
\* vault is not looked up.
ChallengeName(v, name) ==
  /\ \E nonce \in Nonces \ {m.nonce : m \in challenges} :
       challenges' = challenges \cup
         {[vault |-> v, name |-> name, issuedAt |-> now, nonce |-> nonce]}
  /\ UNCHANGED <<now, governor, transfers, metadata, changes, locked, request>>

\* What the two clock checks answer.
ClockAnswer(m) ==
  IF m.issuedAt > now + Skew THEN "not_valid_yet"
  ELSE IF now - m.issuedAt > Ttl THEN "expired"
  ELSE "none"

\* submit arrives, with anybody's signature, for the first time or again.
SubmitName(r, m, signer) ==
  /\ request[r].pc \notin Busy
  /\ request' = [request EXCEPT ![r] =
       [pc        |-> IF ClockAnswer(m) = "none" THEN "code" ELSE "done",
        change    |-> [message |-> m, signer |-> signer],
        answer    |-> ClockAnswer(m),
        governors |-> {governor[m.vault]} \ {None}]]
  /\ UNCHANGED <<now, governor, transfers, challenges, metadata, changes, locked>>

\* governorOf, its first call: is there the code of an audited vault?
ReadCode(r) ==
  /\ request[r].pc = "code"
  /\ IF governor[VaultOf(r)] = None THEN Answer(r, "not_vault")
     ELSE Step(r, "governor")
  /\ UNCHANGED <<now, governor, transfers, challenges, metadata, changes, locked>>

\* Mutant of ReadGovernor: any signature that recovers to an account passes.
Mutant_ReadGovernorUnchecked(r) ==
  /\ request[r].pc = "governor"
  /\ Step(r, "lock")
  /\ UNCHANGED <<now, governor, transfers, challenges, metadata, changes, locked>>

\* Its second call, and the signature checked against the account it returns,
\* who need not have been governor when the code was read.
ReadGovernor(r) ==
  /\ request[r].pc = "governor"
  /\ IF request[r].change.signer # governor[VaultOf(r)] THEN Answer(r, "not_governor")
     ELSE Step(r, "lock")
  /\ UNCHANGED <<now, governor, transfers, challenges, metadata, changes, locked>>

-----------------------------------------------------------------------------
(* store.ts, apply                                                         *)

\* Mutant of LockVault: no advisory lock; SELECT ... FOR UPDATE locks no row
\* of a vault that has none.
Mutant_LockNothing(r) ==
  /\ request[r].pc = "lock"
  /\ Step(r, "select")
  /\ UNCHANGED <<now, governor, transfers, challenges, metadata, changes, locked>>

\* BEGIN and pg_advisory_xact_lock, held to the end of the transaction.
LockVault(r) ==
  /\ request[r].pc = "lock"
  /\ locked[VaultOf(r)] = None
  /\ locked' = [locked EXCEPT ![VaultOf(r)] = r]
  /\ Step(r, "select")
  /\ UNCHANGED <<now, governor, transfers, challenges, metadata, changes>>

\* Mutant of SelectCurrent: a retry is not told apart from an older change.
Mutant_SelectNoReplay(r) ==
  LET current == metadata[VaultOf(r)] IN
  /\ request[r].pc = "select"
  /\ IF /\ current # None
        /\ current.message.issuedAt >= request[r].change.message.issuedAt
     THEN Answer(r, "stale") /\ Release(r)
     ELSE Step(r, "write") /\ UNCHANGED locked
  /\ UNCHANGED <<now, governor, transfers, challenges, metadata, changes>>

\* Mutant of SelectCurrent: the names are compared, not the signatures.
Mutant_SelectSameName(r) ==
  LET current == metadata[VaultOf(r)]
      m == request[r].change.message
  IN
  /\ request[r].pc = "select"
  /\ IF current # None /\ current.message.name = m.name
     THEN Answer(r, "saved") /\ Release(r)
     ELSE IF current # None /\ current.message.issuedAt >= m.issuedAt
     THEN Answer(r, "stale") /\ Release(r)
     ELSE Step(r, "write") /\ UNCHANGED locked
  /\ UNCHANGED <<now, governor, transfers, challenges, metadata, changes>>

\* The current row.  Its own signature is answered as saved; a row issued at
\* the same time or later makes the change stale; both roll back.  FOR UPDATE
\* waits for nobody: whoever writes the row holds the advisory lock.
SelectCurrent(r) ==
  LET current == metadata[VaultOf(r)] IN
  /\ request[r].pc = "select"
  /\ IF current = request[r].change THEN Answer(r, "saved") /\ Release(r)
     ELSE IF /\ current # None
             /\ current.message.issuedAt >= request[r].change.message.issuedAt
     THEN Answer(r, "stale") /\ Release(r)
     ELSE Step(r, "write") /\ UNCHANGED locked
  /\ UNCHANGED <<now, governor, transfers, challenges, metadata, changes>>

\* The INSERT into metadata_changes and the upsert of metadata, not visible
\* before COMMIT.  UNIQUE (signature): a signature that is there rolls back.
WriteChange(r) ==
  /\ request[r].pc = "write"
  /\ IF request[r].change \notin changes
     THEN Step(r, "commit") /\ UNCHANGED locked
     ELSE Step(r, "conflict") /\ Release(r)
  /\ UNCHANGED <<now, governor, transfers, challenges, metadata, changes>>

\* After that ROLLBACK, by list and under no lock: the name shown by now
\* decides the answer.
ListAgain(r) ==
  LET current == metadata[VaultOf(r)] IN
  /\ request[r].pc = "conflict"
  /\ Answer(r, IF /\ current # None
                  /\ current.message.name = request[r].change.message.name
               THEN "saved" ELSE "stale")
  /\ UNCHANGED <<now, governor, transfers, challenges, metadata, changes, locked>>

\* The reads of vault.metadata.  Under the advisory lock no signature is
\* written twice (proved in VaultNamesProofs), so ListAgain is never due.
ReadRow(r) ==
  IF request[r].pc = "conflict" THEN ListAgain(r) ELSE SelectCurrent(r)

\* The rows of the transaction become visible.
Publish(r) ==
  /\ metadata' = [metadata EXCEPT ![VaultOf(r)] = request[r].change]
  /\ changes' = changes \cup {request[r].change}

CommitChange(r) ==
  /\ request[r].pc = "commit"
  /\ Publish(r)
  /\ Answer(r, "saved")
  /\ Release(r)
  /\ UNCHANGED <<now, governor, transfers, challenges>>

\* Mutant of Fail: a query that failed is answered without the ROLLBACK, and
\* its session goes back to the pool with the lock.
Mutant_FailKeepsLock(r) ==
  /\ request[r].pc \in Busy
  /\ Answer(r, "error")
  /\ \/ UNCHANGED <<metadata, changes>>
     \/ request[r].pc = "commit" /\ Publish(r)
  /\ UNCHANGED <<now, governor, transfers, challenges, locked>>

\* An RPC node, a query or the connection fails, a statement times out, the
\* process dies.  A connection lost around COMMIT may leave the rows.
Fail(r) ==
  /\ request[r].pc \in Busy
  /\ Answer(r, "error")
  /\ Release(r)
  /\ \/ UNCHANGED <<metadata, changes>>
     \/ request[r].pc = "commit" /\ Publish(r)
  /\ UNCHANGED <<now, governor, transfers, challenges>>

-----------------------------------------------------------------------------
\* transferGovernor, or the deployment of a vault: on chain, at any time.
Transfer(v, account) ==
  /\ transfers < MaxTransfers
  /\ governor[v] # account
  /\ transfers' = transfers + 1
  /\ governor' = [governor EXCEPT ![v] = account]
  /\ request' = [r \in Requests |->
                   IF request[r].pc \in Busy /\ VaultOf(r) = v
                   THEN [request[r] EXCEPT !.governors = @ \cup {account}]
                   ELSE request[r]]
  /\ UNCHANGED <<now, challenges, metadata, changes, locked>>

\* The wall clock moves on, or is set back.
Tick ==
  /\ now' \in {now - 1, now + 1} \cap Time
  /\ UNCHANGED
       <<governor, transfers, challenges, metadata, changes, locked, request>>

Handle(r) ==
  \/ ReadCode(r)
  \/ ReadGovernor(r)
  \/ LockVault(r)
  \/ ReadRow(r)
  \/ WriteChange(r)
  \/ CommitChange(r)

Next ==
  \/ \E v \in Vaults, name \in Names : ChallengeName(v, name)
  \/ \E r \in Requests :
       \/ \E m \in challenges, signer \in Accounts : SubmitName(r, m, signer)
       \/ Handle(r)
       \/ Fail(r)
  \/ \E v \in Vaults, account \in Accounts : Transfer(v, account)
  \/ Tick

Spec == Init /\ [][Next]_vars

\* The API awaits every call it made and Postgres hands the advisory lock on;
\* strong fairness because others may take the lock first.  Nothing has to
\* arrive, and nothing has to fail.
FairSpec == Spec /\ \A r \in Requests : SF_vars(Handle(r))

-----------------------------------------------------------------------------
(* Properties.                                                             *)

Done(r, answer) == request[r].pc = "done" /\ request[r].answer = answer

IssuedAt(change) == change.message.issuedAt

Register == INSTANCE NameRegister WITH
  Changes <- Change,
  shown   <- metadata,
  log     <- [v \in Vaults |-> {c \in changes : c.message.vault = v}]

\* The two tables implement the register: the name shown is the change issued
\* last of all that were ever recorded for the vault, and both tables move in
\* one step.  Two first names at once, a retried older change and a lost
\* COMMIT have to keep that.
ImplementsRegister == Register!Spec

\* A caller told "saved" has its signed change in the history, also when the
\* answer comes from a retry or from the branch after a unique violation.
SavedIsRecorded ==
  \A r \in Requests : Done(r, "saved") => request[r].change \in changes

\* A change is refused as stale only over another change of that vault that
\* was issued no earlier, never over the caller's own first attempt.
StaleIsDue ==
  \A r \in Requests : Done(r, "stale") =>
    \E other \in changes \ {request[r].change} :
      /\ other.message.vault = VaultOf(r)
      /\ IssuedAt(other) >= IssuedAt(request[r].change)

\* What is recorded was signed by an account that governed the vault while
\* the submission ran.  It need not govern it any more at COMMIT: the chain is
\* not read again in the transaction.
SignerGoverned ==
  [][\A r \in Requests :
       changes' # changes /\ request'[r] # request[r] /\ request[r].pc = "commit" =>
         request[r].change.signer \in request[r].governors]_vars

\* Every submission is answered: whoever holds a vault's lock gives it up,
\* also on the branches that answer without a write and where a query fails.
EverySubmissionAnswered ==
  \A r \in Requests : request[r].pc \in Busy ~> request[r].pc \notin Busy
=============================================================================
