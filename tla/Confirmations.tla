---------------------------- MODULE Confirmations ----------------------------
(***************************************************************************)
(* The confirm API and the two owner commands that write the same tables:  *)
(*                                                                         *)
(*   backend/src/confirm/service.ts, store.ts   challenge, submit          *)
(*   db/ops/load-candidates.sh                  replaces confirm.candidates *)
(*   db/ops/record-attestation.sh               confirms without a wallet  *)
(*                                                                         *)
(* A request is a process that takes one step per store call, so any other *)
(* request, a candidate load or an attestation runs between two of them.   *)
(* Postgres is modelled by what these statements see and lock: every read  *)
(* of confirm.candidates takes ACCESS SHARE, kept to the end of the        *)
(* transaction inside one; TRUNCATE waits for ACCESS EXCLUSIVE and keeps   *)
(* it to COMMIT; an INSERT waits for an uncommitted row with its unique    *)
(* key and then meets it.  A pair of data and policy version is one value  *)
(* of Versions: the code always compares both.                             *)
(***************************************************************************)
EXTENDS Integers, FiniteSets

CONSTANTS
  Addresses,    \* wallets the tables may name
  Versions,     \* (data_version, policy_version) pairs
  Cutoffs,      \* cutoff_time_utc of a candidate row, signed over
  Reasons,      \* stage_reason of a candidate row, stored with the row
  Nonces,       \* nonces the API draws
  Requests,     \* requests the API handles at the same time
  DeferredIn,   \* per version, the wallets its ledger has at stage deferred
  Attestable,   \* wallets a service vouches for, which the owner may attest
  Ttl,          \* opts.challengeTtlSeconds
  Skew,         \* CLOCK_SKEW_MS
  MaxTime,      \* bound: the clock stays in 0..MaxTime
  MaxLoads,     \* bound: candidate loads the owner starts
  AllowEmpty,             \* load-candidates.sh --allow-empty
  AllowVersionMismatch,   \* load-candidates.sh --allow-version-mismatch
  None,         \* no row, no message, no claimed version
  Attested      \* the evidence of an attestation: signature IS NULL

Time == 0..MaxTime

CandidateRow == [version: Versions, cutoff: Cutoffs, reason: Reasons]

\* What the wallet signed stands for its signature too: a signature is
\* accepted for one message only.
Message ==
  [address: Addresses, version: Versions, cutoff: Cutoffs, issuedAt: Time,
   nonce: Nonces]

ConfirmationRow ==
  [address: Addresses, version: Versions, reason: Reasons,
   evidence: Message \cup {Attested}]

PlanRow == [address: Addresses, version: Versions, reason: Reasons]

ASSUME ConstantsAssumption ==
  /\ Ttl \in Nat /\ Skew \in Nat /\ MaxTime \in Nat /\ MaxLoads \in Nat
  /\ AllowEmpty \in BOOLEAN /\ AllowVersionMismatch \in BOOLEAN
  /\ Attestable \subseteq Addresses
  /\ DeferredIn \in [Versions -> SUBSET Addresses]
  /\ None \notin CandidateRow \cup Message \cup Versions \cup Addresses
  /\ Attested \notin Message

VARIABLES
  now,            \* the API host's clock
  ledgerVersion,  \* snapshot_meta.data_version of the loaded ledger
  candidates,     \* confirm.candidates, per address
  confirmations,  \* confirm.confirmations, committed rows
  challenges,     \* messages the API handed out to sign
  request,        \* per request: where it is and what it has read
  loader,         \* load-candidates.sh
  attestation,    \* record-attestation.sh
  loads           \* candidate loads started (bound)

apiVars == <<challenges, request>>
ownerVars == <<loader, attestation, loads>>
vars == <<now, ledgerVersion, candidates, confirmations, challenges, request,
          loader, attestation, loads>>

-----------------------------------------------------------------------------
(* A request asks for a challenge (no message yet) or submits a signed one. *)
(* "candidate" and "confirmation" await the two reads both handlers start  *)
(* with; "select", "insert" and "commit" are the transaction of            *)
(* insertConfirmation; "again" awaits the read that follows a conflict.    *)

InTransaction == {"insert", "commit"}
Busy == {"candidate", "confirmation", "select", "again"} \cup InTransaction

Answers ==
  {"none", "not_eligible", "already_confirmed", "not_valid_yet", "expired",
   "data_updated", "bad_signature", "recorded", "error"}

RequestState ==
  [pc: Busy \cup {"idle", "done"}, address: Addresses \cup {None},
   message: Message \cup {None}, claimed: Versions \cup {None},
   found: CandidateRow \cup {None}, answer: Answers, reloaded: BOOLEAN]

Idle ==
  [pc |-> "idle", address |-> None, message |-> None, claimed |-> None,
   found |-> None, answer |-> "none", reloaded |-> FALSE]

LoaderState ==
  [pc: {"idle", "selected", "waiting", "truncated"},
   rows: [Addresses -> CandidateRow \cup {None}]]

AttestationState ==
  [pc: {"idle", "extracted", "planned", "checked", "inserted"},
   rows: SUBSET PlanRow]

TypeOK ==
  /\ now \in Time
  /\ ledgerVersion \in Versions
  /\ candidates \in [Addresses -> CandidateRow \cup {None}]
  /\ confirmations \subseteq ConfirmationRow
  /\ challenges \subseteq Message
  /\ request \in [Requests -> RequestState]
  /\ loader \in LoaderState
  /\ attestation \in AttestationState
  /\ loads \in 0..MaxLoads

NoRows == [a \in Addresses |-> None]

Init ==
  /\ now = 0
  /\ ledgerVersion \in Versions
  /\ candidates = NoRows
  /\ confirmations = {}
  /\ challenges = {}
  /\ request = [r \in Requests |-> Idle]
  /\ loader = [pc |-> "idle", rows |-> NoRows]
  /\ attestation = [pc |-> "idle", rows |-> {}]
  /\ loads = 0

-----------------------------------------------------------------------------
(* Locks and uncommitted rows.                                             *)

\* ACCESS SHARE on confirm.candidates is granted while no load holds the
\* table exclusively or has asked to: Postgres queues lock requests.
Readable == loader.pc \notin {"waiting", "truncated"}

\* Mutant of Unshared: insertConfirmation's SELECT runs on the pool and not on
\* its transaction's client, so that no submission keeps the lock.
Mutant_UnsharedBySubmissions ==
  attestation.pc \notin {"checked", "inserted"}

\* No transaction holds ACCESS SHARE on confirm.candidates.
Unshared ==
  /\ \A r \in Requests : request[r].pc \notin InTransaction
  /\ attestation.pc \notin {"checked", "inserted"}

ConfirmationOf(a, v) ==
  {row \in confirmations : row.address = a /\ row.version = v}

\* An INSERT of key (a, v) does not have to wait: no other open transaction
\* has inserted that key.
KeyFree(a, v) ==
  /\ \A r \in Requests :
       request[r].pc = "commit" =>
         ~(request[r].address = a /\ request[r].found.version = v)
  /\ attestation.pc = "inserted" =>
       \A row \in attestation.rows : ~(row.address = a /\ row.version = v)

Step(r, pc) == request' = [request EXCEPT ![r].pc = pc]

\* A submission keeps its answer, for the properties to compare with the
\* tables.  A challenge leaves nothing but the message it handed out.
Answer(r, answer) ==
  request' = [request EXCEPT ![r] =
                IF request[r].message = None THEN Idle
                ELSE [request[r] EXCEPT !.pc = "done", !.answer = answer]]

-----------------------------------------------------------------------------
(* The confirm API.                                                        *)

NewRequest(a, m, claimed) ==
  [Idle EXCEPT !.pc = "candidate", !.address = a, !.message = m,
               !.claimed = claimed]

\* Bound: no more challenges in flight or handed out than there are nonces.
NonceLeft ==
  Cardinality(challenges)
    + Cardinality({r \in Requests : /\ request[r].pc \in Busy
                                    /\ request[r].message = None})
    < Cardinality(Nonces)

\* POST /api/v1/confirmations/challenges arrives.
Ask(r, a) ==
  /\ request[r].pc \notin Busy
  /\ NonceLeft
  /\ request' = [request EXCEPT ![r] = NewRequest(a, None, None)]
  /\ UNCHANGED <<now, ledgerVersion, candidates, confirmations, challenges,
                 ownerVars>>

\* What the two clock checks, made before any store call, answer.
ClockAnswer(m) ==
  IF m.issuedAt > now + Skew THEN "not_valid_yet"
  ELSE IF now - m.issuedAt > Ttl THEN "expired"
  ELSE "none"

\* POST /api/v1/confirmations arrives with a signed challenge, for the first
\* time or again.  signedVersion is optional.
Submit(r, m, claimed) ==
  /\ request[r].pc \notin Busy
  /\ claimed \in {m.version, None}
  /\ request' =
       [request EXCEPT ![r] =
          [NewRequest(m.address, m, claimed) EXCEPT
             !.pc = IF ClockAnswer(m) = "none" THEN "candidate" ELSE "done",
             !.answer = ClockAnswer(m)]]
  /\ UNCHANGED <<now, ledgerVersion, candidates, confirmations, challenges,
                 ownerVars>>

\* findCandidate, and what both handlers do with its answer.
FindCandidate(r) ==
  LET row == candidates[request[r].address] IN
  /\ request[r].pc = "candidate"
  /\ Readable
  /\ request' =
       [request EXCEPT ![r] =
          IF row # None /\ request[r].claimed \in {None, row.version}
          THEN [request[r] EXCEPT !.pc = "confirmation", !.found = row]
          ELSE IF request[r].message = None THEN Idle
          ELSE [request[r] EXCEPT
                  !.pc = "done", !.found = row,
                  !.answer = IF row = None THEN "not_eligible"
                             ELSE "data_updated"]]
  /\ UNCHANGED <<now, ledgerVersion, candidates, confirmations, challenges,
                 ownerVars>>

\* The message the server rebuilds from the candidate row it read.
MessageFor(a, row, issuedAt, nonce) ==
  [address |-> a, version |-> row.version, cutoff |-> row.cutoff,
   issuedAt |-> issuedAt, nonce |-> nonce]

\* Mutant of Replay: any row under the key is taken for the caller's own.
Mutant_ReplayAny(r, row) == Answer(r, "recorded")

\* replay: the stored signature gets its receipt again, anything else stored
\* under the same key (another signature, an attestation) a 409.
Replay(r, row) ==
  Answer(r, IF row.evidence = request[r].message
            THEN "recorded" ELSE "already_confirmed")

\* challenge: a message with a fresh nonce and the time now, unless a row is
\* there.  Nothing about it is stored.
ChallengeConfirmation(r, rows) ==
  /\ request[r].message = None
  /\ Answer(r, "none")
  /\ \/ rows # {} /\ UNCHANGED challenges
     \/ /\ rows = {}
        /\ \E nonce \in Nonces \ {m.nonce : m \in challenges} :
             challenges' =
               challenges \cup {MessageFor(request[r].address,
                                          request[r].found, now, nonce)}

\* Mutant of SubmitConfirmation: the signature is not compared with the
\* message rebuilt from the candidate row.
Mutant_SubmitUnverified(r, rows) ==
  /\ request[r].message # None
  /\ \/ \E row \in rows : Replay(r, row)
     \/ rows = {} /\ Step(r, "select")
  /\ UNCHANGED challenges

SubmitConfirmation(r, rows) ==
  LET m == request[r].message IN
  /\ m # None
  /\ \/ \E row \in rows : Replay(r, row)
     \/ /\ rows = {}
        /\ IF m = MessageFor(request[r].address, request[r].found,
                             m.issuedAt, m.nonce)
           THEN Step(r, "select")
           ELSE Answer(r, "bad_signature")
  /\ UNCHANGED challenges

\* findConfirmation under the version of the row found, and what each handler
\* does with it.
FindConfirmation(r) ==
  LET rows == ConfirmationOf(request[r].address, request[r].found.version) IN
  /\ request[r].pc = "confirmation"
  /\ \/ ChallengeConfirmation(r, rows)
     \/ SubmitConfirmation(r, rows)
  /\ UNCHANGED <<now, ledgerVersion, candidates, confirmations, ownerVars>>

\* Mutant of InsertSelect: the transaction looks for a candidate row only, of
\* whatever version.
Mutant_InsertSelectAnyVersion(r) ==
  /\ request[r].pc = "select"
  /\ Readable
  /\ IF candidates[request[r].address] # None
     THEN Step(r, "insert")
     ELSE Answer(r, "data_updated")
  /\ UNCHANGED <<now, ledgerVersion, candidates, confirmations, challenges,
                 ownerVars>>

\* insertConfirmation, BEGIN and the SELECT that takes ACCESS SHARE.  Only
\* the version is compared again; a missing row and another version both roll
\* back and end in the same answer.
InsertSelect(r) ==
  LET row == candidates[request[r].address] IN
  /\ request[r].pc = "select"
  /\ Readable
  /\ IF row # None /\ row.version = request[r].found.version
     THEN Step(r, "insert")
     ELSE Answer(r, "data_updated")
  /\ UNCHANGED <<now, ledgerVersion, candidates, confirmations, challenges,
                 ownerVars>>

\* Mutant of InsertRow: a plain INSERT into a table without the constraint.
Mutant_InsertAlways(r) ==
  /\ request[r].pc = "insert"
  /\ Step(r, "commit")
  /\ UNCHANGED <<now, ledgerVersion, candidates, confirmations, challenges,
                 ownerVars>>

\* Mutant of InsertRow: a conflict is returned without the ROLLBACK.
Mutant_InsertKeepsLock(r) ==
  /\ request[r].pc = "insert"
  /\ KeyFree(request[r].address, request[r].found.version)
  /\ ConfirmationOf(request[r].address, request[r].found.version) = {}
  /\ Step(r, "commit")
  /\ UNCHANGED <<now, ledgerVersion, candidates, confirmations, challenges,
                 ownerVars>>

\* INSERT ... ON CONFLICT DO NOTHING, once no open transaction holds the key.
\* A conflict rolls back, which gives the lock up.
InsertRow(r) ==
  LET a == request[r].address
      v == request[r].found.version
  IN
  /\ request[r].pc = "insert"
  /\ KeyFree(a, v)
  /\ Step(r, IF ConfirmationOf(a, v) = {} THEN "commit" ELSE "again")
  /\ UNCHANGED <<now, ledgerVersion, candidates, confirmations, challenges,
                 ownerVars>>

NewConfirmation(r) ==
  [address  |-> request[r].address,
   version  |-> request[r].found.version,
   reason   |-> request[r].found.reason,
   evidence |-> request[r].message]

InsertCommit(r) ==
  /\ request[r].pc = "commit"
  /\ confirmations' = confirmations \cup {NewConfirmation(r)}
  /\ Answer(r, "recorded")
  /\ UNCHANGED <<now, ledgerVersion, candidates, challenges, ownerVars>>

\* Mutant of FindAgain: a conflict is not looked up, the caller is sent away.
Mutant_NoReplayAfterConflict(r) ==
  /\ request[r].pc = "again"
  /\ Answer(r, "data_updated")
  /\ UNCHANGED <<now, ledgerVersion, candidates, confirmations, challenges,
                 ownerVars>>

\* Mutant of FindAgain: a conflict starts the transaction over.
Mutant_RetryAfterConflict(r) ==
  /\ request[r].pc = "again"
  /\ Step(r, "select")
  /\ UNCHANGED <<now, ledgerVersion, candidates, confirmations, challenges,
                 ownerVars>>

\* After a conflict the row that won is read once more.
FindAgain(r) ==
  LET rows == ConfirmationOf(request[r].address, request[r].found.version) IN
  /\ request[r].pc = "again"
  /\ \/ \E row \in rows : Replay(r, row)
     \/ rows = {} /\ Answer(r, "data_updated")
  /\ UNCHANGED <<now, ledgerVersion, candidates, confirmations, challenges,
                 ownerVars>>

\* A query fails, a statement times out waiting for a lock, the process or
\* the connection dies: the transaction is rolled back and the caller sees an
\* error or nothing.  A connection lost around COMMIT may leave the row.
Fail(r) ==
  /\ request[r].pc \in Busy
  /\ Answer(r, "error")
  /\ \/ UNCHANGED confirmations
     \/ /\ request[r].pc = "commit"
        /\ confirmations' = confirmations \cup {NewConfirmation(r)}
  /\ UNCHANGED <<now, ledgerVersion, candidates, challenges, ownerVars>>

-----------------------------------------------------------------------------
(* The owner's candidate load.                                             *)

\* The selection and the check against snapshot_meta come first, in sessions
\* of their own.  A selection names deferred wallets of one version.
SelectCandidates(v, cutoff) ==
  /\ loader.pc = "idle"
  /\ loads < MaxLoads
  /\ ledgerVersion = v \/ AllowVersionMismatch
  /\ \E chosen \in SUBSET DeferredIn[v] : \E reason \in [chosen -> Reasons] :
     /\ chosen # {} \/ AllowEmpty
     /\ loader' =
         [pc |-> "selected",
          rows |-> [a \in Addresses |->
                      IF a \in chosen
                      THEN [version |-> v, cutoff |-> cutoff,
                            reason |-> reason[a]]
                      ELSE None]]
  /\ loads' = loads + 1
  /\ UNCHANGED <<now, ledgerVersion, candidates, confirmations, apiVars,
                 attestation>>

\* BEGIN; TRUNCATE confirm.candidates asks for the exclusive lock ...
AskTruncate ==
  /\ loader.pc = "selected"
  /\ loader' = [loader EXCEPT !.pc = "waiting"]
  /\ UNCHANGED <<now, ledgerVersion, candidates, confirmations, apiVars,
                 attestation, loads>>

\* ... and gets it once every reader's transaction has ended.
TruncateCandidates ==
  /\ loader.pc = "waiting"
  /\ Unshared
  /\ loader' = [loader EXCEPT !.pc = "truncated"]
  /\ UNCHANGED <<now, ledgerVersion, candidates, confirmations, apiVars,
                 attestation, loads>>

\* \copy, the candidate_loads row and COMMIT.  `reloaded` only notes, for the
\* properties, that the set was replaced under a request in flight.
CommitLoad ==
  /\ loader.pc = "truncated"
  /\ candidates' = loader.rows
  /\ loader' = [pc |-> "idle", rows |-> NoRows]
  /\ request' = [r \in Requests |->
                   IF request[r].pc \in Busy
                   THEN [request[r] EXCEPT !.reloaded = TRUE]
                   ELSE request[r]]
  /\ UNCHANGED <<now, ledgerVersion, confirmations, challenges, attestation,
                 loads>>

\* psql stops at the first error and the transaction rolls back.
FailLoad ==
  /\ loader.pc # "idle"
  /\ loader' = [pc |-> "idle", rows |-> NoRows]
  /\ UNCHANGED <<now, ledgerVersion, candidates, confirmations, apiVars,
                 attestation, loads>>

\* claim-injector replaces the ledger, and with it snapshot_meta.
InjectLedger(v) ==
  /\ ledgerVersion' = v
  /\ UNCHANGED <<now, candidates, confirmations, apiVars, ownerVars>>

-----------------------------------------------------------------------------
(* The owner's attestations.                                               *)

\* owner_db_candidates: the candidate and ledger rows of the named wallets.
\* A wallet that is no candidate, or not deferred in the loaded ledger, stops
\* the plan.
ReadCandidates(wallets) ==
  /\ attestation.pc = "idle"
  /\ wallets # {}
  /\ Readable
  /\ \A a \in wallets : candidates[a] # None /\ a \in DeferredIn[ledgerVersion]
  /\ attestation' =
       [pc |-> "extracted",
        rows |-> {[address |-> a, version |-> candidates[a].version,
                   reason |-> candidates[a].reason] : a \in wallets}]
  /\ UNCHANGED <<now, ledgerVersion, candidates, confirmations, apiVars,
                 loader, loads>>

\* owner_db_extract, a session later: a wallet confirmed under the set that
\* is loaded now stops the plan.
PlanAttestation ==
  /\ attestation.pc = "extracted"
  /\ Readable
  /\ \A row \in attestation.rows :
       candidates[row.address] # None =>
         ConfirmationOf(row.address, candidates[row.address].version) = {}
  /\ attestation' = [attestation EXCEPT !.pc = "planned"]
  /\ UNCHANGED <<now, ledgerVersion, candidates, confirmations, apiVars,
                 loader, loads>>

\* Mutant of CheckPlan: the plan's stage reason is taken on trust.
Mutant_CheckPlanNoReason ==
  /\ attestation.pc = "planned"
  /\ Readable
  /\ \A row \in attestation.rows :
       /\ candidates[row.address] # None
       /\ candidates[row.address].version = row.version
       /\ ConfirmationOf(row.address, row.version) = {}
  /\ attestation' = [attestation EXCEPT !.pc = "checked"]
  /\ UNCHANGED <<now, ledgerVersion, candidates, confirmations, apiVars,
                 loader, loads>>

\* The apply transaction: the DO block repeats both checks on every row and
\* keeps ACCESS SHARE on confirm.candidates.
CheckPlan ==
  /\ attestation.pc = "planned"
  /\ Readable
  /\ \A row \in attestation.rows :
       /\ candidates[row.address] # None
       /\ candidates[row.address].version = row.version
       /\ candidates[row.address].reason = row.reason
       /\ ConfirmationOf(row.address, row.version) = {}
  /\ attestation' = [attestation EXCEPT !.pc = "checked"]
  /\ UNCHANGED <<now, ledgerVersion, candidates, confirmations, apiVars,
                 loader, loads>>

\* The INSERT has no ON CONFLICT: one taken key fails the whole transaction.
InsertPlan ==
  /\ attestation.pc = "checked"
  /\ \A row \in attestation.rows :
       /\ KeyFree(row.address, row.version)
       /\ ConfirmationOf(row.address, row.version) = {}
  /\ attestation' = [attestation EXCEPT !.pc = "inserted"]
  /\ UNCHANGED <<now, ledgerVersion, candidates, confirmations, apiVars,
                 loader, loads>>

AttestedRow(row) ==
  [address |-> row.address, version |-> row.version, reason |-> row.reason,
   evidence |-> Attested]

CommitPlan ==
  /\ attestation.pc = "inserted"
  /\ confirmations' =
       confirmations \cup {AttestedRow(row) : row \in attestation.rows}
  /\ attestation' = [pc |-> "idle", rows |-> {}]
  /\ UNCHANGED <<now, ledgerVersion, candidates, apiVars, loader, loads>>

\* A problem in the plan, a failed check, a taken key, an error or the
\* operator's dry run: nothing is written.
StopAttestation ==
  /\ attestation.pc # "idle"
  /\ attestation' = [pc |-> "idle", rows |-> {}]
  /\ UNCHANGED <<now, ledgerVersion, candidates, confirmations, apiVars,
                 loader, loads>>

-----------------------------------------------------------------------------
\* The wall clock moves on, or is set back.
Tick ==
  /\ now' \in {now - 1, now + 1} \cap Time
  /\ UNCHANGED <<ledgerVersion, candidates, confirmations, apiVars, ownerVars>>

RequestStep(r) ==
  \/ FindCandidate(r)
  \/ FindConfirmation(r)
  \/ InsertSelect(r)
  \/ InsertRow(r)
  \/ InsertCommit(r)
  \/ FindAgain(r)
  \/ Fail(r)

LoaderStep == AskTruncate \/ TruncateCandidates \/ CommitLoad \/ FailLoad

AttestationStep ==
  PlanAttestation \/ CheckPlan \/ InsertPlan \/ CommitPlan \/ StopAttestation

Next ==
  \/ \E r \in Requests :
       \/ \E a \in Addresses : Ask(r, a)
       \/ \E m \in challenges : \E claimed \in Versions \cup {None} :
            Submit(r, m, claimed)
       \/ RequestStep(r)
  \/ \E v \in Versions, cutoff \in Cutoffs : SelectCandidates(v, cutoff)
  \/ LoaderStep
  \/ \E v \in Versions : InjectLedger(v)
  \/ \E wallets \in SUBSET Attestable : ReadCandidates(wallets)
  \/ AttestationStep
  \/ Tick

Spec == Init /\ [][Next]_vars

\* The API awaits every query it sent, Postgres grants a table lock in the
\* order of the requests, and psql runs its script to the end: strong
\* fairness where a lock comes and goes, weak fairness elsewhere.  Nobody has
\* to send a request, start a load or plan an attestation, and nothing has to
\* fail.
Handle(r) ==
  FindCandidate(r) \/ FindConfirmation(r) \/ InsertSelect(r) \/ InsertRow(r)
  \/ InsertCommit(r) \/ FindAgain(r)

Fairness ==
  /\ \A r \in Requests : SF_vars(Handle(r))
  /\ WF_vars(AskTruncate) /\ WF_vars(TruncateCandidates) /\ WF_vars(CommitLoad)
  /\ WF_vars(AttestationStep /\ attestation.pc \in {"checked", "inserted"})

FairSpec == Spec /\ Fairness

-----------------------------------------------------------------------------
(* Properties.                                                             *)

Register == INSTANCE ConfirmationRegister WITH
  Evidence <- Message \cup {Attested},
  loaded   <- [a \in Addresses |->
                 IF candidates[a] = None THEN None ELSE candidates[a].version],
  register <- [k \in Addresses \X Versions |->
                 {row.evidence : row \in ConfirmationOf(k[1], k[2])}]

\* The tables implement the write-once register: a key gets its evidence once,
\* while the wallet is loaded under that version, and keeps it; a candidate
\* load swaps the whole set and touches no confirmation.
ImplementsRegister == Register!Spec

Done(r, answer) == request[r].pc = "done" /\ request[r].answer = answer

\* A caller told "recorded" has the row: its own signature, for the address
\* and the version it signed.  This has to hold for a first submission, for a
\* retry after a lost answer and for the loser of two concurrent inserts.
RecordedIsStored ==
  \A r \in Requests : Done(r, "recorded") =>
    \E row \in confirmations :
      /\ row.evidence = request[r].message
      /\ row.address = request[r].message.address
      /\ row.version = request[r].message.version

\* One confirmation per wallet and candidate set, whatever mix of requests
\* and attestations inserts it: the UNIQUE constraint of migration 005 as
\* the INSERTs meet it.
ConfirmedOnce ==
  \A x, y \in confirmations :
    x.address = y.address /\ x.version = y.version => x = y

\* A submission is refused as already confirmed only over a row that is not
\* its own signature, and sent back to sign again only when the candidate
\* set it was signed for is not, or did not stay, the loaded one.  Losing a
\* race to its own retry is neither.
RefusalsAreDue ==
  \A r \in Requests :
    /\ Done(r, "already_confirmed") =>
         \E row \in ConfirmationOf(request[r].address,
                                   request[r].found.version) :
           row.evidence # request[r].message
    /\ Done(r, "data_updated") =>
         \/ request[r].reloaded
         \/ request[r].claimed \notin {None, request[r].found.version}

\* A wallet's own signature is in the row only for the set it names: what a
\* holder signed for one candidate set never confirms another.
SignedForItsSet ==
  \A row \in confirmations : row.evidence # Attested =>
    /\ row.evidence.address = row.address
    /\ row.evidence.version = row.version

\* A confirmation, signed or attested, enters the table only while its wallet
\* is a candidate of the loaded set under that very version.  The row was
\* checked steps earlier; the lock the transaction kept makes it still true.
RecordedUnderLoadedSet ==
  [][\A row \in confirmations' \ confirmations :
       /\ candidates[row.address] # None
       /\ candidates[row.address].version = row.version]_vars

\* An attestation also carries the stage reason of the loaded candidate row:
\* its transaction compares it again, which a signed submission does not.
AttestedAsLoaded ==
  [][\A row \in confirmations' \ confirmations :
       row.evidence = Attested =>
         candidates[row.address].reason = row.reason]_vars

\* Every request is answered: the lock queue, the wait for another
\* transaction's row and the read after a conflict all come to an end.
EveryRequestAnswered ==
  \A r \in Requests : request[r].pc \in Busy ~> request[r].pc \notin Busy

\* A candidate load that reached the database ends: no path through
\* insertConfirmation or an attestation keeps its lock.
EveryLoadEnds == loader.pc = "selected" ~> loader.pc = "idle"
=============================================================================
