------------------------------- MODULE Reviews -------------------------------
(***************************************************************************)
(* db/ops/record-review.sh: operators approve confirmations, mark what a   *)
(* payment run sent, and undo marks, all by appending to confirm.reviews.  *)
(*                                                                         *)
(* One command is a process: it reads the tables in separate sessions      *)
(* (owner_db_extract, the review rows last), plans offline                 *)
(* (record-review.py), and applies the plan in one transaction.  Other     *)
(* operators' commands, a candidate load and a ledger load run between any *)
(* two of those steps.                                                     *)
(*                                                                         *)
(* confirm.reviews is the sequence of its committed transactions.  Each    *)
(* carries the time it began, because reviewed_at defaults to now(), which *)
(* Postgres fixes at BEGIN; readers sort by that time and let the latest   *)
(* row of each subject win (review_tracks.py).                             *)
(***************************************************************************)
EXTENDS Integers, Sequences, FiniteSets

CONSTANTS
  Confirmations,   \* rows of confirm.confirmations
  Wallets,         \* their addresses
  WalletOf,        \* Confirmations -> Wallets
  Signed,          \* the confirmations attested, or whose signer is the wallet
  Parts,           \* the wallet part, and the vault shares per validator
  TrackOf,         \* Parts -> {"wallet", "vault"}
  CandidateSets,   \* sets of confirmations that match a loadable candidate set
  Ledgers,         \* ledgers an extract may see
  RunDirs,         \* run directories on the operators' disks
  Operators,       \* commands running at the same time
  MaxCommits,      \* bound: transactions on confirm.reviews that commit
  MaxBegins,       \* bound: transactions that begin
  None

Slot == [wallet: Wallets, part: Parts]

\* The extract reads accounts, delegations and exceptions one query after the
\* other, so Ledgers holds what a load in between leaves of two ledgers, too.
\* accounts: wallets with an accounts row.  amount: what the ledger expects the
\* part to be paid, 0 without a position.  blocked: not payable to the wallet
\* itself (held, redirected, delivered by an exchange, ledger mismatch).
Ledger == [accounts: SUBSET Wallets, amount: [Slot -> Nat], blocked: SUBSET Slot]

RunName == {dir.name : dir \in RunDirs}
Manifest == {dir.manifest : dir \in RunDirs}
Tracks == {"wallet", "vault"}

\* A row decides a confirmation (run = None: queued is approved) or marks a
\* part of a wallet (included is sent, queued undoes it).
Row ==
  [about: Confirmations \cup Slot, conf: Confirmations,
   status: {"queued", "included", "rejected"},
   run: RunName \cup {None}, manifest: Manifest \cup {None}]

Batch == [at: Nat, rows: SUBSET Row]

ASSUME ConstantsAssumption ==
  /\ MaxCommits \in Nat /\ MaxBegins \in Nat
  /\ WalletOf \in [Confirmations -> Wallets]
  /\ Signed \subseteq Confirmations
  /\ TrackOf \in [Parts -> Tracks]
  /\ CandidateSets \subseteq SUBSET Confirmations
  /\ \A S \in CandidateSets : \A c, d \in S : WalletOf[c] = WalletOf[d] => c = d
  /\ Ledgers \subseteq Ledger
  /\ \A dir \in RunDirs :
       /\ dir.track \in Tracks
       /\ \A item \in dir.items :
            /\ item.slot \in Slot /\ item.amount \in Nat
            /\ TrackOf[item.slot.part] = dir.track
  /\ None \notin RunName \cup Manifest
  /\ Confirmations \cap Slot = {}

VARIABLES
  current,   \* confirmations whose wallet and version match confirm.candidates
  ledger,    \* the loaded accounts, delegations and routing exceptions
  reviews,   \* confirm.reviews, by transaction in the order of commits
  begins,    \* transactions begun so far: the database's clock
  op         \* per command: where it is and what it holds

vars == <<current, ledger, reviews, begins, op>>

-----------------------------------------------------------------------------
OpState ==
  [pc: {"idle", "read", "planned", "begun", "locked"},
   current: SUBSET Confirmations, ledger: Ledgers,
   rows: SUBSET Row, expected: Nat, at: Nat]

Idle(l) ==
  [pc |-> "idle", current |-> {}, ledger |-> l, rows |-> {}, expected |-> 0,
   at |-> 0]

\* What an idle command's ledger field holds does not matter.
AnyLedger == CHOOSE l \in Ledgers : TRUE

TypeOK ==
  /\ current \in CandidateSets
  /\ ledger \in Ledgers
  /\ reviews \in Seq(Batch)
  /\ begins \in Nat
  /\ op \in [Operators -> OpState]

Init ==
  /\ current \in CandidateSets
  /\ ledger \in Ledgers
  /\ reviews = <<>>
  /\ begins = 0
  /\ op = [o \in Operators |-> Idle(AnyLedger)]

-----------------------------------------------------------------------------
(* review_tracks.ReviewState: how the rows read back.                      *)

Concerns(batch, x) == {row \in batch.rows : row.about = x}

\* ORDER BY reviewed_at, id: batch i is read after batch j.
ReadAfter(i, j) ==
  \/ reviews[i].at > reviews[j].at
  \/ reviews[i].at = reviews[j].at /\ i > j

\* The row that wins for a subject, if there is one.
Latest(x) ==
  UNION {Concerns(reviews[i], x) :
           i \in {i \in DOMAIN reviews :
                    \A j \in DOMAIN reviews :
                      ReadAfter(j, i) => Concerns(reviews[j], x) = {}}}

\* decision_of
Decision(c) ==
  IF Latest(c) = {} THEN "none"
  ELSE IF \E row \in Latest(c) : row.status = "rejected" THEN "rejected"
  ELSE "approved"

\* wallet_sent, vault_sent: the mark of a part, unless it was undone.
Sent(slot) == {row \in Latest(slot) : row.status = "included"}

\* Mutant of RunRows: marks that were undone no longer name their run.
Mutant_RunRowsStanding(name) ==
  {row \in UNION {Sent(slot) : slot \in Slot} : row.run = name}

\* Every mark that names a run, undone ones included.
RunRows(name) ==
  UNION {{row \in reviews[i].rows : row.run = name} : i \in DOMAIN reviews}

\* run_manifests, run_tracks
RunManifests(name) == {row.manifest : row \in RunRows(name)}
RunTracks(name) == {TrackOf[row.about.part] : row \in RunRows(name)}

-----------------------------------------------------------------------------
(* record-review.py: what each command plans.  Any problem stops the whole *)
(* plan, so a plan's conditions hold for every row it was given.           *)

DecisionRow(c, status) ==
  [about |-> c, conf |-> c, status |-> status, run |-> None, manifest |-> None]

\* --approve.  A confirmation approved already is left out.
ApprovePlan(o, confs) ==
  {DecisionRow(c, "queued") : c \in {c \in confs : Decision(c) # "approved"}}

Approvable(o, confs) ==
  \A c \in confs :
    /\ c \in op[o].current
    /\ c \in Signed
    /\ WalletOf[c] \in op[o].ledger.accounts

\* --reject takes any confirmation.
RejectPlan(confs) ==
  {DecisionRow(c, "rejected") : c \in {c \in confs : Decision(c) # "rejected"}}

\* Planner.current: the wallet's confirmation under the loaded candidate set.
CurrentOf(o, wallet) == {c \in op[o].current : WalletOf[c] = wallet}

\* --sent leaves out what the run paid to wallets without a current
\* confirmation ...
Listed(o, items) == {item \in items : CurrentOf(o, item.slot.wallet) # {}}

\* ... refuses a run name that is recorded from another manifest or for the
\* other part ...
RunUsable(dir) ==
  /\ RunManifests(dir.name) \subseteq {dir.manifest}
  /\ RunTracks(dir.name) \subseteq {dir.track}

\* Mutant of Payable: a confirmation nobody reviewed passes, or one that was
\* rejected since it was approved.
Mutant_PayableUnreviewed(o, dir, item) ==
  /\ item.slot.wallet \in op[o].ledger.accounts
  /\ item.slot \notin op[o].ledger.blocked \/ Sent(item.slot) # {}
  /\ item.amount = op[o].ledger.amount[item.slot]
  /\ \A row \in Sent(item.slot) : row.run = dir.name

\* ... and refuses an item that is not approved, not in the ledger, blocked
\* (a part marked sent is never blocked, apply_reviews), of another amount, or
\* marked by another run.
Payable(o, dir, item) ==
  /\ \A c \in CurrentOf(o, item.slot.wallet) : Decision(c) = "approved"
  /\ item.slot.wallet \in op[o].ledger.accounts
  /\ item.slot \notin op[o].ledger.blocked \/ Sent(item.slot) # {}
  /\ item.amount = op[o].ledger.amount[item.slot]
  /\ \A row \in Sent(item.slot) : row.run = dir.name

SentRow(dir, item, c) ==
  [about |-> item.slot, conf |-> c, status |-> "included", run |-> dir.name,
   manifest |-> dir.manifest]

\* Mutant of SentPlan: an item the run marked before is recorded again.
Mutant_SentPlanAgain(o, dir, items) ==
  UNION {{SentRow(dir, item, c) : c \in CurrentOf(o, item.slot.wallet)} :
           item \in items}

\* An item this run marked before is left out.
SentPlan(o, dir, items) ==
  UNION {{SentRow(dir, item, c) : c \in CurrentOf(o, item.slot.wallet)} :
           item \in {item \in items : Sent(item.slot) = {}}}

\* Mutant of UnsentPlan: marks of the run that were undone are undone again.
Mutant_UnsentPlanAgain(track, name, wallets) ==
  {[row EXCEPT !.status = "queued"] :
     row \in {row \in UNION {Latest(slot) : slot \in Slot} :
                /\ row.run = name
                /\ TrackOf[row.about.part] = track
                /\ row.about.wallet \in wallets}}

\* --unsent, of a run's marks that still stand, for the wallets named.
UnsentPlan(track, name, wallets) ==
  {[row EXCEPT !.status = "queued"] :
     row \in {row \in UNION {Sent(slot) : slot \in Slot} :
                /\ row.run = name
                /\ TrackOf[row.about.part] = track
                /\ row.about.wallet \in wallets}}

-----------------------------------------------------------------------------
(* record-review.sh.                                                       *)

\* owner_db_extract, the confirmations, candidates and ledger.  One step for
\* several queries: any ledger, a mixed one included, may be loaded with any
\* candidate set, so every combination the queries return is reachable.
ReadTables(o) ==
  /\ op[o].pc = "idle"
  /\ op' = [op EXCEPT ![o].pc = "read", ![o].current = current,
                      ![o].ledger = ledger]
  /\ UNCHANGED <<current, ledger, reviews, begins>>

\* The review rows are read last; then the plan is made and the number of
\* rows read is kept.  A plan of no rows ends the command.
Planned(o, rows) ==
  /\ op[o].pc = "read"
  /\ rows # {}
  /\ op' = [op EXCEPT ![o] =
              [Idle(AnyLedger) EXCEPT !.pc = "planned", !.rows = rows,
                                      !.expected = Len(reviews)]]
  /\ UNCHANGED <<current, ledger, reviews, begins>>

Approve(o, confs) ==
  Approvable(o, confs) /\ Planned(o, ApprovePlan(o, confs))

Reject(o, confs) == Planned(o, RejectPlan(confs))

MarkSent(o, dir, items) ==
  /\ RunUsable(dir)
  /\ \A item \in Listed(o, items) : Payable(o, dir, item)
  /\ Planned(o, SentPlan(o, dir, items))

Unsend(o, track, name, wallets) == Planned(o, UnsentPlan(track, name, wallets))

Plan(o) ==
  \/ \E confs \in SUBSET Confirmations : Approve(o, confs) \/ Reject(o, confs)
  \/ \E dir \in RunDirs : \E items \in SUBSET dir.items : MarkSent(o, dir, items)
  \/ \E track \in Tracks, name \in RunName, wallets \in SUBSET Wallets :
       Unsend(o, track, name, wallets)

\* --apply: BEGIN fixes now(), the reviewed_at of every row to come.
Begin(o) ==
  /\ op[o].pc = "planned"
  /\ begins < MaxBegins
  /\ Len(reviews) < MaxCommits
  /\ begins' = begins + 1
  /\ op' = [op EXCEPT ![o].pc = "begun", ![o].at = begins + 1]
  /\ UNCHANGED <<current, ledger, reviews>>

LockFree == \A o \in Operators : op[o].pc # "locked"

\* Mutant of Lock: two transactions compare the count before either inserts.
Mutant_LockShared(o) ==
  /\ op[o].pc = "begun"
  /\ Len(reviews) = op[o].expected
  /\ op' = [op EXCEPT ![o].pc = "locked"]
  /\ UNCHANGED <<current, ledger, reviews, begins>>

\* Mutant of Lock: the rows read for the plan are not counted again.
Mutant_LockUncounted(o) ==
  /\ op[o].pc = "begun"
  /\ LockFree
  /\ op' = [op EXCEPT ![o].pc = "locked"]
  /\ UNCHANGED <<current, ledger, reviews, begins>>

\* LOCK TABLE confirm.reviews, then the comparison with the rows that are
\* there now.  A difference stops the script (Stop).
Lock(o) ==
  /\ op[o].pc = "begun"
  /\ LockFree
  /\ Len(reviews) = op[o].expected
  /\ op' = [op EXCEPT ![o].pc = "locked"]
  /\ UNCHANGED <<current, ledger, reviews, begins>>

\* The INSERT of all planned rows, and COMMIT.
Commit(o) ==
  /\ op[o].pc = "locked"
  /\ reviews' = Append(reviews, [at |-> op[o].at, rows |-> op[o].rows])
  /\ op' = [op EXCEPT ![o] = Idle(AnyLedger)]
  /\ UNCHANGED <<current, ledger, begins>>

\* A dry run, a problem in the plan, a changed table, a lock timeout, an error
\* or a lost connection: nothing is written.
Stop(o) ==
  /\ op[o].pc # "idle"
  /\ op' = [op EXCEPT ![o] = Idle(AnyLedger)]
  /\ UNCHANGED <<current, ledger, reviews, begins>>

\* load-candidates.sh and the claim injector, which this command does not
\* lock out.
LoadCandidates(S) ==
  /\ current' = S
  /\ UNCHANGED <<ledger, reviews, begins, op>>

InjectLedger(l) ==
  /\ ledger' = l
  /\ UNCHANGED <<current, reviews, begins, op>>

Next ==
  \/ \E o \in Operators :
       ReadTables(o) \/ Plan(o) \/ Begin(o) \/ Lock(o) \/ Commit(o) \/ Stop(o)
  \/ \E S \in CandidateSets : LoadCandidates(S)
  \/ \E l \in Ledgers : InjectLedger(l)

Spec == Init /\ [][Next]_vars

-----------------------------------------------------------------------------
(* Properties.                                                             *)

Book == INSTANCE DeliveryBook WITH
  Slots    <- Slot,
  Runs     <- RunName,
  SlotsOf  <- [c \in Confirmations |-> {s \in Slot : s.wallet = WalletOf[c]}],
  decision <- [c \in Confirmations |-> Decision(c)],
  sentBy   <- [s \in Slot |-> IF Sent(s) = {} THEN None
                              ELSE (CHOOSE row \in Sent(s) : TRUE).run]

\* What readers make of the rows is a serial book: every transaction moves it
\* by one whole decision, sending or taking back that is legal where the book
\* then stands, although it was planned offline from tables read earlier and
\* is read back by the time it began.
ImplementsBook == Book!Spec

\* The rows read back in the order their transactions committed, although
\* they are sorted by the time those transactions began: the latest row wins
\* only because a transaction that began earlier cannot commit later.
ReadInCommitOrder ==
  \A i, j \in DOMAIN reviews : i < j => reviews[i].at < reviews[j].at

Marks(i, slot, status) ==
  {row \in Concerns(reviews[i], slot) : row.status = status}

\* No part of a wallet is marked sent twice unless the first mark was undone
\* in between: the record of a double payment cannot be written, by two
\* operators at once, under two run names or across candidate sets.
NeverSentTwice ==
  \A slot \in Slot : \A i, j \in DOMAIN reviews :
    i < j /\ Marks(i, slot, "included") # {} /\ Marks(j, slot, "included") # {} =>
      \E k \in i..j : Marks(k, slot, "queued") # {}

\* An undo names the run whose mark it takes back.
UndoneBySender ==
  \A j \in DOMAIN reviews : \A undo \in reviews[j].rows :
    undo.run # None /\ undo.status = "queued" =>
      \E i \in 1..(j - 1) :
        /\ \E sent \in Marks(i, undo.about, "included") : sent.run = undo.run
        /\ \A k \in (i + 1)..(j - 1) : Concerns(reviews[k], undo.about) = {}

\* A part is marked sent only on a confirmation that stands approved when the
\* mark is committed: no rejection slips in between plan and apply.
SentOnlyApproved ==
  \A j \in DOMAIN reviews : \A row \in reviews[j].rows :
    row.status = "included" =>
      \E i \in 1..(j - 1) :
        /\ \E d \in Concerns(reviews[i], row.conf) : d.status = "queued"
        /\ \A k \in (i + 1)..(j - 1) : Concerns(reviews[k], row.conf) = {}

\* A run name stands for one batch: one manifest and one of the two parts,
\* whichever operator marks or undoes it.
OneBatchPerRunName ==
  \A i, j \in DOMAIN reviews :
    \A x \in reviews[i].rows, y \in reviews[j].rows :
      x.run # None /\ y.run = x.run =>
        y.manifest = x.manifest /\ TrackOf[y.about.part] = TrackOf[x.about.part]

\* Stated by the script's comment that its counts prove nothing changed since
\* the extract, and by the README's promise that approving refuses a
\* confirmation signed under a superseded candidate set: an approval is
\* recorded only while its confirmation is under the loaded set.
ApprovedUnderLoadedSet ==
  [][\A o \in Operators : Commit(o) =>
       \A row \in op[o].rows :
         row.run = None /\ row.status = "queued" => row.conf \in current]_vars
=============================================================================
