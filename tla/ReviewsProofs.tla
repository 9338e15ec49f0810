---------------------------- MODULE ReviewsProofs ----------------------------
(***************************************************************************)
(* Theorems about Reviews, for every set of operators, wallets, runs and   *)
(* candidate sets and without the bounds of the TLC runs mattering.        *)
(***************************************************************************)
EXTENDS Reviews, TLAPS

\* The transactions in a well-typed table.
LEMMA BatchType ==
  ASSUME TypeOK
  PROVE  /\ Len(reviews) \in Nat
         /\ DOMAIN reviews = 1..Len(reviews)
         /\ \A i \in 1..Len(reviews) :
              reviews[i].at \in Nat /\ reviews[i].rows \subseteq Row
<1>1. reviews \in Seq(Batch)
  BY DEF TypeOK
<1>2. Len(reviews) \in Nat /\ DOMAIN reviews = 1..Len(reviews)
  BY <1>1
<1>3. \A i \in 1..Len(reviews) : reviews[i] \in Batch
  BY <1>1
<1>. QED  BY <1>2, <1>3 DEF Batch

\* Rows read back from a well-typed table are rows.
LEMMA LatestType ==
  ASSUME TypeOK, NEW x
  PROVE  /\ Latest(x) \subseteq Row
         /\ \A row \in Latest(x) : row.about = x
         /\ Sent(x) \subseteq Row
<1>1. \A i \in DOMAIN reviews : reviews[i].rows \subseteq Row
  BY BatchType
<1>2. \A i \in DOMAIN reviews : Concerns(reviews[i], x) \subseteq
                                {row \in Row : row.about = x}
  BY <1>1, Zenon DEF Concerns
<1>3. Latest(x) \subseteq {row \in Row : row.about = x}
  BY <1>2, Zenon DEF Latest
<1>. QED  BY <1>3 DEF Sent

\* Every plan consists of rows the table takes.
LEMMA DecisionPlanType ==
  ASSUME TypeOK, NEW o \in Operators, NEW confs \in SUBSET Confirmations
  PROVE  ApprovePlan(o, confs) \subseteq Row /\ RejectPlan(confs) \subseteq Row
<1>1. \A c \in Confirmations, status \in {"queued", "rejected"} :
        DecisionRow(c, status) \in Row
  BY DEF DecisionRow, Row
<1>. QED  BY <1>1 DEF ApprovePlan, RejectPlan

LEMMA SentPlanType ==
  ASSUME TypeOK, NEW o \in Operators, NEW dir \in RunDirs,
         NEW items \in SUBSET dir.items
  PROVE  SentPlan(o, dir, items) \subseteq Row
<1>1. op[o].current \subseteq Confirmations
  BY DEF TypeOK, OpState
<1>2. dir.name \in RunName /\ dir.manifest \in Manifest
  BY DEF RunName, Manifest
<1>3. \A item \in items : item.slot \in Slot
  BY ConstantsAssumption
<1>4. ASSUME NEW item \in items, NEW c \in Confirmations
      PROVE  SentRow(dir, item, c) \in Row
  BY <1>2, <1>3 DEF Row, SentRow
<1>. QED  BY <1>1, <1>4 DEF SentPlan, CurrentOf

LEMMA UnsentPlanType ==
  ASSUME TypeOK, NEW track, NEW name, NEW wallets
  PROVE  UnsentPlan(track, name, wallets) \subseteq Row
<1>1. ASSUME NEW row \in Row
      PROVE  [row EXCEPT !.status = "queued"] \in Row
  BY DEF Row
<1>2. UNION {Sent(slot) : slot \in Slot} \subseteq Row
  BY LatestType
<1>. QED  BY <1>1, <1>2 DEF UnsentPlan

LEMMA PlanIsPlanned ==
  ASSUME TypeOK, NEW o \in Operators, Plan(o)
  PROVE  \E rows \in SUBSET Row : Planned(o, rows)
<1>1. CASE \E confs \in SUBSET Confirmations : Approve(o, confs) \/ Reject(o, confs)
  <2>1. PICK confs \in SUBSET Confirmations : Approve(o, confs) \/ Reject(o, confs)
    BY <1>1
  <2>2. ApprovePlan(o, confs) \subseteq Row /\ RejectPlan(confs) \subseteq Row
    BY DecisionPlanType
  <2>. QED  BY <2>1, <2>2 DEF Approve, Reject
<1>2. CASE \E dir \in RunDirs : \E items \in SUBSET dir.items : MarkSent(o, dir, items)
  BY <1>2, SentPlanType DEF MarkSent
<1>3. CASE \E track \in Tracks, name \in RunName, wallets \in SUBSET Wallets :
             Unsend(o, track, name, wallets)
  BY <1>3, UnsentPlanType DEF Unsend
<1>. QED  BY <1>1, <1>2, <1>3 DEF Plan

LEMMA InitType == Init => TypeOK
<1>. SUFFICES ASSUME Init PROVE TypeOK
  OBVIOUS
<1>1. AnyLedger \in Ledgers
  BY DEF Init, AnyLedger
<1>2. Idle(AnyLedger) \in OpState
  BY <1>1 DEF Idle, OpState
<1>. QED  BY <1>2 DEF Init, TypeOK

LEMMA NextType == TypeOK /\ [Next]_vars => TypeOK'
<1>. SUFFICES ASSUME TypeOK, [Next]_vars PROVE TypeOK'
  OBVIOUS
<1>0. /\ AnyLedger \in Ledgers
      /\ Idle(AnyLedger) \in OpState
      /\ op \in [Operators -> OpState]
  <2>1. AnyLedger \in Ledgers
    BY DEF TypeOK, AnyLedger
  <2>. QED  BY <2>1 DEF TypeOK, Idle, OpState
<1>1. ASSUME NEW o \in Operators, ReadTables(o)
      PROVE  TypeOK'
  <2>1. current \subseteq Confirmations
    BY ConstantsAssumption DEF TypeOK
  <2>2. op'[o] \in OpState
    BY <1>0, <1>1, <2>1 DEF ReadTables, TypeOK, OpState
  <2>. QED  BY <1>0, <1>1, <2>2 DEF ReadTables, TypeOK
<1>2. ASSUME NEW o \in Operators, Plan(o)
      PROVE  TypeOK'
  <2>1. PICK rows \in SUBSET Row : Planned(o, rows)
    BY <1>2, PlanIsPlanned
  <2>2. Len(reviews) \in Nat
    BY BatchType
  <2>3. op'[o] \in OpState
    BY <1>0, <2>1, <2>2 DEF Planned, Idle, OpState
  <2>. QED  BY <1>0, <2>1, <2>3 DEF Planned, TypeOK
<1>3. ASSUME NEW o \in Operators, Begin(o)
      PROVE  TypeOK'
  <2>1. begins + 1 \in Nat
    BY DEF TypeOK
  <2>2. op'[o] \in OpState
    BY <1>0, <1>3, <2>1 DEF Begin, OpState
  <2>. QED  BY <1>0, <1>3, <2>1, <2>2 DEF Begin, TypeOK
<1>4. ASSUME NEW o \in Operators, Lock(o)
      PROVE  TypeOK'
  <2>1. op'[o] \in OpState
    BY <1>0, <1>4 DEF Lock, OpState
  <2>. QED  BY <1>0, <1>4, <2>1 DEF Lock, TypeOK
<1>5. ASSUME NEW o \in Operators, Commit(o)
      PROVE  TypeOK'
  <2>1. [at |-> op[o].at, rows |-> op[o].rows] \in Batch
    BY <1>0 DEF OpState, Batch
  <2>2. reviews' \in Seq(Batch)
    BY <1>5, <2>1 DEF Commit, TypeOK
  <2>. QED  BY <1>0, <1>5, <2>2 DEF Commit, TypeOK
<1>6. ASSUME NEW o \in Operators, Stop(o)
      PROVE  TypeOK'
  BY <1>0, <1>6 DEF Stop, TypeOK
<1>7. ASSUME NEW S \in CandidateSets, LoadCandidates(S)
      PROVE  TypeOK'
  BY <1>7 DEF LoadCandidates, TypeOK
<1>8. ASSUME NEW l \in Ledgers, InjectLedger(l)
      PROVE  TypeOK'
  BY <1>8 DEF InjectLedger, TypeOK
<1>9. CASE UNCHANGED vars
  BY <1>9 DEF vars, TypeOK
<1>. QED
  BY <1>1, <1>2, <1>3, <1>4, <1>5, <1>6, <1>7, <1>8, <1>9 DEF Next

\* Every row, every operator's state and every transaction has its type,
\* whatever the plans were made from.
THEOREM TypeCorrect == Spec => []TypeOK
  BY InitType, NextType, PTL DEF Spec

-----------------------------------------------------------------------------
(* The optimistic check.  A command past its plan holds the number of rows *)
(* it planned from; holding the lock it knows the table has just these.    *)

PastPlan == {"planned", "begun", "locked"}

CountInv ==
  /\ \A o \in Operators : op[o].pc \in PastPlan => op[o].expected <= Len(reviews)
  /\ \A o \in Operators : op[o].pc = "locked" => op[o].expected = Len(reviews)
  /\ \A o, p \in Operators : op[o].pc = "locked" /\ op[p].pc = "locked" => o = p

\* A command that planned from the table as it stands begins, or will begin,
\* after every transaction in it.
OrderInv ==
  /\ \A i \in 1..Len(reviews) : reviews[i].at <= begins
  /\ \A i, j \in 1..Len(reviews) : i < j => reviews[i].at < reviews[j].at
  /\ \A o \in Operators :
       op[o].pc \in {"begun", "locked"} =>
         /\ op[o].at <= begins
         /\ op[o].expected = Len(reviews) =>
              \A i \in 1..Len(reviews) : reviews[i].at < op[o].at

\* What COMMIT does to the table.
LEMMA Appended ==
  ASSUME TypeOK, NEW o \in Operators, Commit(o)
  PROVE  /\ Len(reviews) \in Nat
         /\ DOMAIN reviews = 1..Len(reviews)
         /\ Len(reviews') = Len(reviews) + 1
         /\ DOMAIN reviews' = 1..(Len(reviews) + 1)
         /\ \A i \in 1..Len(reviews) : reviews'[i] = reviews[i]
         /\ reviews'[Len(reviews) + 1] = [at |-> op[o].at, rows |-> op[o].rows]
         /\ reviews'[Len(reviews) + 1].rows = op[o].rows
         /\ reviews'[Len(reviews) + 1].at = op[o].at
<1>. DEFINE batch == [at |-> op[o].at, rows |-> op[o].rows]
<1>1. reviews \in Seq(Batch) /\ batch \in Batch
  BY DEF TypeOK, OpState, Batch
<1>2. reviews' = Append(reviews, batch)
  BY DEF Commit
<1>3. batch.rows = op[o].rows /\ batch.at = op[o].at
  OBVIOUS
<1>. HIDE DEF batch
<1>4. /\ Len(reviews) \in Nat
      /\ DOMAIN reviews = 1..Len(reviews)
      /\ Len(reviews') = Len(reviews) + 1
      /\ DOMAIN reviews' = 1..(Len(reviews) + 1)
      /\ \A i \in 1..Len(reviews) : reviews'[i] = reviews[i]
      /\ reviews'[Len(reviews) + 1] = batch
  BY <1>1, <1>2
<1>. QED  BY <1>3, <1>4 DEF batch

LEMMA InitCount == Init => CountInv /\ OrderInv
<1>. SUFFICES ASSUME Init PROVE CountInv /\ OrderInv
  OBVIOUS
<1>1. reviews = <<>> /\ \A o \in Operators : op[o].pc = "idle"
  BY DEF Init, Idle
<1>2. Len(reviews) = 0
  BY <1>1
<1>. QED  BY <1>1, <1>2 DEF CountInv, OrderInv, PastPlan

LEMMA NextCount == TypeOK /\ CountInv /\ [Next]_vars => CountInv'
<1>. SUFFICES ASSUME TypeOK, CountInv, [Next]_vars PROVE CountInv'
  OBVIOUS
<1>. USE DEF CountInv, PastPlan
<1>0. op \in [Operators -> OpState] /\ Len(reviews) \in Nat
  BY BatchType DEF TypeOK
<1>1. ASSUME NEW o \in Operators, ReadTables(o)
      PROVE  CountInv'
  BY <1>0, <1>1 DEF ReadTables, OpState
<1>2. ASSUME NEW o \in Operators, Plan(o)
      PROVE  CountInv'
  <2>1. PICK rows \in SUBSET Row : Planned(o, rows)
    BY <1>2, PlanIsPlanned
  <2>. QED  BY <1>0, <2>1 DEF Planned, Idle
<1>3. ASSUME NEW o \in Operators, Begin(o)
      PROVE  CountInv'
  BY <1>0, <1>3 DEF Begin, OpState
<1>4. ASSUME NEW o \in Operators, Lock(o)
      PROVE  CountInv'
  BY <1>0, <1>4 DEF Lock, LockFree, OpState
<1>5. ASSUME NEW o \in Operators, Commit(o)
      PROVE  CountInv'
  <2>1. op'[o].pc = "idle" /\ \A p \in Operators \ {o} : op'[p] = op[p]
    BY <1>0, <1>5 DEF Commit, Idle
  <2>2. Len(reviews') = Len(reviews) + 1
    BY <1>5, Appended
  <2>3. \A p \in Operators : op[p].expected \in Nat
    BY <1>0 DEF OpState
  <2>. QED  BY <1>0, <1>5, <2>1, <2>2, <2>3 DEF Commit
<1>6. ASSUME NEW o \in Operators, Stop(o)
      PROVE  CountInv'
  BY <1>0, <1>6 DEF Stop, Idle
<1>7. CASE \/ \E S \in CandidateSets : LoadCandidates(S)
           \/ \E l \in Ledgers : InjectLedger(l)
           \/ UNCHANGED vars
  BY <1>7 DEF LoadCandidates, InjectLedger, vars
<1>. QED  BY <1>1, <1>2, <1>3, <1>4, <1>5, <1>6, <1>7 DEF Next

LEMMA NextOrder == TypeOK /\ CountInv /\ OrderInv /\ [Next]_vars => OrderInv'
<1>. SUFFICES ASSUME TypeOK, CountInv, OrderInv, [Next]_vars PROVE OrderInv'
  OBVIOUS
<1>0. /\ op \in [Operators -> OpState]
      /\ Len(reviews) \in Nat /\ begins \in Nat
      /\ \A i \in 1..Len(reviews) : reviews[i].at \in Nat
      /\ \A o \in Operators : op[o].expected \in Nat /\ op[o].at \in Nat
  BY BatchType DEF TypeOK, OpState
<1>1. ASSUME NEW o \in Operators, ReadTables(o)
      PROVE  OrderInv'
  BY <1>0, <1>1 DEF ReadTables, OrderInv, OpState
<1>2. ASSUME NEW o \in Operators, Plan(o)
      PROVE  OrderInv'
  <2>1. PICK rows \in SUBSET Row : Planned(o, rows)
    BY <1>2, PlanIsPlanned
  <2>. QED  BY <1>0, <2>1 DEF Planned, Idle, OrderInv
<1>3. ASSUME NEW o \in Operators, Begin(o)
      PROVE  OrderInv'
  BY <1>0, <1>3 DEF Begin, OrderInv, OpState
<1>4. ASSUME NEW o \in Operators, Lock(o)
      PROVE  OrderInv'
  BY <1>0, <1>4 DEF Lock, OrderInv, OpState
<1>5. ASSUME NEW o \in Operators, Commit(o)
      PROVE  OrderInv'
  <2>1. op'[o].pc = "idle" /\ \A p \in Operators \ {o} : op'[p] = op[p]
    BY <1>0, <1>5 DEF Commit, Idle
  <2>2. /\ Len(reviews') = Len(reviews) + 1
        /\ \A i \in 1..Len(reviews) : reviews'[i] = reviews[i]
        /\ reviews'[Len(reviews) + 1].at = op[o].at
        /\ begins' = begins
    BY <1>5, Appended DEF Commit
  <2>3. /\ op[o].at <= begins
        /\ \A i \in 1..Len(reviews) : reviews[i].at < op[o].at
    BY <1>5 DEF Commit, CountInv, OrderInv
  <2>4. \A p \in Operators \ {o} :
          op[p].pc \in {"begun", "locked"} => op[p].expected <= Len(reviews)
    BY DEF CountInv, PastPlan
  <2>5. \A p \in Operators : op'[p].pc \in {"begun", "locked"} =>
          op'[p].at <= begins' /\ op'[p].expected # Len(reviews')
    BY <1>0, <2>1, <2>2, <2>4 DEF OrderInv
  <2>6. \A i \in 1..Len(reviews') : reviews'[i].at <= begins'
    BY <1>0, <2>2, <2>3 DEF OrderInv
  <2>7. ASSUME NEW i \in 1..Len(reviews'), NEW j \in 1..Len(reviews'), i < j
        PROVE  reviews'[i].at < reviews'[j].at
    <3>1. i \in 1..Len(reviews)
      BY <1>0, <2>2, <2>7
    <3>2. CASE j \in 1..Len(reviews)
      BY <2>2, <2>7, <3>1, <3>2 DEF OrderInv
    <3>3. CASE j = Len(reviews) + 1
      BY <2>2, <2>3, <3>1, <3>3
    <3>. QED  BY <1>0, <2>2, <3>2, <3>3
  <2>. QED  BY <2>5, <2>6, <2>7 DEF OrderInv
<1>6. ASSUME NEW o \in Operators, Stop(o)
      PROVE  OrderInv'
  BY <1>0, <1>6 DEF Stop, Idle, OrderInv
<1>7. CASE \/ \E S \in CandidateSets : LoadCandidates(S)
           \/ \E l \in Ledgers : InjectLedger(l)
           \/ UNCHANGED vars
  BY <1>7 DEF LoadCandidates, InjectLedger, vars, OrderInv
<1>. QED  BY <1>1, <1>2, <1>3, <1>4, <1>5, <1>6, <1>7 DEF Next

THEOREM CountsHold == Spec => [](TypeOK /\ CountInv /\ OrderInv)
<1>1. Init => TypeOK /\ CountInv /\ OrderInv
  BY InitType, InitCount
<1>2. TypeOK /\ CountInv /\ OrderInv /\ [Next]_vars => (TypeOK /\ CountInv /\ OrderInv)'
  BY NextType, NextCount, NextOrder
<1>. QED  BY <1>1, <1>2, PTL DEF Spec

LEMMA OrderImpliesRead == TypeOK /\ OrderInv => ReadInCommitOrder
  BY BatchType DEF OrderInv, ReadInCommitOrder

\* Transactions commit in the order they began, so sorting by reviewed_at is
\* sorting by commit, for any number of commands at once.
THEOREM ReadsInCommitOrder == Spec => []ReadInCommitOrder
  BY CountsHold, OrderImpliesRead, PTL

-----------------------------------------------------------------------------
(* A plan that was made from the table as it stands is legal there.        *)

LogRows == UNION {reviews[i].rows : i \in 1..Len(reviews)}

\* A row decides a confirmation or marks a part of a wallet.
RowShape(row) ==
  \/ /\ row.run = None
     /\ row.about = row.conf
     /\ row.status \in {"queued", "rejected"}
  \/ /\ row.run \in RunName
     /\ row.about \in Slot
     /\ row.status \in {"included", "queued"}

SameBatch(x, y) ==
  x.run # None /\ y.run = x.run =>
    y.manifest = x.manifest /\ TrackOf[y.about.part] = TrackOf[x.about.part]

\* A command writes one kind of row, for one run.
OneKind(rows) == \A x, y \in rows : x.status = y.status /\ x.run = y.run

\* A decision changes what stands; a mark is of a part nobody sent, for its
\* wallet's confirmation, which is approved; an undo is of its own mark.
Fits(rows) ==
  /\ OneKind(rows)
  /\ \A row \in rows :
       /\ RowShape(row)
       /\ \A other \in rows \cup LogRows : SameBatch(row, other)
       /\ row.run = None =>
            Decision(row.conf) # (IF row.status = "queued" THEN "approved" ELSE "rejected")
       /\ row.status = "included" =>
            /\ Sent(row.about) = {} /\ Decision(row.conf) = "approved"
            /\ WalletOf[row.conf] = row.about.wallet
       /\ row.run # None /\ row.status = "queued" =>
            \E sent \in Sent(row.about) : sent.run = row.run

PlanInv ==
  \A o \in Operators :
    op[o].pc \in PastPlan /\ op[o].expected = Len(reviews) => Fits(op[o].rows)

\* What plans rely on in the table: its rows have their shape, a transaction
\* is of one kind, a run name is one batch, and every subject that has rows has a last transaction.
LogInv ==
  /\ \A row \in LogRows : RowShape(row)
  /\ \A i \in 1..Len(reviews) : OneKind(reviews[i].rows)
  /\ \A x, y \in LogRows : SameBatch(x, y)
  /\ \A x \in Confirmations \cup Slot, i \in 1..Len(reviews) :
       Concerns(reviews[i], x) # {} =>
         \E m \in i..Len(reviews) :
           /\ Concerns(reviews[m], x) # {}
           /\ \A j \in (m + 1)..Len(reviews) : Concerns(reviews[j], x) = {}

\* Readers sort by time and still read in the order of commits.
LEMMA ReadAfterIsLater ==
  ASSUME TypeOK, OrderInv
  PROVE  \A i, j \in 1..Len(reviews) : ReadAfter(i, j) <=> i > j
  BY BatchType DEF OrderInv, ReadAfter

\* The row that wins is in the last transaction about its subject.
LEMMA LatestIsLast ==
  ASSUME TypeOK, OrderInv, NEW x, NEW m \in 1..Len(reviews),
         Concerns(reviews[m], x) # {},
         \A j \in (m + 1)..Len(reviews) : Concerns(reviews[j], x) = {}
  PROVE  Latest(x) = Concerns(reviews[m], x)
<1>. DEFINE Winners ==
       {i \in DOMAIN reviews :
          \A j \in DOMAIN reviews :
            ReadAfter(j, i) => Concerns(reviews[j], x) = {}}
<1>1. DOMAIN reviews = 1..Len(reviews) /\ Len(reviews) \in Nat
  BY BatchType
<1>2. m \in Winners
  <2>1. \A j \in DOMAIN reviews : ReadAfter(j, m) => j > m
    BY <1>1, ReadAfterIsLater
  <2>2. \A j \in DOMAIN reviews : j > m => Concerns(reviews[j], x) = {}
    BY <1>1
  <2>. QED  BY <1>1, <2>1, <2>2
<1>3. ASSUME NEW i \in Winners, i # m
      PROVE  Concerns(reviews[i], x) = {}
  <2>1. ~ ReadAfter(m, i)
    BY <1>1
  <2>2. i > m
    BY <1>1, <1>3, <2>1, ReadAfterIsLater
  <2>. QED  BY <1>1, <2>2
<1>4. Latest(x) = UNION {Concerns(reviews[i], x) : i \in Winners}
  BY DEF Latest
<1>. QED  BY <1>2, <1>3, <1>4

LEMMA LastOf ==
  ASSUME TypeOK, OrderInv, LogInv, NEW x \in Confirmations \cup Slot,
         NEW i \in 1..Len(reviews), Concerns(reviews[i], x) # {}
  PROVE  \E m \in i..Len(reviews) :
           /\ Latest(x) = Concerns(reviews[m], x)
           /\ Latest(x) # {}
           /\ \A j \in (m + 1)..Len(reviews) : Concerns(reviews[j], x) = {}
<1>1. PICK m \in i..Len(reviews) :
        /\ Concerns(reviews[m], x) # {}
        /\ \A j \in (m + 1)..Len(reviews) : Concerns(reviews[j], x) = {}
  BY DEF LogInv
<1>2. m \in 1..Len(reviews)
  BY BatchType
<1>. QED  BY <1>1, <1>2, LatestIsLast

LEMMA LatestInLog ==
  ASSUME TypeOK, NEW x
  PROVE  /\ \A row \in Latest(x) : row \in LogRows /\ row.about = x
         /\ Sent(x) = {row \in Latest(x) : row.status = "included"}
         /\ Latest(x) # {} => \E i \in 1..Len(reviews) : Concerns(reviews[i], x) # {}
<1>1. DOMAIN reviews = 1..Len(reviews)
  BY BatchType
<1>2. \A row \in Latest(x) : \E i \in 1..Len(reviews) : row \in Concerns(reviews[i], x)
  BY <1>1 DEF Latest
<1>3. \A i : \A row \in Concerns(reviews[i], x) : row \in reviews[i].rows /\ row.about = x
  BY DEF Concerns
<1>. QED  BY <1>2, <1>3 DEF Sent, LogRows

-----------------------------------------------------------------------------
(* Each command plans rows that fit the table it read.                     *)

LEMMA DecisionsFit ==
  ASSUME TypeOK, LogInv, NEW o \in Operators, NEW confs \in SUBSET Confirmations
  PROVE  Fits(ApprovePlan(o, confs)) /\ Fits(RejectPlan(confs))
<1>1. ASSUME NEW c \in Confirmations, NEW status \in {"queued", "rejected"}
      PROVE  LET row == DecisionRow(c, status) IN
               /\ RowShape(row) /\ row.run = None /\ row.conf = c
               /\ row.status = status /\ row.status # "included"
  BY DEF DecisionRow, RowShape
<1>. QED  BY <1>1 DEF ApprovePlan, RejectPlan, Fits, SameBatch, OneKind

LEMMA SentFits ==
  ASSUME TypeOK, LogInv, NEW o \in Operators, NEW dir \in RunDirs,
         NEW items \in SUBSET dir.items, RunUsable(dir),
         \A item \in Listed(o, items) : Payable(o, dir, item)
  PROVE  Fits(SentPlan(o, dir, items))
<1>. DEFINE rows == SentPlan(o, dir, items)
<1>0. dir.name \in RunName /\ dir.name # None
  BY ConstantsAssumption DEF RunName
<1>1. ASSUME NEW row \in rows
      PROVE  /\ row.about \in Slot /\ row.status = "included"
             /\ row.run = dir.name /\ row.manifest = dir.manifest
             /\ TrackOf[row.about.part] = dir.track
             /\ Sent(row.about) = {} /\ Decision(row.conf) = "approved"
             /\ WalletOf[row.conf] = row.about.wallet
  <2>1. PICK item \in items : /\ Sent(item.slot) = {}
                             /\ \E c \in CurrentOf(o, item.slot.wallet) :
                                  row = SentRow(dir, item, c)
    BY DEF SentPlan
  <2>2. PICK c \in CurrentOf(o, item.slot.wallet) : row = SentRow(dir, item, c)
    BY <2>1
  <2>3. Decision(c) = "approved" /\ WalletOf[c] = item.slot.wallet
    BY <2>2 DEF Listed, Payable, CurrentOf
  <2>4. item.slot \in Slot /\ TrackOf[item.slot.part] = dir.track
    BY ConstantsAssumption
  <2>. QED  BY <2>1, <2>2, <2>3, <2>4 DEF SentRow
<1>2. ASSUME NEW y \in LogRows, y.run = dir.name
      PROVE  y.manifest = dir.manifest /\ TrackOf[y.about.part] = dir.track
  <2>1. y \in RunRows(dir.name)
    BY <1>2, BatchType DEF LogRows, RunRows
  <2>. QED  BY <2>1 DEF RunUsable, RunManifests, RunTracks
<1>3. \A row \in rows, other \in rows \cup LogRows : SameBatch(row, other)
  BY <1>1, <1>2 DEF SameBatch
<1>. QED  BY <1>0, <1>1, <1>3 DEF Fits, RowShape, OneKind

LEMMA UnsentFits ==
  ASSUME TypeOK, LogInv, NEW track, NEW name \in RunName, NEW wallets
  PROVE  Fits(UnsentPlan(track, name, wallets))
<1>. DEFINE rows == UnsentPlan(track, name, wallets)
<1>1. ASSUME NEW row \in rows
      PROVE  \E sent \in LogRows :
               /\ row.about \in Slot /\ row.status = "queued"
               /\ sent \in Sent(row.about)
               /\ sent.run = row.run /\ row.run = name
               /\ sent.manifest = row.manifest /\ sent.about = row.about
  <2>1. PICK slot \in Slot : \E sent \in Sent(slot) :
          sent.run = name /\ row = [sent EXCEPT !.status = "queued"]
    BY DEF UnsentPlan
  <2>2. PICK sent \in Sent(slot) :
          sent.run = name /\ row = [sent EXCEPT !.status = "queued"]
    BY <2>1
  <2>3. sent \in LogRows /\ sent.about = slot
    BY LatestInLog
  <2>4. sent \in Row
    BY LatestType
  <2>. QED  BY <2>2, <2>3, <2>4 DEF Row
<1>2. \A row \in rows, other \in rows \cup LogRows : SameBatch(row, other)
  BY <1>1 DEF SameBatch, LogInv
<1>3. name # None /\ \A row \in rows : RowShape(row)
  BY <1>1, ConstantsAssumption DEF RowShape
<1>. QED  BY <1>1, <1>2, <1>3 DEF Fits, OneKind

LEMMA PlanFits ==
  ASSUME TypeOK, LogInv, NEW o \in Operators, Plan(o)
  PROVE  \E rows \in SUBSET Row : Planned(o, rows) /\ Fits(rows)
<1>1. CASE \E confs \in SUBSET Confirmations : Approve(o, confs) \/ Reject(o, confs)
  <2>1. PICK confs \in SUBSET Confirmations : Approve(o, confs) \/ Reject(o, confs)
    BY <1>1
  <2>. QED  BY <2>1, DecisionPlanType, DecisionsFit DEF Approve, Reject
<1>2. CASE \E dir \in RunDirs : \E items \in SUBSET dir.items : MarkSent(o, dir, items)
  BY <1>2, SentPlanType, SentFits DEF MarkSent
<1>3. CASE \E track \in Tracks, name \in RunName, wallets \in SUBSET Wallets :
             Unsend(o, track, name, wallets)
  BY <1>3, UnsentPlanType, UnsentFits DEF Unsend
<1>. QED  BY <1>1, <1>2, <1>3 DEF Plan

-----------------------------------------------------------------------------
(* Both invariants are inductive.                                          *)

LEMMA InitLog == Init => LogInv /\ PlanInv
<1>. SUFFICES ASSUME Init PROVE LogInv /\ PlanInv
  OBVIOUS
<1>1. reviews = <<>> /\ \A o \in Operators : op[o].pc = "idle"
  BY DEF Init, Idle
<1>2. Len(reviews) = 0
  BY <1>1
<1>. QED  BY <1>1, <1>2 DEF LogInv, PlanInv, LogRows, PastPlan

\* What a plan says depends on the table alone.
LEMMA FitsSame ==
  ASSUME reviews' = reviews, NEW rows, Fits(rows)
  PROVE  Fits(rows)'
<1>1. LogRows' = LogRows
  BY DEF LogRows
<1>2. ASSUME NEW x
      PROVE  Latest(x)' = Latest(x) /\ Sent(x)' = Sent(x) /\ Decision(x)' = Decision(x)
  BY DEF Latest, Sent, Decision, Concerns, ReadAfter
<1>. QED  BY <1>1, <1>2 DEF Fits, RowShape, SameBatch, OneKind

LEMMA NextPlan ==
  TypeOK /\ CountInv /\ LogInv /\ PlanInv /\ [Next]_vars => PlanInv'
<1>. SUFFICES ASSUME TypeOK, CountInv, LogInv, PlanInv, [Next]_vars
              PROVE  PlanInv'
  OBVIOUS
<1>0. op \in [Operators -> OpState]
  BY DEF TypeOK
<1>1. ASSUME reviews' = reviews,
             \A o \in Operators :
               \/ op'[o].pc \notin PastPlan
               \/ Fits(op'[o].rows)
               \/ /\ op[o].pc \in PastPlan
                  /\ op'[o].rows = op[o].rows /\ op'[o].expected = op[o].expected
      PROVE  PlanInv'
  BY <1>1, FitsSame DEF PlanInv
<1>2. ASSUME NEW o \in Operators, Plan(o)
      PROVE  PlanInv'
  <2>1. PICK rows \in SUBSET Row : Planned(o, rows) /\ Fits(rows)
    BY <1>2, PlanFits
  <2>2. op'[o].rows = rows /\ \A p \in Operators \ {o} : op'[p] = op[p]
    BY <1>0, <2>1 DEF Planned, Idle
  <2>. QED  BY <1>1, <2>1, <2>2 DEF Planned
<1>3. ASSUME NEW o \in Operators,
             ReadTables(o) \/ Begin(o) \/ Lock(o) \/ Stop(o)
      PROVE  PlanInv'
  <2>1. \A p \in Operators \ {o} : op'[p] = op[p]
    BY <1>0, <1>3 DEF ReadTables, Begin, Lock, Stop
  <2>2. \/ op'[o].pc \notin PastPlan
        \/ /\ op[o].pc \in PastPlan
           /\ op'[o].rows = op[o].rows /\ op'[o].expected = op[o].expected
    BY <1>0, <1>3 DEF ReadTables, Begin, Lock, Stop, Idle, PastPlan, OpState
  <2>. QED  BY <1>1, <1>3, <2>1, <2>2 DEF ReadTables, Begin, Lock, Stop
<1>4. ASSUME NEW o \in Operators, Commit(o)
      PROVE  PlanInv'
  <2>1. op'[o].pc = "idle" /\ \A p \in Operators \ {o} : op'[p] = op[p]
    BY <1>0, <1>4 DEF Commit, Idle
  <2>2. Len(reviews') = Len(reviews) + 1 /\ Len(reviews) \in Nat
    BY <1>4, Appended, BatchType
  <2>3. \A p \in Operators : op[p].pc \in PastPlan =>
          op[p].expected \in Nat /\ op[p].expected <= Len(reviews)
    BY <1>0 DEF CountInv, OpState
  <2>. QED  BY <2>1, <2>2, <2>3 DEF PlanInv, PastPlan
<1>5. CASE \/ \E S \in CandidateSets : LoadCandidates(S)
           \/ \E l \in Ledgers : InjectLedger(l)
           \/ UNCHANGED vars
  BY <1>1, <1>5 DEF LoadCandidates, InjectLedger, vars
<1>. QED  BY <1>2, <1>3, <1>4, <1>5 DEF Next

LEMMA CommitFits ==
  ASSUME TypeOK, CountInv, PlanInv, NEW o \in Operators, Commit(o)
  PROVE  /\ Fits(op[o].rows)
         /\ op[o].rows \subseteq Row
         /\ LogRows' = LogRows \cup op[o].rows
         /\ \A x : Concerns(reviews'[Len(reviews) + 1], x)
                   = {row \in op[o].rows : row.about = x}
         /\ \A x : \A i \in 1..Len(reviews) :
              Concerns(reviews'[i], x) = Concerns(reviews[i], x)
<1>1. Fits(op[o].rows)
  BY DEF PlanInv, CountInv, PastPlan, Commit
<1>2. op[o].rows \subseteq Row
  BY DEF TypeOK, OpState
<1>3. /\ Len(reviews) \in Nat
      /\ Len(reviews') = Len(reviews) + 1
      /\ \A i \in 1..Len(reviews) : reviews'[i] = reviews[i]
      /\ reviews'[Len(reviews) + 1].rows = op[o].rows
  BY Appended, Zenon
<1>4. LogRows' = LogRows \cup op[o].rows
  <2>1. \A i : i \in 1..Len(reviews') <=> i \in 1..Len(reviews) \/ i = Len(reviews) + 1
    BY <1>3
  <2>2. \A row : row \in LogRows' <=>
          \E i \in 1..Len(reviews') : row \in reviews'[i].rows
    BY DEF LogRows
  <2>3. \A row : row \in LogRows <=>
          \E i \in 1..Len(reviews) : row \in reviews[i].rows
    BY DEF LogRows
  <2>4. \A row : row \in LogRows' <=> row \in LogRows \/ row \in op[o].rows
    BY <1>3, <2>1, <2>2, <2>3
  <2>. QED  BY <2>4
<1>5. \A x : Concerns(reviews'[Len(reviews) + 1], x)
            = {row \in op[o].rows : row.about = x}
  BY <1>3 DEF Concerns
<1>6. \A x : \A i \in 1..Len(reviews) :
        Concerns(reviews'[i], x) = Concerns(reviews[i], x)
  BY <1>3 DEF Concerns
<1>. QED  BY <1>1, <1>2, <1>4, <1>5, <1>6

LEMMA NextLog ==
  TypeOK /\ CountInv /\ LogInv /\ PlanInv /\ [Next]_vars => LogInv'
<1>. SUFFICES ASSUME TypeOK, CountInv, LogInv, PlanInv, [Next]_vars
              PROVE  LogInv'
  OBVIOUS
<1>1. ASSUME reviews' = reviews
      PROVE  LogInv'
  BY <1>1 DEF LogInv, LogRows, RowShape, SameBatch, OneKind, Concerns
<1>2. ASSUME NEW o \in Operators, Plan(o)
      PROVE  LogInv'
  BY <1>1, <1>2, PlanIsPlanned DEF Planned
<1>3. ASSUME NEW o \in Operators, Commit(o)
      PROVE  LogInv'
  <2>. DEFINE n == Len(reviews)
              rows == op[o].rows
  <2>0. n \in Nat /\ Len(reviews') = n + 1
    BY <1>3, Appended, BatchType
  <2>1. \A row \in LogRows' : RowShape(row)
    BY <1>3, CommitFits DEF LogInv, Fits
  <2>2. \A x, y \in LogRows' : SameBatch(x, y)
    <3>1. \A x \in rows, y \in rows \cup LogRows : SameBatch(x, y)
      BY <1>3, CommitFits DEF Fits
    <3>2. \A x \in LogRows, y \in rows : SameBatch(x, y)
      BY <3>1 DEF SameBatch
    <3>. QED  BY <1>3, <3>1, <3>2, CommitFits DEF LogInv
  <2>3. ASSUME NEW x \in Confirmations \cup Slot, NEW i \in 1..(n + 1),
               Concerns(reviews'[i], x) # {}
        PROVE  \E m \in i..(n + 1) :
                 /\ Concerns(reviews'[m], x) # {}
                 /\ \A j \in (m + 1)..(n + 1) : Concerns(reviews'[j], x) = {}
    <3>1. CASE Concerns(reviews'[n + 1], x) # {}
      <4>1. n + 1 \in i..(n + 1) /\ \A j \in ((n + 1) + 1)..(n + 1) : FALSE
        BY <2>0
      <4>. QED  BY <3>1, <4>1
    <3>2. CASE Concerns(reviews'[n + 1], x) = {}
      <4>1. i \in 1..n
        BY <2>0, <2>3, <3>2
      <4>2. Concerns(reviews[i], x) # {}
        BY <1>3, <2>3, <4>1, CommitFits
      <4>3. PICK m \in i..n :
              /\ Concerns(reviews[m], x) # {}
              /\ \A j \in (m + 1)..n : Concerns(reviews[j], x) = {}
        BY <4>1, <4>2 DEF LogInv
      <4>4. m \in 1..n /\ Concerns(reviews'[m], x) # {}
        BY <1>3, <2>0, <4>3, CommitFits
      <4>5. ASSUME NEW j \in (m + 1)..(n + 1)
            PROVE  Concerns(reviews'[j], x) = {}
        <5>1. CASE j = n + 1
          BY <3>2, <5>1
        <5>2. CASE j # n + 1
          <6>1. j \in (m + 1)..n /\ j \in 1..n
            BY <2>0, <4>4, <5>2
          <6>. QED  BY <1>3, <4>3, <6>1, CommitFits
        <5>. QED  BY <5>1, <5>2
      <4>6. m \in i..(n + 1)
        BY <2>0, <4>1, <4>3
      <4>. QED  BY <4>4, <4>5, <4>6
    <3>. QED  BY <3>1, <3>2
  <2>4. /\ \A row \in LogRows' : RowShape(row)'
        /\ \A x, y \in LogRows' : SameBatch(x, y)'
    BY <2>1, <2>2 DEF RowShape, SameBatch
  <2>5. ASSUME NEW i \in 1..(n + 1) PROVE OneKind(reviews'[i].rows)
    <3>1. CASE i = n + 1
      BY <1>3, <3>1, Appended, CommitFits DEF Fits
    <3>2. CASE i # n + 1
      <4>1. i \in 1..n
        BY <2>0, <3>2
      <4>2. reviews'[i] = reviews[i]
        BY <1>3, <4>1, Appended, Zenon
      <4>. QED  BY <4>1, <4>2 DEF LogInv
    <3>. QED  BY <3>1, <3>2
  <2>6. \A i \in 1..(n + 1) : OneKind(reviews[i].rows)'
    BY <2>5 DEF OneKind
  <2>. QED  BY <2>0, <2>3, <2>4, <2>6 DEF LogInv
<1>4. CASE UNCHANGED reviews
  BY <1>1, <1>4
<1>. QED
  BY <1>2, <1>3, <1>4
     DEF Next, vars, ReadTables, Begin, Lock, Stop, LoadCandidates, InjectLedger

THEOREM PlansHold == Spec => [](TypeOK /\ CountInv /\ OrderInv /\ LogInv /\ PlanInv)
<1>. DEFINE IInv == TypeOK /\ CountInv /\ OrderInv /\ LogInv /\ PlanInv
<1>1. Init => IInv
  BY InitType, InitCount, InitLog
<1>2. IInv /\ [Next]_vars => IInv'
  BY NextType, NextCount, NextOrder, NextPlan, NextLog
<1>. QED  BY <1>1, <1>2, PTL DEF Spec

-----------------------------------------------------------------------------
(* The properties of the runs.                                             *)

LEMMA LogImpliesOneBatch == TypeOK /\ LogInv => OneBatchPerRunName
<1>1. ASSUME TypeOK
      PROVE  \A row : row \in LogRows <=>
               \E i \in DOMAIN reviews : row \in reviews[i].rows
  BY <1>1, BatchType DEF LogRows
<1>. QED  BY <1>1 DEF LogInv, OneBatchPerRunName, SameBatch

\* A run name stands for one manifest and one part of the wallets, although
\* operators reuse and rebuild run directories and plan at the same time.
THEOREM RunNamesAreBatches == Spec => []OneBatchPerRunName
  BY PlansHold, LogImpliesOneBatch, PTL

\* The history properties, at the transaction that commits.
LEMMA CommitSendsOnce ==
  ASSUME TypeOK, CountInv, OrderInv, LogInv, PlanInv, NeverSentTwice,
         NEW o \in Operators, Commit(o)
  PROVE  NeverSentTwice'
<1>. DEFINE n == Len(reviews)
            rows == op[o].rows
<1>0. n \in Nat /\ DOMAIN reviews = 1..n /\ DOMAIN reviews' = 1..(n + 1)
  BY Appended, Zenon
<1>1. \A slot, status : \A i \in 1..n : Marks(i, slot, status)' = Marks(i, slot, status)
  BY CommitFits DEF Marks
<1>2. ASSUME NEW slot \in Slot, NEW i \in 1..n, Marks(i, slot, "included") # {},
             NEW j, j = n + 1, Marks(j, slot, "included")' # {}
      PROVE  \E k \in i..n : Marks(k, slot, "queued") # {}
  <2>1. Sent(slot) = {}
    <3>1. PICK row \in Concerns(reviews'[j], slot) : row.status = "included"
      BY <1>2 DEF Marks, Concerns
    <3>2. row \in rows /\ row.about = slot
      BY <1>2, CommitFits
    <3>. QED  BY <3>1, <3>2, CommitFits DEF Fits
  <2>2. Concerns(reviews[i], slot) # {}
    BY <1>2 DEF Marks
  <2>3. PICK m \in i..n : Latest(slot) = Concerns(reviews[m], slot) /\ Latest(slot) # {}
    BY <2>2, LastOf
  <2>4. PICK row \in Latest(slot) : TRUE
    BY <2>3
  <2>5. row \in LogRows /\ row.about = slot /\ row.status # "included"
    BY <2>1, LatestInLog
  <2>6. row.status = "queued"
    <3>1. row.conf \in Confirmations /\ row.about \notin Confirmations
      BY <2>5, LatestType, ConstantsAssumption DEF Row
    <3>. QED  BY <2>5, <3>1 DEF LogInv, RowShape
  <2>. QED  BY <2>3, <2>6 DEF Marks
<1>3. ASSUME NEW slot \in Slot, NEW i \in 1..(n + 1), NEW j \in 1..(n + 1), i < j,
             Marks(i, slot, "included")' # {}, Marks(j, slot, "included")' # {}
      PROVE  \E k \in i..j : Marks(k, slot, "queued")' # {}
  <2>1. i \in 1..n /\ Marks(i, slot, "included") # {}
    BY <1>0, <1>1, <1>3
  <2>2. PICK k \in i..j : k \in 1..n /\ Marks(k, slot, "queued") # {}
    <3>1. CASE j = n + 1
      <4>1. PICK k \in i..n : Marks(k, slot, "queued") # {}
        BY <1>2, <1>3, <2>1, <3>1
      <4>2. k \in i..j /\ k \in 1..n
        BY <1>0, <2>1, <3>1
      <4>. QED  BY <4>1, <4>2
    <3>2. CASE j # n + 1
      <4>1. j \in 1..n /\ Marks(j, slot, "included") # {}
        BY <1>0, <1>1, <1>3, <3>2
      <4>2. \E k \in i..j : Marks(k, slot, "queued") # {}
        BY <1>0, <1>3, <2>1, <4>1 DEF NeverSentTwice
      <4>. QED  BY <1>0, <2>1, <4>1, <4>2
    <3>. QED  BY <3>1, <3>2
  <2>. QED  BY <1>1, <2>2
<1>. QED  BY <1>0, <1>3 DEF NeverSentTwice

LEMMA CommitSendsApproved ==
  ASSUME TypeOK, CountInv, OrderInv, LogInv, PlanInv, SentOnlyApproved,
         NEW o \in Operators, Commit(o)
  PROVE  SentOnlyApproved'
<1>. DEFINE n == Len(reviews)
            rows == op[o].rows
            ApprovedAt(i, conf) ==
              /\ \E d \in Concerns(reviews[i], conf) : d.status = "queued"
              /\ \A k \in (i + 1)..n : Concerns(reviews[k], conf) = {}
<1>0. n \in Nat /\ DOMAIN reviews = 1..n /\ DOMAIN reviews' = 1..(n + 1)
  BY Appended, Zenon
<1>1. /\ \A x : \A i \in 1..n : Concerns(reviews'[i], x) = Concerns(reviews[i], x)
      /\ \A i \in 1..n : reviews'[i] = reviews[i]
      /\ reviews'[n + 1].rows = rows
  BY CommitFits, Appended, Zenon
<1>2. ASSUME NEW row \in rows, row.status = "included"
      PROVE  \E m \in 1..n : ApprovedAt(m, row.conf)
  <2>1. Decision(row.conf) = "approved" /\ row.conf \in Confirmations
    BY <1>2, CommitFits DEF Fits, Row
  <2>2. Latest(row.conf) # {} /\ \A d \in Latest(row.conf) : d.status # "rejected"
    BY <2>1 DEF Decision
  <2>3. PICK i \in 1..n : Concerns(reviews[i], row.conf) # {}
    BY <2>2, LatestInLog
  <2>4. PICK m \in i..n :
          /\ Latest(row.conf) = Concerns(reviews[m], row.conf)
          /\ \A k \in (m + 1)..n : Concerns(reviews[k], row.conf) = {}
    BY <2>1, <2>3, LastOf
  <2>5. PICK d \in Latest(row.conf) : TRUE
    BY <2>2
  <2>6. d \in LogRows /\ d.about = row.conf
    BY <2>5, LatestInLog
  <2>7. d.status = "queued"
    <3>1. d.about \notin Slot
      BY <2>1, <2>6, ConstantsAssumption
    <3>. QED  BY <2>2, <2>5, <2>6, <3>1 DEF LogInv, RowShape
  <2>8. m \in 1..n
    BY <1>0, <2>3
  <2>. QED  BY <2>4, <2>5, <2>7, <2>8
<1>3. ASSUME NEW j \in 1..(n + 1), NEW row \in reviews'[j].rows,
             row.status = "included"
      PROVE  \E i \in 1..(j - 1) :
               /\ \E d \in Concerns(reviews'[i], row.conf) : d.status = "queued"
               /\ \A k \in (i + 1)..(j - 1) : Concerns(reviews'[k], row.conf) = {}
  <2>1. PICK i \in 1..(j - 1) :
          /\ \E d \in Concerns(reviews[i], row.conf) : d.status = "queued"
          /\ \A k \in (i + 1)..(j - 1) : Concerns(reviews[k], row.conf) = {}
    <3>1. CASE j = n + 1
      <4>1. j - 1 = n /\ row \in rows
        BY <1>0, <1>1, <3>1
      <4>. QED  BY <1>2, <1>3, <4>1
    <3>2. CASE j # n + 1
      <4>1. j \in 1..n /\ row \in reviews[j].rows
        BY <1>0, <1>1, <3>2
      <4>. QED  BY <1>0, <1>3, <4>1 DEF SentOnlyApproved
    <3>. QED  BY <3>1, <3>2
  <2>2. i \in 1..n /\ \A k \in (i + 1)..(j - 1) : k \in 1..n
    BY <1>0
  <2>. QED  BY <1>1, <2>1, <2>2
<1>. QED  BY <1>0, <1>3 DEF SentOnlyApproved

LEMMA CommitUndoesSender ==
  ASSUME TypeOK, CountInv, OrderInv, LogInv, PlanInv, UndoneBySender,
         NEW o \in Operators, Commit(o)
  PROVE  UndoneBySender'
<1>. DEFINE n == Len(reviews)
            rows == op[o].rows
<1>0. n \in Nat /\ DOMAIN reviews = 1..n /\ DOMAIN reviews' = 1..(n + 1)
  BY Appended, Zenon
<1>1. /\ \A x : \A i \in 1..n : Concerns(reviews'[i], x) = Concerns(reviews[i], x)
      /\ \A i \in 1..n : reviews'[i] = reviews[i]
      /\ reviews'[n + 1].rows = rows
  BY CommitFits, Appended, Zenon
<1>2. \A x : \A i \in 1..n : Marks(i, x, "included")' = Marks(i, x, "included")
  BY <1>1 DEF Marks
<1>3. ASSUME NEW undo \in rows, undo.run # None, undo.status = "queued"
      PROVE  \E i \in 1..n :
               /\ \E sent \in Marks(i, undo.about, "included") : sent.run = undo.run
               /\ \A k \in (i + 1)..n : Concerns(reviews[k], undo.about) = {}
  <2>1. PICK sent \in Sent(undo.about) : sent.run = undo.run
    BY <1>3, CommitFits DEF Fits
  <2>2. undo.about \in Confirmations \cup Slot
    BY <1>3, CommitFits DEF Row
  <2>3. sent \in Latest(undo.about) /\ sent.status = "included"
    BY LatestInLog
  <2>4. PICK i \in 1..n : Concerns(reviews[i], undo.about) # {}
    BY <2>3, LatestInLog
  <2>5. PICK m \in i..n :
          /\ Latest(undo.about) = Concerns(reviews[m], undo.about)
          /\ \A k \in (m + 1)..n : Concerns(reviews[k], undo.about) = {}
    BY <2>2, <2>4, LastOf
  <2>6. m \in 1..n
    BY <1>0, <2>4
  <2>. QED  BY <2>1, <2>3, <2>5, <2>6 DEF Marks
<1>4. ASSUME NEW j \in 1..(n + 1), NEW undo \in reviews'[j].rows,
             undo.run # None, undo.status = "queued"
      PROVE  \E i \in 1..(j - 1) :
               /\ \E sent \in Marks(i, undo.about, "included")' : sent.run = undo.run
               /\ \A k \in (i + 1)..(j - 1) : Concerns(reviews'[k], undo.about) = {}
  <2>1. PICK i \in 1..(j - 1) :
          /\ \E sent \in Marks(i, undo.about, "included") : sent.run = undo.run
          /\ \A k \in (i + 1)..(j - 1) : Concerns(reviews[k], undo.about) = {}
    <3>1. CASE j = n + 1
      <4>1. j - 1 = n /\ undo \in rows
        BY <1>0, <1>1, <3>1
      <4>. QED  BY <1>3, <1>4, <4>1
    <3>2. CASE j # n + 1
      <4>1. j \in 1..n /\ undo \in reviews[j].rows
        BY <1>0, <1>1, <3>2
      <4>. QED  BY <1>0, <1>4, <4>1 DEF UndoneBySender
    <3>. QED  BY <3>1, <3>2
  <2>2. i \in 1..n /\ \A k \in (i + 1)..(j - 1) : k \in 1..n
    BY <1>0
  <2>. QED  BY <1>1, <1>2, <2>1, <2>2
<1>. QED  BY <1>0, <1>4 DEF UndoneBySender

\* The history's three properties.
HistoryInv == NeverSentTwice /\ SentOnlyApproved /\ UndoneBySender

LEMMA NextHistory ==
  /\ TypeOK /\ CountInv /\ OrderInv /\ LogInv /\ PlanInv
  /\ HistoryInv
  /\ [Next]_vars
  => HistoryInv'
<1>. SUFFICES ASSUME TypeOK, CountInv, OrderInv, LogInv, PlanInv, HistoryInv,
                     [Next]_vars
              PROVE  HistoryInv'
  OBVIOUS
<1>1. ASSUME reviews' = reviews
      PROVE  HistoryInv'
  BY <1>1 DEF HistoryInv, NeverSentTwice, SentOnlyApproved, UndoneBySender,
              Marks, Concerns
<1>2. ASSUME NEW o \in Operators, Commit(o)
      PROVE  HistoryInv'
  BY <1>2, CommitSendsOnce, CommitSendsApproved, CommitUndoesSender DEF HistoryInv
<1>3. ASSUME NEW o \in Operators, Plan(o)
      PROVE  HistoryInv'
  BY <1>1, <1>3, PlanIsPlanned DEF Planned
<1>. QED
  BY <1>1, <1>2, <1>3
     DEF Next, vars, ReadTables, Begin, Lock, Stop, LoadCandidates, InjectLedger

THEOREM HistoryHolds == Spec => []HistoryInv
<1>1. Init => HistoryInv
  <2>1. Init => reviews = <<>> /\ DOMAIN reviews = {}
    BY DEF Init
  <2>. QED
    BY <2>1 DEF HistoryInv, NeverSentTwice, SentOnlyApproved, UndoneBySender
<1>. QED  BY <1>1, PlansHold, NextHistory, PTL DEF Spec

\* No part of a wallet is marked sent twice without an undo in between, for
\* any number of operators, runs, wallets and candidate sets.
THEOREM PartsAreSentOnce == Spec => []NeverSentTwice
  BY HistoryHolds, PTL DEF HistoryInv

\* A mark rests on a confirmation that stands approved when it is committed.
THEOREM MarksAreApproved == Spec => []SentOnlyApproved
  BY HistoryHolds, PTL DEF HistoryInv

\* An undo takes back the mark that stands, and names its run.
THEOREM UndosNameTheirRun == Spec => []UndoneBySender
  BY HistoryHolds, PTL DEF HistoryInv

-----------------------------------------------------------------------------
(* The rows are the book.                                                  *)

\* A committed transaction decides what its subjects read back as, and
\* nothing else.
LEMMA LatestAfterCommit ==
  ASSUME TypeOK, CountInv, OrderInv, LogInv, PlanInv, TypeOK', OrderInv', LogInv',
         NEW o \in Operators, Commit(o), NEW x \in Confirmations \cup Slot
  PROVE  LET own == {row \in op[o].rows : row.about = x} IN
         Latest(x)' = IF own # {} THEN own ELSE Latest(x)
<1>. DEFINE n == Len(reviews)
            own == {row \in op[o].rows : row.about = x}
<1>0. n \in Nat /\ Len(reviews') = n + 1
  BY Appended, Zenon
<1>1. /\ Concerns(reviews'[n + 1], x) = own
      /\ \A i \in 1..n : Concerns(reviews'[i], x) = Concerns(reviews[i], x)
  BY CommitFits
<1>. HIDE DEF own
<1>2. ASSUME NEW m \in 1..(n + 1), Concerns(reviews'[m], x) # {},
             \A j \in (m + 1)..(n + 1) : Concerns(reviews'[j], x) = {}
      PROVE  Latest(x)' = Concerns(reviews'[m], x)
  <2>. DEFINE Winners ==
         {i \in DOMAIN reviews' :
            \A j \in DOMAIN reviews' :
              ReadAfter(j, i)' => Concerns(reviews'[j], x) = {}}
  <2>1. DOMAIN reviews' = 1..(n + 1)
    BY Appended, Zenon
  <2>2. \A i, j \in 1..(n + 1) : ReadAfter(i, j)' <=> i > j
    <3>1. \A i \in 1..(n + 1) : reviews'[i].at \in Nat
      <4>1. reviews' \in Seq(Batch)
        BY DEF TypeOK
      <4>2. \A i \in DOMAIN reviews' : reviews'[i] \in Batch
        BY <4>1
      <4>. QED  BY <2>1, <4>2 DEF Batch
    <3>2. \A i, j \in 1..(n + 1) : i < j => reviews'[i].at < reviews'[j].at
      BY <1>0 DEF OrderInv
    <3>. QED  BY <1>0, <3>1, <3>2 DEF ReadAfter
  <2>3. m \in Winners
    <3>1. \A j \in 1..(n + 1) : j > m => Concerns(reviews'[j], x) = {}
      BY <1>0, <1>2
    <3>. QED  BY <2>1, <2>2, <3>1
  <2>4. ASSUME NEW i \in Winners, i # m
        PROVE  Concerns(reviews'[i], x) = {}
    <3>1. i \in 1..(n + 1) /\ ~(m > i)
      BY <1>2, <2>1, <2>2
    <3>2. i \in (m + 1)..(n + 1)
      BY <1>0, <2>4, <3>1
    <3>. QED  BY <1>2, <3>2
  <2>5. Latest(x)' = UNION {Concerns(reviews'[i], x) : i \in Winners}
    BY DEF Latest
  <2>. QED  BY <2>3, <2>4, <2>5
<1>3. CASE own # {}
  <2>1. n + 1 \in 1..(n + 1) /\ \A j \in ((n + 1) + 1)..(n + 1) : FALSE
    BY <1>0
  <2>. QED  BY <1>1, <1>2, <1>3, <2>1 DEF own
<1>4. CASE own = {} /\ \E i \in 1..n : Concerns(reviews[i], x) # {}
  <2>1. PICK i \in 1..n : Concerns(reviews[i], x) # {}
    BY <1>4
  <2>2. PICK m \in i..n : /\ Latest(x) = Concerns(reviews[m], x)
                          /\ Latest(x) # {}
                          /\ \A j \in (m + 1)..n : Concerns(reviews[j], x) = {}
    BY <2>1, LastOf
  <2>3. m \in 1..n /\ m \in 1..(n + 1)
    BY <1>0, <2>1
  <2>4. \A j \in (m + 1)..(n + 1) : Concerns(reviews'[j], x) = {}
    <3>1. ASSUME NEW j \in (m + 1)..(n + 1) PROVE j = n + 1 \/ (j \in (m + 1)..n /\ j \in 1..n)
      BY <1>0, <2>3
    <3>. QED  BY <1>1, <1>4, <2>2, <3>1
  <2>. QED  BY <1>1, <1>2, <1>4, <2>2, <2>3, <2>4 DEF own
<1>5. CASE own = {} /\ \A i \in 1..n : Concerns(reviews[i], x) = {}
  <2>1. Latest(x) = {}
    BY <1>5, LatestInLog
  <2>2. \A i \in 1..(n + 1) : Concerns(reviews'[i], x) = {}
    BY <1>0, <1>1, <1>5
  <2>3. DOMAIN reviews' = 1..(n + 1)
    BY Appended
  <2>4. Latest(x)' = {}
    BY <2>2, <2>3 DEF Latest
  <2>. QED  BY <1>5, <2>1, <2>4 DEF own
<1>. QED  BY <1>3, <1>4, <1>5 DEF own

\* The book's variables, as the refinement maps them.
SentByOf(s) == IF Sent(s) = {} THEN None ELSE (CHOOSE row \in Sent(s) : TRUE).run

LEMMA BookDecisions ==
  ASSUME TypeOK, CountInv, OrderInv, LogInv, PlanInv, TypeOK', OrderInv', LogInv',
         NEW o \in Operators, Commit(o)
  PROVE  \A c \in Confirmations :
           LET own == {row \in op[o].rows : row.about = c} IN
           Decision(c)' = IF own = {} THEN Decision(c)
                          ELSE IF \E row \in own : row.status = "rejected" THEN "rejected"
                          ELSE "approved"
<1>. SUFFICES ASSUME NEW c \in Confirmations
              PROVE  LET own == {row \in op[o].rows : row.about = c} IN
                     Decision(c)' = IF own = {} THEN Decision(c)
                                    ELSE IF \E row \in own : row.status = "rejected"
                                         THEN "rejected"
                                    ELSE "approved"
  OBVIOUS
<1>. DEFINE own == {row \in op[o].rows : row.about = c}
<1>1. Latest(c)' = IF own # {} THEN own ELSE Latest(c)
  BY LatestAfterCommit
<1>. HIDE DEF own
<1>2. Decision(c)' = IF own = {} THEN Decision(c)
                     ELSE IF \E row \in own : row.status = "rejected" THEN "rejected"
                     ELSE "approved"
  BY <1>1 DEF Decision
<1>. QED  BY <1>2 DEF own

LEMMA BookSentBy ==
  ASSUME TypeOK, CountInv, OrderInv, LogInv, PlanInv, TypeOK', OrderInv', LogInv',
         NEW o \in Operators, Commit(o), NEW s \in Slot
  PROVE  LET own == {row \in op[o].rows : row.about = s} IN
         /\ own = {} => SentByOf(s)' = SentByOf(s)
         /\ \A run : own # {} /\ (\A row \in own : row.status = "included" /\ row.run = run)
              => SentByOf(s)' = run
         /\ own # {} /\ (\A row \in own : row.status # "included") => SentByOf(s)' = None
<1>. DEFINE own == {row \in op[o].rows : row.about = s}
<1>1. Latest(s)' = IF own # {} THEN own ELSE Latest(s)
  BY LatestAfterCommit
<1>. HIDE DEF own
<1>2. own = {} => SentByOf(s)' = SentByOf(s)
  BY <1>1 DEF SentByOf, Sent
<1>3. own # {} => Sent(s)' = {row \in own : row.status = "included"}
  BY <1>1 DEF Sent
<1>4. ASSUME NEW run, own # {}, \A row \in own : row.status = "included" /\ row.run = run
      PROVE  SentByOf(s)' = run
  <2>1. Sent(s)' # {} /\ \A row \in Sent(s)' : row.run = run
    BY <1>3, <1>4
  <2>2. (CHOOSE row \in Sent(s)' : TRUE) \in Sent(s)'
    BY <2>1
  <2>. QED  BY <2>1, <2>2 DEF SentByOf
<1>5. ASSUME own # {}, \A row \in own : row.status # "included"
      PROVE  SentByOf(s)' = None
  BY <1>3, <1>5 DEF SentByOf
<1>. QED  BY <1>2, <1>4, <1>5 DEF own

\* A part that was sent has one run.
LEMMA SentByRun ==
  ASSUME TypeOK, OrderInv, LogInv, NEW s \in Slot, NEW sent \in Sent(s)
  PROVE  SentByOf(s) = sent.run
<1>1. PICK i \in 1..Len(reviews) : Concerns(reviews[i], s) # {}
  BY LatestInLog
<1>2. PICK m \in i..Len(reviews) : Latest(s) = Concerns(reviews[m], s)
  BY <1>1, LastOf
<1>3. m \in 1..Len(reviews)
  BY <1>1, BatchType
<1>4. \A x, y \in Sent(s) : x.run = y.run
  BY <1>2, <1>3 DEF Sent, Concerns, LogInv, OneKind
<1>5. (CHOOSE row \in Sent(s) : TRUE) \in Sent(s)
  OBVIOUS
<1>. QED  BY <1>4, <1>5 DEF SentByOf

\* A committed transaction is one entry of the book.
LEMMA CommitIsEntry ==
  ASSUME TypeOK, CountInv, OrderInv, LogInv, PlanInv, TypeOK', OrderInv', LogInv',
         NEW o \in Operators, Commit(o)
  PROVE  [Book!Next]_(Book!vars)
<1>. DEFINE rows == op[o].rows
            decision == [c \in Confirmations |-> Decision(c)]
            sentBy == [s \in Slot |-> SentByOf(s)]
            SlotsOf == [c \in Confirmations |-> {s \in Slot : s.wallet = WalletOf[c]}]
<1>0. /\ Fits(rows) /\ rows \subseteq Row
      /\ Confirmations \cap Slot = {}
  BY CommitFits, ConstantsAssumption
<1>1. ASSUME NEW status \in {"queued", "rejected"},
             \A row \in rows : row.run = None /\ row.status = status
      PROVE  Book!Next
  <2>. DEFINE confs == {row.conf : row \in rows}
              verdict == IF status = "queued" THEN "approved" ELSE "rejected"
  <2>1. \A row \in rows : row.about = row.conf /\ row.conf \in Confirmations
    BY <1>0, <1>1, ConstantsAssumption DEF Fits, RowShape, Row
  <2>2. \A c \in confs : c \in Confirmations /\ decision[c] # verdict
    BY <1>0, <1>1, <2>1 DEF Fits
  <2>3. \A c \in Confirmations : Decision(c)' = IF c \in confs THEN verdict ELSE decision[c]
    BY <1>1, <2>1, BookDecisions
  <2>4. \A s \in Slot : SentByOf(s)' = SentByOf(s)
    BY <1>0, <2>1, BookSentBy
  <2>5. /\ confs \in SUBSET Confirmations /\ verdict \in {"approved", "rejected"}
    BY <2>2
  <2>6. [c \in Confirmations |-> Decision(c)'] =
          [c \in Confirmations |-> IF c \in confs THEN verdict ELSE decision[c]]
    BY <2>3, Zenon
  <2>7. [s \in Slot |-> SentByOf(s)'] = sentBy
    BY <2>4, Zenon
  <2>. QED  BY <2>2, <2>5, <2>6, <2>7 DEF Book!Next, Book!Decide, SentByOf
<1>2. ASSUME NEW run \in RunName,
             \A row \in rows : row.run = run /\ row.status \in {"included", "queued"}
      PROVE  Book!Next
  <2>. DEFINE slots == {row.about : row \in rows}
  <2>1. \A row \in rows : row.about \in Slot
    BY <1>0, <1>2, ConstantsAssumption DEF Fits, RowShape
  <2>2. [c \in Confirmations |-> Decision(c)'] = decision
    <3>1. \A c \in Confirmations : Decision(c)' = Decision(c)
      BY <1>0, <2>1, BookDecisions
    <3>. QED  BY <3>1, Zenon
  <2>3. slots \in SUBSET Slot
    BY <2>1
  <2>4. CASE \A row \in rows : row.status = "included"
    <3>1. \A s \in Slot : SentByOf(s)' = IF s \in slots THEN run ELSE sentBy[s]
      BY <1>2, <2>4, BookSentBy
    <3>2. [s \in Slot |-> SentByOf(s)'] =
            [s \in Slot |-> IF s \in slots THEN run ELSE sentBy[s]]
      BY <3>1, Zenon
    <3>3. ASSUME NEW s \in slots
          PROVE  /\ sentBy[s] = None
                 /\ \E c \in Confirmations : s \in SlotsOf[c] /\ decision[c] = "approved"
      <4>1. PICK row \in rows : row.about = s
        OBVIOUS
      <4>2. /\ Sent(s) = {} /\ Decision(row.conf) = "approved"
            /\ WalletOf[row.conf] = s.wallet
            /\ row.conf \in Confirmations
        BY <1>0, <2>4, <4>1 DEF Fits, Row
      <4>. QED  BY <2>3, <4>2 DEF SentByOf
    <3>. QED  BY <2>2, <2>3, <3>2, <3>3 DEF Book!Next, Book!Send, SentByOf
  <2>5. CASE \A row \in rows : row.status = "queued"
    <3>1. \A s \in Slot : SentByOf(s)' = IF s \in slots THEN None ELSE sentBy[s]
      BY <2>5, BookSentBy
    <3>2. [s \in Slot |-> SentByOf(s)'] =
            [s \in Slot |-> IF s \in slots THEN None ELSE sentBy[s]]
      BY <3>1, Zenon
    <3>3. \A s \in slots : sentBy[s] = run
      <4>1. SUFFICES ASSUME NEW row \in rows PROVE sentBy[row.about] = run
        OBVIOUS
      <4>2. run # None /\ row.about \in Slot
        BY <2>1, ConstantsAssumption
      <4>3. PICK sent \in Sent(row.about) : sent.run = run
        BY <1>0, <1>2, <2>5, <4>2 DEF Fits
      <4>. QED  BY <4>2, <4>3, SentByRun
    <3>. QED  BY <2>2, <2>3, <3>2, <3>3 DEF Book!Next, Book!TakeBack, SentByOf
  <2>. QED  BY <1>0, <1>2, <2>4, <2>5 DEF Fits, OneKind
<1>3. CASE rows = {}
  <2>1. /\ \A c \in Confirmations : Decision(c)' = Decision(c)
        /\ \A s \in Slot : SentByOf(s)' = SentByOf(s)
    BY <1>3, BookDecisions, BookSentBy
  <2>2. /\ [c \in Confirmations |-> Decision(c)'] = decision
        /\ [s \in Slot |-> SentByOf(s)'] = sentBy
    BY <2>1, Zenon
  <2>. QED  BY <2>2 DEF Book!vars, SentByOf
<1>4. CASE rows # {}
  <2>1. PICK row \in rows : TRUE
    BY <1>4
  <2>2. RowShape(row) /\ \A other \in rows : other.status = row.status /\ other.run = row.run
    BY <1>0 DEF Fits, OneKind
  <2>. QED  BY <1>1, <1>2, <2>2 DEF RowShape
<1>. QED  BY <1>3, <1>4

\* confirm.reviews, appended to by many operators from plans made earlier and
\* read back by the time a transaction began, is a serial book of decisions
\* and deliveries: every transaction is one legal entry, whatever else ran
\* since its plan was made.
THEOREM RowsImplementBook == Spec => ImplementsBook
<1>. DEFINE IInv == TypeOK /\ CountInv /\ OrderInv /\ LogInv /\ PlanInv
<1>1. Init => Book!Init
  <2>. SUFFICES ASSUME Init PROVE Book!Init
    OBVIOUS
  <2>1. reviews = <<>> /\ DOMAIN reviews = {}
    BY DEF Init
  <2>2. \A x : Latest(x) = {} /\ Sent(x) = {} /\ Decision(x) = "none"
    BY <2>1 DEF Latest, Sent, Decision
  <2>. QED  BY <2>2 DEF Book!Init
<1>2. ASSUME IInv, IInv', [Next]_vars PROVE [Book!Next]_(Book!vars)
  <2>1. ASSUME reviews' = reviews PROVE UNCHANGED Book!vars
    <3>1. ASSUME NEW x
          PROVE  Sent(x)' = Sent(x) /\ Decision(x)' = Decision(x)
      BY <2>1 DEF Latest, Sent, Decision, Concerns, ReadAfter
    <3>2. /\ [c \in Confirmations |-> Decision(c)'] = [c \in Confirmations |-> Decision(c)]
          /\ [s \in Slot |-> SentByOf(s)'] = [s \in Slot |-> SentByOf(s)]
      <4>1. \A c \in Confirmations : Decision(c)' = Decision(c)
        BY <3>1
      <4>2. ASSUME NEW s \in Slot PROVE SentByOf(s)' = SentByOf(s)
        <5>1. Sent(s)' = Sent(s)
          BY <3>1
        <5>. QED  BY <5>1 DEF SentByOf
      <4>. QED  BY <4>1, <4>2, Zenon
    <3>. QED  BY <3>2 DEF Book!vars, SentByOf
  <2>2. ASSUME NEW o \in Operators, Commit(o) PROVE [Book!Next]_(Book!vars)
    BY <1>2, <2>2, CommitIsEntry
  <2>3. ASSUME NEW o \in Operators, Plan(o) PROVE reviews' = reviews
    BY <1>2, <2>3, PlanIsPlanned DEF Planned
  <2>. QED
    BY <1>2, <2>1, <2>2, <2>3
       DEF Next, vars, ReadTables, Begin, Lock, Stop, LoadCandidates, InjectLedger
<1>. QED  BY <1>1, <1>2, PlansHold, PTL DEF Spec, ImplementsBook, Book!Spec
=============================================================================
