------------------------------ MODULE LedgerLoad ------------------------------
(***************************************************************************)
(* injector/inject_claims.py, load_into_db: a load fills every data table  *)
(* in schema claims_staging and swaps all of them into public in one       *)
(* transaction.  Nothing keeps a second load out of the staging schema.    *)
(*                                                                         *)
(* A load is a process with three transactions; each action below is what  *)
(* happens up to the next COMMIT, or up to the first lock of the next one. *)
(* inject_archive.py has the same three transactions in a schema of its    *)
(* own.                                                                    *)
(***************************************************************************)
EXTENDS Integers, FiniteSets

CONSTANTS
  Tables,    \* DATA_TABLES
  Sets,      \* datasets, each with the data_version it is loaded as
  Loads,     \* loads that may run at the same time
  MaxSwaps,  \* bound: swaps that commit
  None

ASSUME LoadAssumption == MaxSwaps \in Nat /\ None \notin Sets

VARIABLES
  public,    \* per data table of public, the dataset its rows are from, or None
  staging,   \* the same for claims_staging, or None without the schema
  loadRun,   \* data_version of the last load_runs row, or None
  load,      \* per load: where it is, its dataset, and who interfered
  swaps      \* swaps so far (bound)

loadVars == <<public, staging, loadRun, load, swaps>>

Whole(s) == [t \in Tables |-> s]

\* overlapped notes, for the properties, that another load ran into this one.
LoadState ==
  [pc: {"idle", "created", "copying", "copied"}, set: Sets \cup {None},
   overlapped: BOOLEAN]

NoLoad == [pc |-> "idle", set |-> None, overlapped |-> FALSE]

LoadTypeOK ==
  /\ public \in [Tables -> Sets \cup {None}]
  /\ staging \in {None} \cup [Tables -> Sets \cup {None}]
  /\ loadRun \in Sets \cup {None}
  /\ load \in [Loads -> LoadState]
  /\ swaps \in 0..MaxSwaps

LoadInit ==
  /\ public = Whole(None)
  /\ staging = None
  /\ loadRun = None
  /\ load = [l \in Loads |-> NoLoad]
  /\ swaps = 0

-----------------------------------------------------------------------------
\* No other load has a transaction open on the staging tables.
StagingFree(l) == \A k \in Loads \ {l} : load[k].pc # "copying"

\* The first transaction: DROP SCHEMA IF EXISTS, which takes away what a load
\* that died, or one that still runs, has staged; CREATE; empty tables.
CreateStaging(l, s) ==
  /\ load[l].pc = "idle"
  /\ StagingFree(l)
  /\ staging' = Whole(None)
  /\ load' = [k \in Loads |->
               IF k = l
               THEN [pc |-> "created", set |-> s,
                     overlapped |-> \E j \in Loads \ {l} : load[j].pc # "idle"]
               ELSE [load[k] EXCEPT !.overlapped = @ \/ load[k].pc # "idle"]]
  /\ UNCHANGED <<public, loadRun, swaps>>

\* The second transaction locks what it copies into.  Without the schema it
\* ends in an error (FailLoad).
StartCopy(l) ==
  /\ load[l].pc = "created"
  /\ staging # None
  /\ load' = [load EXCEPT ![l].pc = "copying"]
  /\ UNCHANGED <<public, staging, loadRun, swaps>>

\* Mutant of CommitCopy: tables are committed one by one, and an error in one
\* of them does not stop the load.
Mutant_CommitSomeTables(l) ==
  /\ load[l].pc = "copying"
  /\ \E some \in SUBSET Tables :
       staging' = [t \in Tables |-> IF t \in some THEN load[l].set ELSE staging[t]]
  /\ load' = [load EXCEPT ![l].pc = "copied"]
  /\ UNCHANGED <<public, loadRun, swaps>>

\* All tables become visible at once.  Two loads cannot both commit rows into
\* the same tables: snapshot_meta has one row per key, and both insert theirs.
CommitCopy(l) ==
  /\ load[l].pc = "copying"
  /\ staging = Whole(None)
  /\ staging' = Whole(load[l].set)
  /\ load' = [load EXCEPT ![l].pc = "copied"]
  /\ UNCHANGED <<public, loadRun, swaps>>

\* Mutant of Swap: every DROP and SET SCHEMA commits by itself.
Mutant_SwapTable(l) ==
  /\ load[l].pc = "copied"
  /\ staging # None
  /\ StagingFree(l)
  /\ swaps < MaxSwaps
  /\ \E t \in Tables : public' = [public EXCEPT ![t] = staging[t]]
  /\ swaps' = swaps + 1
  /\ UNCHANGED <<staging, loadRun, load>>

\* The third transaction: whatever is staged now replaces every table, and the
\* row in load_runs names this load's own dataset.
Swap(l) ==
  /\ load[l].pc = "copied"
  /\ staging # None
  /\ StagingFree(l)
  /\ swaps < MaxSwaps
  /\ public' = staging
  /\ staging' = None
  /\ loadRun' = load[l].set
  /\ load' = [load EXCEPT ![l] = NoLoad]
  /\ swaps' = swaps + 1

\* An error, a lost connection, a deadlock Postgres resolves against this load,
\* or a schema that is gone: the open transaction is rolled back, and what was
\* committed before stays.
FailLoad(l) ==
  /\ load[l].pc # "idle"
  /\ load' = [load EXCEPT ![l] = NoLoad]
  /\ UNCHANGED <<public, staging, loadRun, swaps>>

LoadNext ==
  \E l \in Loads :
    \/ \E s \in Sets : CreateStaging(l, s)
    \/ StartCopy(l)
    \/ CommitCopy(l)
    \/ Swap(l)
    \/ FailLoad(l)

LoadSpec == LoadInit /\ [][LoadNext]_loadVars

-----------------------------------------------------------------------------
\* Tables of different loads never stand side by side: all data tables that
\* are visible come from one load, or all are empty, although staging outlives
\* loads that died and is shared by those that run.
NeverMixed == \E s \in Sets \cup {None} : public = Whole(s)

\* A load no other load ran into publishes its whole dataset, also over what a
\* load that died left behind, and load_runs names what is visible.
PublishedAsRecorded ==
  [][\A l \in Loads :
       swaps' # swaps /\ load'[l] # load[l] /\ ~load[l].overlapped =>
         public' = Whole(load[l].set) /\ loadRun' = load[l].set]_loadVars

\* Stated by injector/README.md: every data table is filled, verified and then
\* swapped, so the API never observes partial data.
PublishedWhole ==
  [][swaps' # swaps => \E s \in Sets : public' = Whole(s)]_loadVars
=============================================================================
