---------------------------- MODULE BridgeLookup ----------------------------
(***************************************************************************)
(* What the bridge page shows before anything is claimed: the contract list *)
(* it is built with, the address it looks up, and that address's rows in    *)
(* the proof file it downloads (src/frontend/src/bridge/BridgePage.tsx,     *)
(* deployments.ts, proofs.ts, snapshots.ts).                                *)
(*                                                                         *)
(* The file may be of another run or address, or altered in any row. A      *)
(* proof stands for the leaf it leads to, which the root decides.           *)
(***************************************************************************)
EXTENDS Wallet, Listing

CONSTANTS
    List,        \* the claim lists: [label, index, account, token, amount]
    Published,   \* the contract lists the page may be built with
    Files,       \* the proof files that may be served: [format, run, prefix, rows]
    MaxSteps,    \* bound: changes of the address and of the account
    Broken       \* stands for a file that was refused or not loaded

\* What JSON has as an array.
IsArray(s) == s \in Seq({s[i] : i \in DOMAIN s})

ASSUME BridgeLookupAssumption ==
    /\ None \notin Accounts
    /\ \A raw \in Published : IsArray(raw.contracts)
    /\ \A file \in Files : \A a \in Accounts : IsArray(file.rows[a])
    /\ MaxSteps \in Nat

\* A contract list names each chain's contract, its assets, and each asset's
\* pools; `blocks` are the snapshot blocks it has of a chain.
Harmony == "harmony"
Moments == {"cutoff", "rollback"}

VARIABLES
    list,        \* the contract list of this build, or None if it was refused
    url,         \* the address in the page's location, or None
    lookup,      \* the address shown, or None
    autoFilled,  \* the last address filled in for a connected account
    account,     \* the connected account, or None
    loaded,      \* per address, its rows in order, Broken, or None
    steps

lookupVars == <<list, url, lookup, autoFilled, account, loaded, steps>>

AddressTypeOK ==
    /\ list \in Published \cup {None}
    /\ {url, lookup, autoFilled, account} \subseteq Accounts \cup {None}
    /\ \A a \in Accounts :
          loaded[a] \notin {None, Broken} =>
              \A i \in DOMAIN loaded[a] :
                  DOMAIN loaded[a][i] = {"label", "index", "account", "token", "amount"}
    /\ steps \in 0 .. MaxSteps

-----------------------------------------------------------------------------
(* The contract list (deployments.ts).                                      *)

HasBlock(raw, chain, moment) == chain \in DOMAIN raw.blocks /\ moment \in raw.blocks[chain]

PoolsKnown(raw, asset) ==
    /\ asset.decimals \in 0 .. 36
    /\ asset.pools # {}
    /\ \A p \in asset.pools : p.snapshot \in Moments /\ HasBlock(raw, p.holders, p.snapshot)

\* Whether the page accepts a contract list; it does not start with another.
CheckDeployments(raw) ==
    /\ raw.format
    /\ raw.digits \in 1 .. 4
    /\ \A moment \in Moments : HasBlock(raw, Harmony, moment)
    /\ \A i, j \in DOMAIN raw.contracts :
          raw.contracts[i].label = raw.contracts[j].label => i = j
    /\ \A i \in DOMAIN raw.contracts :
          LET c == raw.contracts[i]
          IN  /\ c.supported /\ c.wellFormed /\ c.count > 0
              /\ \A asset \in c.assets : PoolsKnown(raw, asset)
              /\ (\E asset \in c.assets : asset.native) <=> c.wrapped

ContractsOf(d) == {d.contracts[i] : i \in DOMAIN d.contracts}

-----------------------------------------------------------------------------
(* The proof file (proofs.ts, merkle.ts).                                   *)

Fields(row, payee) ==
    [label |-> row.label, index |-> row.index, account |-> payee,
     token |-> row.token, amount |-> row.amount]

\* The proof hashes up to the contract's root from this very row.
VerifyProof(row, payee) == row.proof = Fields(row, payee) /\ row.proof \in List

Mutant_RowUnproved(d, row, payee) ==
    \E c \in ContractsOf(d) :
        /\ c.label = row.label
        /\ row.index \in Nat /\ row.index < c.count
        /\ \E asset \in c.assets : asset.token = row.token
        /\ row.amount > 0

RowAccepted(d, row, payee) ==
    \E c \in ContractsOf(d) :
        /\ c.label = row.label
        /\ row.index \in Nat /\ row.index < c.count
        /\ \E asset \in c.assets : asset.token = row.token
        /\ row.amount > 0
        /\ VerifyProof(row, payee)

Before(d, r, s) ==
    LET place(label) == CHOOSE i \in DOMAIN d.contracts : d.contracts[i].label = label
    IN  IF r.label = s.label THEN r.index < s.index ELSE place(r.label) < place(s.label)

\* The address's rows in the order of the contract list, or Broken.
RowsFromShard(d, file, payee) ==
    LET rows == file.rows[payee]
        read == {Fields(rows[i], payee) : i \in DOMAIN rows}
    IN  IF ~(file.format /\ file.run /\ file.prefix[payee]) THEN Broken
        ELSE IF \E i, j \in DOMAIN rows :
                   \/ ~RowAccepted(d, rows[i], payee)
                   \/ i # j /\ rows[i].label = rows[j].label /\ rows[i].index = rows[j].index
             THEN Broken
             ELSE Listed(read, {p \in read \X read : Before(d, p[1], p[2])})

-----------------------------------------------------------------------------
(* What a card says of its amounts (snapshots.ts).                          *)

AssetOfRow(d, row) ==
    CHOOSE asset \in UNION {c.assets : c \in {c \in ContractsOf(d) : c.label = row.label}} :
        asset.token = row.token

Sources(d, row) == {<<p.holders, p.snapshot>> : p \in AssetOfRow(d, row).pools}

\* Rows whose assets come from the same balances share one basis.
SnapshotBases(d, rows) == {Sources(d, rows[i]) : i \in DOMAIN rows}

\* The one moment of a basis, or None when its sources differ in it.
MomentOf(basis) ==
    LET labels == {source[2] : source \in basis}
    IN  IF Cardinality(labels) = 1 THEN CHOOSE label \in labels : TRUE ELSE None

PoolsOf(d) == UNION {asset.pools : asset \in UNION {c.assets : c \in ContractsOf(d)}}

\* Holder chains other than Harmony the page names for a moment.
RemoteHoldersAt(d, moment) ==
    {chain \in DOMAIN d.blocks \ {Harmony} :
        \E p \in PoolsOf(d) : p.holders = chain /\ p.snapshot = moment}

\* The moments whose balances the table says count on a chain.
CountedOn(d, chain) == {p.snapshot : p \in {p \in PoolsOf(d) : p.holders = chain}}

\* The block cells of the table's row of a chain that are not empty.
BlockCells(d, chain) == {moment \in Moments : HasBlock(d, chain, moment)}

\* The cards of an address, one for each contract with rows, in list order.
RowsByContract(d, rows) ==
    LET places(c) == Ascending({n \in DOMAIN rows : rows[n].label = c.label})
    IN  [i \in DOMAIN d.contracts |->
            [k \in DOMAIN places(d.contracts[i]) |-> rows[places(d.contracts[i])[k]]]]

-----------------------------------------------------------------------------

LookupInit ==
    /\ \E raw \in Published : list = IF CheckDeployments(raw) THEN raw ELSE None
    /\ url \in Accounts \cup {None}
    /\ lookup = url
    /\ autoFilled = None
    /\ account = None
    /\ loaded = [a \in Accounts |-> None]
    /\ steps = 0

Counted == steps < MaxSteps /\ steps' = steps + 1

Show(a) == lookup' = a /\ url' = a

\* Someone enters an address. One that cannot be read changes nothing shown.
Enter(a) ==
    /\ Counted
    /\ Show(a)
    /\ UNCHANGED <<list, autoFilled, account, loaded>>

\* The connected account is looked up unless the page shows another address.
Fills(a) == a # None /\ (url = None \/ url = autoFilled)

AccountChanges(a) ==
    /\ Counted
    /\ a # account
    /\ account' = a
    /\ IF Fills(a)
       THEN autoFilled' = a /\ Show(a)
       ELSE UNCHANGED <<autoFilled, lookup, url>>
    /\ UNCHANGED <<list, loaded>>

\* Another address of the wallet's is picked on the page.
Select(a) ==
    /\ Counted
    /\ account # None
    /\ account' = a
    /\ autoFilled' = a
    /\ Show(a)
    /\ UNCHANGED <<list, loaded>>

\* The rows of the address shown are downloaded once; a failure can be retried.
Load(file) ==
    /\ lookup # None
    /\ loaded[lookup] \in {None, Broken}
    /\ loaded' = [loaded EXCEPT ![lookup] = RowsFromShard(list, file, lookup)]
    /\ UNCHANGED <<list, url, lookup, autoFilled, account, steps>>

FailLoad ==
    /\ lookup # None
    /\ loaded[lookup] = None
    /\ loaded' = [loaded EXCEPT ![lookup] = Broken]
    /\ UNCHANGED <<list, url, lookup, autoFilled, account, steps>>

LookupNext ==
    /\ list # None
    /\ \/ \E a \in Accounts : Enter(a) \/ Select(a)
       \/ \E a \in Accounts \cup {None} : AccountChanges(a)
       \/ \E file \in Files : Load(file)
       \/ FailLoad

LookupSpec == LookupInit /\ [][LookupNext]_lookupVars

-----------------------------------------------------------------------------

ShownRows == IF lookup = None \/ loaded[lookup] \in {None, Broken} THEN <<>> ELSE loaded[lookup]

\* A wrong or altered file can only leave rows out: every row on a card is a row
\* of that contract's list for the address looked up, is there once, and no row
\* that was accepted is missing from the cards (proofs.ts rowsFromShard).
OnlyListedRows ==
    list # None =>
        LET cards == RowsByContract(list, ShownRows)
        IN  /\ \A i \in DOMAIN cards : \A j \in DOMAIN cards[i] :
                  /\ cards[i][j] \in List
                  /\ cards[i][j].account = lookup
                  /\ \A k \in DOMAIN cards[i] : cards[i][j] = cards[i][k] => j = k
            /\ \A n \in DOMAIN ShownRows : \E i \in DOMAIN cards : \E j \in DOMAIN cards[i] :
                  cards[i][j] = ShownRows[n]

\* Whatever contract list the page is built with, every block it dates an amount
\* by is in that list: the code reads these blocks without a check
\* (snapshots.ts snapshotBases, BridgePage.tsx Amounts).
DatedByListedBlocks ==
    list # None =>
        /\ \A moment \in Moments : HasBlock(list, Harmony, moment)
        /\ \A basis \in SnapshotBases(list, ShownRows) :
              /\ \A source \in basis : HasBlock(list, source[1], source[2])
              /\ MomentOf(basis) # None => HasBlock(list, Harmony, MomentOf(basis))
        /\ \A p \in PoolsOf(list) :
              /\ p.holders = Harmony \/ p.holders \in RemoteHoldersAt(list, p.snapshot)
              /\ CountedOn(list, p.holders) \subseteq BlockCells(list, p.holders)

\* All a card shows of an address is in the lists: its rows in the claim list the
\* root stands for, the dates of its amounts in the contract list.
ShownIsListed == OnlyListedRows /\ DatedByListedBlocks

=============================================================================
