------------------------------- MODULE History -------------------------------
(***************************************************************************)
(* The transaction archive and the page that looks things up in it         *)
(* (src/backend/src/archive.ts, src/frontend/src/history).  The archive is *)
(* loaded whole by src/injector/inject_archive.py, which numbers its       *)
(* records in the order of time; a page of an address's records starts     *)
(* below the last number of the page before.                               *)
(*                                                                         *)
(* Another load may come between two pages, and number the records anew.   *)
(***************************************************************************)
EXTENDS Wallet, Listing

CONSTANTS
    TxHashes,      \* transaction hashes, of Harmony and Ethereum-style
    Archives,      \* what may be loaded: records [from, to, hash, eth] in order
    Malformed,     \* stands for what is neither an address nor a hash
    PageSize,      \* records of a page
    MaxTxRecords,  \* records of a transaction that are listed
    MaxLoads,      \* bound: loads of the archive
    MaxVisits      \* bound: locations visited, records read again, failures

ASSUME HistoryAssumption ==
    /\ PageSize \in Nat \ {0} /\ MaxTxRecords \in Nat \ {0} /\ MaxVisits \in Nat
    /\ None \notin Nat
    /\ \A archive \in Archives : archive \in Seq({archive[i] : i \in DOMAIN archive})

VARIABLES
    loads,       \* every archive loaded so far; the last one is public
    location,    \* the tab's location
    inputError,  \* the page says that what was entered cannot be read
    query,       \* per query, the pages read and the read under way
    visits

historyVars == <<loads, location, inputError, query, visits>>

Queries == [type : {"address"}, value : Accounts] \cup [type : {"tx"}, value : TxHashes]

\* `load` notes, for the properties, which load a page was read from; a page
\* holds the numbers of its records in that load.
Page == [records : Seq(Nat), next : Nat \cup {None}, load : Nat]

\* What is read: the first page, the one after those there are, or as many
\* pages again from the first one on.
Fetch == [kind : {"first", "next", "all"}, got : Seq(Page)]

NoResult == [pages |-> <<>>, failed |-> FALSE, fetch |-> None]

HistoryTypeOK ==
    /\ \A i \in DOMAIN loads : loads[i] \in Archives
    /\ inputError \in BOOLEAN
    /\ \A q \in Queries :
          /\ query[q].pages \in Seq(Page)
          /\ query[q].failed \in BOOLEAN
          /\ query[q].fetch # None => query[q].fetch \in Fetch
    /\ visits \in 0 .. MaxVisits

-----------------------------------------------------------------------------
(* The archive's two lookups.                                               *)

Public == loads[Len(loads)]

\* ORDER BY id DESC, and the first n of that order.
NewestFirst(rows) == Listed(rows, {p \in rows \X rows : p[1].id > p[2].id})
Newest(rows, n) == {r \in rows : Cardinality({s \in rows : s.id > r.id}) < n}

\* The records an address sent, and those it received from another, each at
\* most `limit`, then the newest `limit` of both.
GetArchiveByAddress(archive, a, before, limit) ==
    LET ids == {i \in DOMAIN archive : before = None \/ i < before}
        sentBy == {[id |-> i, side |-> "from"] : i \in {i \in ids : archive[i].from = a}}
        receivedBy == {[id |-> i, side |-> "to"] :
                         i \in {i \in ids : archive[i].to = a /\ archive[i].from # a}}
        newest == NewestFirst(Newest(Newest(sentBy, limit) \cup Newest(receivedBy, limit), limit))
    IN  [n \in DOMAIN newest |-> newest[n].id]

\* The cursor is the record that was read to see whether there is more.
Mutant_CursorOfExtraRow(archive, a, before) ==
    LET rows == GetArchiveByAddress(archive, a, before, PageSize + 1)
    IN  IF Len(rows) > PageSize
        THEN [records |-> SubSeq(rows, 1, PageSize), next |-> rows[PageSize + 1]]
        ELSE [records |-> rows, next |-> None]

\* One record more than the page holds says whether there is an older one.
AddressPage(archive, a, before) ==
    LET rows == GetArchiveByAddress(archive, a, before, PageSize + 1)
    IN  IF Len(rows) > PageSize
        THEN [records |-> SubSeq(rows, 1, PageSize), next |-> rows[PageSize]]
        ELSE [records |-> rows, next |-> None]

\* Every record of a transaction by either of its hashes, oldest first.
GetArchiveByHash(archive, h) ==
    LET ids == {i \in DOMAIN archive : archive[i].hash = h \/ archive[i].eth = h}
        list == Ascending(ids)
    IN  SubSeq(list, 1, IF Len(list) < MaxTxRecords THEN Len(list) ELSE MaxTxRecords)

\* The answer to a request: an unknown hash is an error.
Serve(q, before) ==
    LET page == IF q.type = "address" THEN AddressPage(Public, q.value, before)
                ELSE [records |-> GetArchiveByHash(Public, q.value), next |-> None]
    IN  IF q.type = "tx" /\ page.records = <<>> THEN None
        ELSE [records |-> page.records, next |-> page.next, load |-> Len(loads)]

-----------------------------------------------------------------------------
(* Locations: a link names what it looks up in the query string, older ones *)
(* in the path.                                                             *)

Plain == [address |-> None, tx |-> None, path |-> None]

Typed(type, value) ==
    IF [type |-> type, value |-> value] \in Queries THEN [type |-> type, value |-> value] ELSE None

\* A named address decides also when it cannot be read.
ParseHistoryLocation(l) ==
    IF l.address # None THEN Typed("address", l.address)
    ELSE IF l.tx # None THEN Typed("tx", l.tx)
    ELSE IF l.path # None THEN Typed(l.path.type, l.path.value)
    ELSE None

HistoryPath(q) ==
    IF q.type = "address" THEN [Plain EXCEPT !.address = q.value] ELSE [Plain EXCEPT !.tx = q.value]

IsMalformedHistoryLocation(l) == l # Plain /\ ParseHistoryLocation(l) = None

Locations ==
    LET values == Accounts \cup TxHashes \cup {Malformed, None}
        paths == [type : {"address", "tx"}, value : values \ {None}]
    IN  [address : values, tx : {None, Malformed}, path : {None}]
        \cup [address : {None, Malformed}, tx : values, path : {None}]
        \cup [address : {None}, tx : {None}, path : paths]

Current == ParseHistoryLocation(location)

-----------------------------------------------------------------------------

HistoryInit ==
    /\ \E archive \in Archives : loads = <<archive>>
    /\ location \in Locations
    /\ inputError = IsMalformedHistoryLocation(location)
    /\ query = [q \in Queries |-> NoResult]
    /\ visits = 0

\* The tables are filled apart and swapped in one transaction.
LoadArchive(archive) ==
    /\ Len(loads) < MaxLoads
    /\ loads' = Append(loads, archive)
    /\ UNCHANGED <<location, inputError, query, visits>>

Visit ==
    /\ visits < MaxVisits
    /\ visits' = visits + 1

\* The page is put up anew for the location of a query.
Navigate(q) ==
    /\ location' = HistoryPath(q)
    /\ inputError' = FALSE

\* Something is entered. What cannot be read leaves the page as it is.
LookUp(q) ==
    /\ Visit
    /\ IF q = Malformed
       THEN inputError' = TRUE /\ UNCHANGED location
       ELSE Navigate(q)
    /\ UNCHANGED <<loads, query>>

ResultShown(q) == ~query[q].failed /\ query[q].pages # <<>>

\* The records a result lists, page after page.
ListedOf(q) == Seqs!FlattenSeq([i \in DOMAIN query[q].pages |->
    LET p == query[q].pages[i]
    IN  [j \in DOMAIN p.records |-> loads[p.load][p.records[j]]]])

\* Whether a record moved value to or from the address, or within it.
DirectionOf(r, a) == IF r.from = a THEN IF r.to = a THEN "self" ELSE "out" ELSE "in"

Counterparty(r, a) == IF DirectionOf(r, a) = "in" THEN r.from ELSE r.to

\* What a record links to: an address's list to its counterparty and its
\* transaction, a transaction's records to both of their addresses.
Links(q) ==
    UNION {LET r == ListedOf(q)[n]
               sides == IF q.type = "address" THEN {Counterparty(r, q.value)} ELSE {r.from, r.to}
           IN  {[type |-> "address", value |-> a] : a \in sides \ {None}}
               \cup (IF q.type = "address" THEN {[type |-> "tx", value |-> r.hash]} ELSE {}) :
           n \in DOMAIN ListedOf(q)}

Follow(q) ==
    /\ Visit
    /\ Current # None
    /\ ResultShown(Current)
    /\ q \in Links(Current)
    /\ Navigate(q)
    /\ UNCHANGED <<loads, query>>

\* The first page is read when the query has none, also after a failure.
FetchFirst ==
    /\ Current # None
    /\ query[Current].pages = <<>>
    /\ query[Current].fetch = None
    /\ query' = [query EXCEPT ![Current].fetch = [kind |-> "first", got |-> <<>>],
                              ![Current].failed = FALSE]
    /\ UNCHANGED <<loads, location, inputError, visits>>

\* Load older records: this ends a read of all pages that is under way.
FetchNextPage ==
    /\ Current # None
    /\ ResultShown(Current)
    /\ query[Current].pages[Len(query[Current].pages)].next # None
    /\ query[Current].fetch # None => query[Current].fetch.kind = "all"
    /\ query' = [query EXCEPT ![Current].fetch = [kind |-> "next", got |-> <<>>]]
    /\ UNCHANGED <<loads, location, inputError, visits>>

\* What was read long ago is read again when the window or the query is
\* returned to, also after a failure.
Refetch ==
    /\ Visit
    /\ Current # None
    /\ query[Current].pages # <<>>
    /\ query[Current].fetch = None
    /\ query' = [query EXCEPT ![Current].fetch = [kind |-> "all", got |-> <<>>]]
    /\ UNCHANGED <<loads, location, inputError>>

\* The cursor of the page a read is at.
CursorOf(q) ==
    LET f == query[q].fetch
        pages == IF f.kind = "next" THEN query[q].pages ELSE f.got
    IN  IF pages = <<>> THEN None ELSE pages[Len(pages)].next

\* A page arrives, wherever the tab is by now. A read of all pages goes on until
\* it has as many as before, or there are no more.
Answer(q) ==
    /\ query[q].fetch # None
    /\ LET f == query[q].fetch
           page == Serve(q, CursorOf(q))
           got == Append(f.got, page)
       IN  /\ page # None
           /\ IF f.kind = "all" /\ Len(got) < Len(query[q].pages) /\ page.next # None
              THEN query' = [query EXCEPT ![q].fetch.got = got]
              ELSE query' = [query EXCEPT ![q] =
                      [pages |-> IF f.kind = "next" THEN query[q].pages \o got ELSE got,
                       failed |-> FALSE, fetch |-> None]]
    /\ UNCHANGED <<loads, location, inputError, visits>>

\* The request failed, or no record has the hash; nothing is tried again.
FailFetch(q) ==
    /\ query[q].fetch # None
    /\ IF Serve(q, CursorOf(q)) = None THEN UNCHANGED visits ELSE Visit
    /\ query' = [query EXCEPT ![q].failed = TRUE, ![q].fetch = None]
    /\ UNCHANGED <<loads, location, inputError>>

HistoryNext ==
    \/ \E archive \in Archives : LoadArchive(archive)
    \/ \E q \in Queries \cup {Malformed} : LookUp(q)
    \/ \E q \in Queries : Follow(q) \/ Answer(q) \/ FailFetch(q)
    \/ FetchFirst \/ FetchNextPage \/ Refetch

HistorySpec == HistoryInit /\ [][HistoryNext]_historyVars

-----------------------------------------------------------------------------

Involving(archive, a) == {i \in DOMAIN archive : a \in {archive[i].from, archive[i].to}}

\* Pages read from one load list the newest records of the address, each once
\* and none left out, and older ones are offered exactly while there are some,
\* however the pages were read and read again (archive.ts getArchiveByAddress,
\* HistoryPage.tsx AddressHistory).
PagesAreWhole ==
    \A q \in Queries : q.type = "address" /\ ResultShown(q) =>
        LET pages == query[q].pages
            listed == Seqs!FlattenSeq([i \in DOMAIN pages |-> pages[i].records])
            whole == Descending(Involving(loads[pages[1].load], q.value))
        IN  (\A i \in DOMAIN pages : pages[i].load = pages[1].load) =>
                /\ Len(listed) <= Len(whole)
                /\ listed = SubSeq(whole, 1, Len(listed))
                /\ (pages[Len(pages)].next # None) <=> Len(listed) < Len(whole)

=============================================================================
