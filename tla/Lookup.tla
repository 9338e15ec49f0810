-------------------------------- MODULE Lookup --------------------------------
(***************************************************************************)
(* backend/src/app.ts, GET /api/v1/claims/:address, with the queries of    *)
(* backend/src/repository.ts, against a database into which loads swap.    *)
(*                                                                         *)
(* One answer is built from one query per table, each on a connection and  *)
(* in a transaction of its own, and from snapshot_meta, which every        *)
(* request of the process shares through a cache.  Promise.all sends the   *)
(* first round together; the vaults are asked for when all of it is back.  *)
(***************************************************************************)
EXTENDS LedgerLoad

CONSTANTS
  FirstTables,  \* tables the first round reads, snapshot_meta apart
  Requests,     \* requests the process may have open at the same time
  TTL,          \* for how long a cached meta is served
  MaxClock      \* bound on the clock

\* What a query has not brought back yet, among the datasets it may be of.
Unread == "unread"

ASSUME LookupAssumption ==
  /\ FirstTables \cup {"snapshot_meta", "validator_vaults"} \subseteq Tables
  /\ "delegations" \in FirstTables
  /\ FirstTables \cap {"snapshot_meta", "validator_vaults"} = {}
  /\ TTL \in Nat \ {0} /\ MaxClock \in Nat
  /\ Unread \notin Sets \cup {None}

VARIABLES
  clock,      \* Date.now()
  metaCache,  \* {at, value}, or None
  lookup,     \* per request: what it has read so far
  metaQuery,  \* per request: its SELECT on snapshot_meta, which outlives it
  seen        \* history: when each dataset was last the visible one

lookupVars == <<clock, metaCache, lookup, metaQuery, seen>>
allVars == <<loadVars, lookupVars>>

Content == Sets \cup {None}
AnswerTables == FirstTables \cup {"validator_vaults"}
Stamped == [at: 0..MaxClock, value: Content]

\* start and swapsBefore note, for the properties, when the request came in.
LookupState ==
  [pc: {"idle", "reading", "answered"},
   got: [AnswerTables -> Content \cup {Unread}], meta: Content \cup {Unread},
   start: 0..MaxClock, swapsBefore: 0..MaxSwaps]

NoLookup ==
  [pc |-> "idle", got |-> [t \in AnswerTables |-> Unread], meta |-> Unread,
   start |-> 0, swapsBefore |-> 0]

LookupTypeOK ==
  /\ LoadTypeOK
  /\ clock \in 0..MaxClock
  /\ metaCache \in {None} \cup Stamped
  /\ lookup \in [Requests -> LookupState]
  /\ metaQuery \in [Requests -> {None} \cup
                      [at: 0..MaxClock, value: Content \cup {Unread}]]
  /\ seen \in [Content -> 0..MaxClock]

LookupInit ==
  /\ LoadInit
  /\ clock = 0
  /\ metaCache = None
  /\ lookup = [r \in Requests |-> NoLookup]
  /\ metaQuery = [r \in Requests |-> None]
  /\ seen = [s \in Content |-> 0]

-----------------------------------------------------------------------------
\* Mutant of CacheServes: an entry is served for one unit too long.
Mutant_ServeAtTTL(now) == metaCache # None /\ now - metaCache.at <= TTL

CacheServes(now) == metaCache # None /\ now - metaCache.at < TTL

\* All calls of Promise.all are made before the first await, so the cache is
\* looked at, and the time of a query that fills it is taken, right here.
StartLookup(r) ==
  /\ lookup[r].pc \in {"idle", "answered"}
  /\ metaQuery[r] = None
  /\ lookup' = [lookup EXCEPT ![r] =
       [NoLookup EXCEPT !.pc = "reading", !.start = clock, !.swapsBefore = swaps,
                        !.meta = IF CacheServes(clock) THEN metaCache.value ELSE Unread]]
  /\ metaQuery' = [metaQuery EXCEPT ![r] =
       IF CacheServes(clock) THEN None ELSE [at |-> clock, value |-> Unread]]
  /\ UNCHANGED <<loadVars, clock, metaCache, seen>>

\* One query of the first round is executed, in whichever order.
ReadTable(r, t) ==
  /\ lookup[r].pc = "reading"
  /\ lookup[r].got[t] = Unread
  /\ lookup' = [lookup EXCEPT ![r].got[t] = public[t]]
  /\ UNCHANGED <<loadVars, clock, metaCache, metaQuery, seen>>

ReadMeta(r) ==
  /\ metaQuery[r] # None
  /\ metaQuery[r].value = Unread
  /\ metaQuery' = [metaQuery EXCEPT ![r].value = public["snapshot_meta"]]
  /\ UNCHANGED <<loadVars, clock, metaCache, lookup, seen>>

MetaIsBack(r) == metaQuery[r] # None /\ metaQuery[r].value # Unread

\* Mutant of StoreMeta: the entry's time is taken when the rows are back.
Mutant_StampAtStore(r) ==
  /\ MetaIsBack(r)
  /\ metaCache' = [at |-> clock, value |-> metaQuery[r].value]
  /\ lookup' = [lookup EXCEPT ![r].meta =
                  IF lookup[r].pc = "reading" THEN metaQuery[r].value ELSE @]
  /\ metaQuery' = [metaQuery EXCEPT ![r] = None]
  /\ UNCHANGED <<loadVars, clock, seen>>

\* The rows reach the process.  They replace what another request stored in
\* the meantime, and are stored although this request may have failed.
StoreMeta(r) ==
  /\ MetaIsBack(r)
  /\ metaCache' = metaQuery[r]
  /\ lookup' = [lookup EXCEPT ![r].meta =
                  IF lookup[r].pc = "reading" THEN metaQuery[r].value ELSE @]
  /\ metaQuery' = [metaQuery EXCEPT ![r] = None]
  /\ UNCHANGED <<loadVars, clock, seen>>

FirstRoundIsBack(r) ==
  /\ lookup[r].pc = "reading"
  /\ lookup[r].meta # Unread
  /\ \A t \in FirstTables : lookup[r].got[t] # Unread

\* The second round, and the response.  Without delegations there is no query.
AnswerWithVaults(r) ==
  /\ FirstRoundIsBack(r)
  /\ lookup[r].got["delegations"] # None
  /\ lookup' = [lookup EXCEPT ![r].got["validator_vaults"] = public["validator_vaults"],
                              ![r].pc = "answered"]
  /\ UNCHANGED <<loadVars, clock, metaCache, metaQuery, seen>>

AnswerWithoutVaults(r) ==
  /\ FirstRoundIsBack(r)
  /\ lookup' = [lookup EXCEPT ![r].pc = "answered"]
  /\ UNCHANGED <<loadVars, clock, metaCache, metaQuery, seen>>

\* A query fails or times out: the first one rejects Promise.all, and what the
\* others bring back is dropped, the meta apart.
FailLookup(r) ==
  /\ lookup[r].pc = "reading"
  /\ lookup' = [lookup EXCEPT ![r] = NoLookup]
  /\ \/ UNCHANGED metaQuery
     \/ metaQuery[r] # None /\ metaQuery' = [metaQuery EXCEPT ![r] = None]
  /\ UNCHANGED <<loadVars, clock, metaCache, seen>>

\* A query on snapshot_meta that outlived its request fails as well.
FailMeta(r) ==
  /\ lookup[r].pc # "reading"
  /\ metaQuery[r] # None
  /\ metaQuery' = [metaQuery EXCEPT ![r] = None]
  /\ UNCHANGED <<loadVars, clock, metaCache, lookup, seen>>

Visible == public["snapshot_meta"]

LoadStep ==
  /\ LoadNext
  /\ seen' = [seen EXCEPT ![Visible] = clock]
  /\ UNCHANGED <<clock, metaCache, lookup, metaQuery>>

Tick ==
  /\ clock < MaxClock
  /\ clock' = clock + 1
  /\ seen' = [seen EXCEPT ![Visible] = clock + 1]
  /\ UNCHANGED <<loadVars, metaCache, lookup, metaQuery>>

LookupNext ==
  \/ LoadStep
  \/ Tick
  \/ \E r \in Requests :
       \/ StartLookup(r)
       \/ \E t \in FirstTables : ReadTable(r, t)
       \/ ReadMeta(r)
       \/ StoreMeta(r)
       \/ AnswerWithVaults(r)
       \/ AnswerWithoutVaults(r)
       \/ FailLookup(r)
       \/ FailMeta(r)

LookupSpec == LookupInit /\ [][LookupNext]_allVars

-----------------------------------------------------------------------------
TablesOf(r) == {lookup[r].got[t] : t \in AnswerTables} \ {Unread}

\* An answer no swap ran into is of one load, and the meta shown with it, which
\* names the data version, was visible less than TTL before the request came
\* in, whoever filled the cache, however late, and in whatever order.
UndisturbedAnswer ==
  \A r \in Requests :
    lookup[r].pc = "answered" /\ lookup[r].swapsBefore = swaps =>
      /\ TablesOf(r) = {public["delegations"]}
      /\ \/ lookup[r].meta = Visible
         \/ seen[lookup[r].meta] > lookup[r].start - TTL

\* Stated by README.md: a load is a staging-schema swap, so the API never sees
\* partial data.  An answer that is partly of one load and partly of another
\* is partial data of both.
OneLoadPerAnswer ==
  \A r \in Requests :
    lookup[r].pc = "answered" => \E s \in Content : TablesOf(r) = {s}
=============================================================================
