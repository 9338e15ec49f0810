--------------------------- MODULE LedgerLoadProofs ---------------------------
(***************************************************************************)
(* What any number of loads, over each other in any order, may publish,    *)
(* and what a lookup that runs across them may answer.                     *)
(***************************************************************************)
EXTENDS Lookup, TLAPS

\* What is staged is of one load or empty, and public is the same: a copy only
\* goes into empty tables, and a swap moves all that is staged.
StagedInv ==
  /\ LoadTypeOK
  /\ \E s \in Sets \cup {None} : public = Whole(s)
  /\ staging # None => \E s \in Sets \cup {None} : staging = Whole(s)

\* While no other load has run into it, a load that has made its schema finds
\* it as it left it.
OwnStaging(l) ==
  load[l].pc # "idle" /\ ~load[l].overlapped =>
    staging = Whole(IF load[l].pc = "copied" THEN load[l].set ELSE None)

\* Two loads that run at once know of each other.
AloneInv ==
  \A l \in Loads :
    /\ OwnStaging(l)
    /\ \A k \in Loads \ {l} :
         load[l].pc # "idle" /\ load[k].pc # "idle" =>
           load[l].overlapped /\ load[k].overlapped

LoadInv == StagedInv /\ AloneInv

-----------------------------------------------------------------------------
LEMMA InitLoad == LoadInit => LoadInv
  BY LoadAssumption
     DEF LoadInit, LoadInv, StagedInv, AloneInv, OwnStaging, LoadTypeOK, LoadState,
         NoLoad, Whole

LEMMA NextStaged == StagedInv /\ [LoadNext]_loadVars => StagedInv'
<1>. SUFFICES ASSUME StagedInv, [LoadNext]_loadVars
              PROVE  StagedInv'
  OBVIOUS
<1>. USE LoadAssumption DEF StagedInv, LoadTypeOK, LoadState
<1>1. ASSUME NEW l \in Loads, NEW s \in Sets, CreateStaging(l, s)
      PROVE  StagedInv'
  <2>1. load' \in [Loads -> LoadState]
    BY <1>1 DEF CreateStaging
  <2>2. staging' = Whole(None) /\ staging' \in [Tables -> Sets \cup {None}]
    BY <1>1 DEF CreateStaging, Whole
  <2>. QED  BY <1>1, <2>1, <2>2 DEF CreateStaging
<1>2. ASSUME NEW l \in Loads, StartCopy(l)
      PROVE  StagedInv'
  BY <1>2 DEF StartCopy
<1>3. ASSUME NEW l \in Loads, CommitCopy(l)
      PROVE  StagedInv'
  <2>1. load' \in [Loads -> LoadState] /\ load[l].set \in Sets \cup {None}
    BY <1>3 DEF CommitCopy
  <2>2. /\ staging' = Whole(load[l].set)
        /\ staging' \in [Tables -> Sets \cup {None}]
    BY <1>3, <2>1 DEF CommitCopy, Whole
  <2>. QED  BY <1>3, <2>1, <2>2 DEF CommitCopy
<1>4. ASSUME NEW l \in Loads, Swap(l)
      PROVE  StagedInv'
  <2>1. load' \in [Loads -> LoadState] /\ loadRun' \in Sets \cup {None}
    BY <1>4 DEF Swap, NoLoad
  <2>2. swaps' \in 0..MaxSwaps
    BY <1>4 DEF Swap
  <2>. QED  BY <1>4, <2>1, <2>2 DEF Swap
<1>5. ASSUME NEW l \in Loads, FailLoad(l)
      PROVE  StagedInv'
  BY <1>5 DEF FailLoad, NoLoad
<1>6. CASE UNCHANGED loadVars
  BY <1>6 DEF loadVars
<1>. QED  BY <1>1, <1>2, <1>3, <1>4, <1>5, <1>6 DEF LoadNext

\* A load that finds another one running marks both, so a step of one load
\* never moves what a load that is not marked relies on.
LEMMA NextAlone == LoadInv /\ [LoadNext]_loadVars => AloneInv'
<1>. SUFFICES ASSUME LoadInv, [LoadNext]_loadVars
              PROVE  AloneInv'
  OBVIOUS
<1>. USE DEF LoadInv, StagedInv, LoadTypeOK, LoadState, AloneInv, OwnStaging
<1>1. ASSUME NEW l \in Loads, NEW s \in Sets, CreateStaging(l, s)
      PROVE  AloneInv'
  <2>1. /\ staging' = Whole(None)
        /\ load'[l].pc = "created"
        /\ load'[l].overlapped <=> \E j \in Loads \ {l} : load[j].pc # "idle"
    BY <1>1 DEF CreateStaging
  <2>2. ASSUME NEW k \in Loads \ {l}
        PROVE  /\ load'[k].pc = load[k].pc
               /\ load'[k].overlapped <=> load[k].overlapped \/ load[k].pc # "idle"
    <3>1. load[k] \in LoadState
      OBVIOUS
    <3>2. load'[k] = [load[k] EXCEPT !.overlapped = load[k].overlapped \/ load[k].pc # "idle"]
      BY <1>1 DEF CreateStaging
    <3>. QED  BY <3>1, <3>2
  <2>3. \A k \in Loads : OwnStaging(k)'
    BY <2>1, <2>2
  <2>4. \A j \in Loads : \A k \in Loads \ {j} :
          load'[j].pc # "idle" /\ load'[k].pc # "idle" =>
            load'[j].overlapped /\ load'[k].overlapped
    BY <2>1, <2>2
  <2>. QED  BY <2>3, <2>4
<1>2. ASSUME NEW l \in Loads, StartCopy(l)
      PROVE  AloneInv'
  BY <1>2 DEF StartCopy
<1>3. ASSUME NEW l \in Loads, CommitCopy(l)
      PROVE  AloneInv'
  BY <1>3 DEF CommitCopy
<1>4. ASSUME NEW l \in Loads, Swap(l)
      PROVE  AloneInv'
  BY <1>4 DEF Swap, NoLoad
<1>5. ASSUME NEW l \in Loads, FailLoad(l)
      PROVE  AloneInv'
  BY <1>5 DEF FailLoad, NoLoad
<1>6. CASE UNCHANGED loadVars
  BY <1>6 DEF loadVars
<1>. QED  BY <1>1, <1>2, <1>3, <1>4, <1>5, <1>6 DEF LoadNext

LEMMA LoadInvariant == LoadSpec => []LoadInv
<1>1. LoadInv /\ [LoadNext]_loadVars => LoadInv'
  BY NextStaged, NextAlone DEF LoadInv
<1>. QED  BY InitLoad, <1>1, PTL DEF LoadSpec

\* Data tables, staging tables and loads have their types.
THEOREM LoadTypeCorrect == LoadSpec => []LoadTypeOK
  BY LoadInvariant, PTL DEF LoadInv, StagedInv

\* Whatever loads run, overlap or die, all visible tables are of one load.
THEOREM OneLoadIsVisible == LoadSpec => []NeverMixed
<1>1. LoadInv => NeverMixed
  BY DEF LoadInv, StagedInv, NeverMixed
<1>. QED  BY LoadInvariant, <1>1, PTL

\* A load no other load ran into publishes its dataset whole, and is recorded
\* as what it published.
THEOREM LoadPublishesItself == LoadSpec => PublishedAsRecorded
<1>. DEFINE Published ==
       \A l \in Loads :
         swaps' # swaps /\ load'[l] # load[l] /\ ~load[l].overlapped =>
           public' = Whole(load[l].set) /\ loadRun' = load[l].set
<1>1. LoadInv /\ [LoadNext]_loadVars => [Published]_loadVars
  <2>. SUFFICES ASSUME LoadInv, LoadNext, swaps' # swaps,
                       NEW l \in Loads, load'[l] # load[l], ~load[l].overlapped
                PROVE  public' = Whole(load[l].set) /\ loadRun' = load[l].set
    BY DEF Published
  <2>1. PICK k \in Loads : Swap(k)
    BY DEF LoadNext, CreateStaging, StartCopy, CommitCopy, FailLoad, LoadInv, StagedInv,
           LoadTypeOK
  <2>2. k = l
    BY <2>1 DEF Swap, LoadInv, StagedInv, LoadTypeOK
  <2>3. OwnStaging(l)
    BY DEF LoadInv, AloneInv
  <2>. QED  BY <2>1, <2>2, <2>3 DEF Swap, OwnStaging
<1>. QED  BY LoadInvariant, <1>1, PTL DEF LoadSpec, PublishedAsRecorded, Published

-----------------------------------------------------------------------------
(* Lookups across loads.                                                   *)

\* The database of the lookups is the one the loads swap tables into: what
\* holds of loads holds whatever lookups run.
THEOREM LookupIsLoad == LookupSpec => LoadSpec
<1>1. LookupInit => LoadInit
  BY DEF LookupInit
<1>2. [LookupNext]_allVars => [LoadNext]_loadVars
  BY DEF LookupNext, allVars, LoadStep, Tick, StartLookup, ReadTable, ReadMeta, StoreMeta,
         AnswerWithVaults, AnswerWithoutVaults, FailLookup, FailMeta
<1>. QED  BY <1>1, <1>2, PTL DEF LookupSpec, LoadSpec

\* A dataset is visible now or was so at that time or later.
Fresh(s, at) == s = Visible \/ seen[s] >= at

\* Times that were taken do not lie in the future.
ClockInv ==
  /\ \A s \in Content : seen[s] <= clock
  /\ metaCache # None => metaCache.at <= clock
  /\ \A r \in Requests :
       /\ metaQuery[r] # None => metaQuery[r].at <= clock
       /\ lookup[r].start <= clock /\ lookup[r].swapsBefore <= swaps

\* A meta that is cached, on its way or part of a lookup was visible when its
\* query was sent, or later; one from the cache less than TTL before that.
MetaInv ==
  /\ metaCache # None => metaCache.value \in Content /\ Fresh(metaCache.value, metaCache.at)
  /\ \A r \in Requests :
       /\ MetaIsBack(r) => Fresh(metaQuery[r].value, metaQuery[r].at)
       /\ metaQuery[r] # None /\ lookup[r].pc = "reading" =>
            metaQuery[r].at = lookup[r].start
       /\ lookup[r].pc # "idle" /\ lookup[r].meta # Unread =>
            Fresh(lookup[r].meta, lookup[r].start - TTL + 1)

\* Without a swap, what has been read is what is visible.
ReadInv ==
  \A r \in Requests :
    /\ lookup[r].pc # "idle" /\ lookup[r].swapsBefore = swaps =>
         \A t \in AnswerTables : lookup[r].got[t] \in {Unread, Visible}
    /\ lookup[r].pc = "answered" =>
         lookup[r].got["delegations"] # Unread /\ lookup[r].meta # Unread

LookupInv == LoadInv /\ LookupTypeOK /\ ClockInv /\ MetaInv /\ ReadInv

\* Every table shows the dataset that snapshot_meta shows.
LEMMA VisibleEverywhere ==
  ASSUME LoadInv
  PROVE  /\ Visible \in Content
         /\ \A t \in Tables : public[t] = Visible
         /\ AnswerTables \subseteq Tables /\ "delegations" \in AnswerTables
<1>1. PICK s \in Sets \cup {None} : public = Whole(s)
  BY DEF LoadInv, StagedInv
<1>2. \A t \in Tables : public[t] = s
  BY <1>1 DEF Whole
<1>3. "snapshot_meta" \in Tables
  BY LookupAssumption
<1>. QED  BY <1>2, <1>3, LookupAssumption DEF Visible, Content, AnswerTables

LEMMA InitLookup == LookupInit => LookupInv
<1>. SUFFICES ASSUME LookupInit PROVE LookupInv
  OBVIOUS
<1>1. LoadInv
  BY InitLoad DEF LookupInit
<1>2. NoLookup \in LookupState
  BY LookupAssumption, LoadAssumption DEF NoLookup, LookupState
<1>3. LookupTypeOK
  BY <1>1, <1>2, LookupAssumption DEF LookupInit, LookupTypeOK, LoadInv, StagedInv
<1>4. swaps = 0
  BY DEF LookupInit, LoadInit
<1>5. ClockInv /\ MetaInv /\ ReadInv
  BY <1>4, LookupAssumption
     DEF LookupInit, ClockInv, MetaInv, ReadInv, NoLookup, MetaIsBack
<1>. QED  BY <1>1, <1>3, <1>5 DEF LookupInv

\* A step of a load, and the clock: what was visible is seen now, so nothing
\* that was fresh gets stale.
LEMMA SeenKeeps ==
  ASSUME LookupInv, LoadInv', LookupTypeOK',
         UNCHANGED <<metaCache, lookup, metaQuery>>,
         clock' \in {clock, clock + 1}, swaps' >= swaps,
         swaps' = swaps => UNCHANGED public,
         seen' = [seen EXCEPT ![Visible] = clock']
  PROVE  LookupInv'
<1>0. /\ clock \in Nat /\ clock' \in Nat /\ TTL \in Nat \ {0}
      /\ swaps \in Nat /\ swaps' \in Nat
      /\ seen \in [Content -> 0..MaxClock] /\ Visible \in Content
      /\ \A r \in Requests :
           /\ lookup[r] \in LookupState
           /\ metaQuery[r] # None =>
                metaQuery[r] \in [at: 0..MaxClock, value: Content \cup {Unread}]
      /\ metaCache # None => metaCache \in Stamped
  BY LookupAssumption, LoadAssumption, VisibleEverywhere
     DEF LookupInv, LookupTypeOK, LoadTypeOK
<1>1. \A s \in Content : /\ seen'[s] \in Nat /\ seen[s] \in Nat
                         /\ seen'[s] >= seen[s] /\ seen'[s] <= clock'
                         /\ s = Visible => seen'[s] = clock'
  BY <1>0 DEF LookupInv, ClockInv
<1>2. ASSUME NEW s \in Content, NEW at \in Int, at <= clock, Fresh(s, at)
      PROVE  s = Visible' \/ seen'[s] >= at
  BY <1>0, <1>1, <1>2 DEF Fresh
<1>3. ClockInv'
  <2>1. metaCache # None => metaCache.at \in Nat /\ metaCache.at <= clock
    BY <1>0 DEF Stamped, LookupInv, ClockInv
  <2>2. ASSUME NEW r \in Requests
        PROVE  /\ metaQuery[r] # None => metaQuery[r].at <= clock'
               /\ lookup[r].start <= clock' /\ lookup[r].swapsBefore <= swaps'
    <3>1. /\ lookup[r].start \in Nat /\ lookup[r].swapsBefore \in Nat
          /\ metaQuery[r] # None => metaQuery[r].at \in Nat
      BY <1>0 DEF LookupState
    <3>. QED  BY <1>0, <3>1 DEF LookupInv, ClockInv
  <2>. QED  BY <1>0, <1>1, <2>1, <2>2 DEF ClockInv
<1>4. MetaInv'
  <2>1. metaCache # None =>
          metaCache.value \in Content /\ (metaCache.value = Visible' \/ seen'[metaCache.value] >= metaCache.at)
    BY <1>0, <1>2 DEF Stamped, LookupInv, ClockInv, MetaInv
  <2>2. ASSUME NEW r \in Requests, MetaIsBack(r)
        PROVE  metaQuery[r].value = Visible' \/ seen'[metaQuery[r].value] >= metaQuery[r].at
    <3>1. metaQuery[r].value \in Content /\ metaQuery[r].at \in Int /\ metaQuery[r].at <= clock
      BY <1>0, <2>2 DEF MetaIsBack, LookupInv, ClockInv
    <3>. QED  BY <1>2, <2>2, <3>1 DEF LookupInv, MetaInv
  <2>3. ASSUME NEW r \in Requests, lookup[r].pc # "idle", lookup[r].meta # Unread
        PROVE  \/ lookup[r].meta = Visible'
               \/ seen'[lookup[r].meta] >= lookup[r].start - TTL + 1
    <3>1. lookup[r].meta \in Content /\ lookup[r].start \in Nat /\ lookup[r].start <= clock
      BY <1>0, <2>3 DEF LookupState, LookupInv, ClockInv
    <3>2. lookup[r].start - TTL + 1 \in Int /\ lookup[r].start - TTL + 1 <= clock
      BY <1>0, <3>1
    <3>. QED  BY <1>2, <2>3, <3>1, <3>2 DEF LookupInv, MetaInv
  <2>. QED  BY <2>1, <2>2, <2>3 DEF MetaInv, Fresh, MetaIsBack, LookupInv
<1>5. ReadInv'
  <2>. SUFFICES ASSUME NEW r \in Requests
                PROVE  /\ lookup[r].pc # "idle" /\ lookup[r].swapsBefore = swaps' =>
                            \A t \in AnswerTables : lookup[r].got[t] \in {Unread, Visible'}
                       /\ lookup[r].pc = "answered" =>
                            lookup[r].got["delegations"] # Unread /\ lookup[r].meta # Unread
    BY DEF ReadInv
  <2>1. lookup[r].swapsBefore = swaps' => swaps' = swaps
    BY <1>0 DEF LookupState, LookupInv, ClockInv
  <2>2. swaps' = swaps => Visible' = Visible
    BY DEF Visible
  <2>. QED  BY <2>1, <2>2 DEF LookupInv, ReadInv
<1>. QED  BY <1>3, <1>4, <1>5 DEF LookupInv

\* A request step leaves the tables and the clock alone, so it keeps the
\* invariant if the cache and its own query and lookup satisfy it.
LEMMA RequestKeeps ==
  ASSUME LookupInv, NEW r \in Requests,
         NEW l \in LookupState, lookup' = [lookup EXCEPT ![r] = l],
         NEW m \in {None} \cup [at: 0..MaxClock, value: Content \cup {Unread}],
         metaQuery' = [metaQuery EXCEPT ![r] = m],
         metaCache' \in {None} \cup Stamped,
         UNCHANGED <<loadVars, clock, seen>>,
         metaCache' # None =>
           metaCache'.at <= clock /\ Fresh(metaCache'.value, metaCache'.at),
         m # None =>
           /\ m.at <= clock
           /\ m.value # Unread => Fresh(m.value, m.at)
           /\ l.pc = "reading" => m.at = l.start,
         l.start <= clock, l.swapsBefore <= swaps,
         l.pc # "idle" /\ l.meta # Unread => Fresh(l.meta, l.start - TTL + 1),
         l.pc # "idle" /\ l.swapsBefore = swaps =>
           \A t \in AnswerTables : l.got[t] \in {Unread, Visible},
         l.pc = "answered" => l.got["delegations"] # Unread /\ l.meta # Unread
  PROVE  LookupInv'
<1>1. /\ \A q \in Requests : lookup'[q] = IF q = r THEN l ELSE lookup[q]
      /\ \A q \in Requests : metaQuery'[q] = IF q = r THEN m ELSE metaQuery[q]
  BY DEF LookupInv, LookupTypeOK
<1>2. LoadInv'
  BY DEF LookupInv, LoadInv, StagedInv, AloneInv, OwnStaging, LoadTypeOK, loadVars
<1>3. LookupTypeOK'
  BY <1>2 DEF LookupInv, LookupTypeOK, LoadInv, StagedInv
<1>4. UNCHANGED <<public, swaps, clock, seen>> /\ Visible' = Visible
  BY DEF loadVars, Visible
<1>5. ClockInv'
  BY <1>1, <1>4 DEF LookupInv, ClockInv
<1>6. MetaInv'
  <2>1. metaCache' # None => metaCache'.value \in Content
    BY DEF Stamped
  <2>2. ASSUME NEW q \in Requests
        PROVE  /\ metaQuery'[q] # None /\ metaQuery'[q].value # Unread =>
                    Fresh(metaQuery'[q].value, metaQuery'[q].at)
               /\ metaQuery'[q] # None /\ lookup'[q].pc = "reading" =>
                    metaQuery'[q].at = lookup'[q].start
               /\ lookup'[q].pc # "idle" /\ lookup'[q].meta # Unread =>
                    Fresh(lookup'[q].meta, lookup'[q].start - TTL + 1)
    BY <1>1 DEF LookupInv, MetaInv, MetaIsBack
  <2>. QED  BY <1>4, <2>1, <2>2 DEF MetaInv, MetaIsBack, Fresh
<1>7. ReadInv'
  BY <1>1, <1>4 DEF LookupInv, ReadInv
<1>. QED  BY <1>2, <1>3, <1>5, <1>6, <1>7 DEF LookupInv

\* What the invariant says of one request, with the types it needs.
LEMMA RequestFacts ==
  ASSUME LookupInv, NEW r \in Requests
  PROVE  LET l == lookup[r]
             m == metaQuery[r]
         IN
         /\ l \in LookupState
         /\ m \in {None} \cup [at: 0..MaxClock, value: Content \cup {Unread}]
         /\ metaCache \in {None} \cup Stamped
         /\ metaCache # None =>
              metaCache.at <= clock /\ Fresh(metaCache.value, metaCache.at)
         /\ m # None =>
              /\ m.at <= clock
              /\ m.value # Unread => Fresh(m.value, m.at)
              /\ l.pc = "reading" => m.at = l.start
         /\ l.start <= clock /\ l.swapsBefore <= swaps
         /\ l.pc # "idle" /\ l.meta # Unread => Fresh(l.meta, l.start - TTL + 1)
         /\ l.pc # "idle" /\ l.swapsBefore = swaps =>
              \A t \in AnswerTables : l.got[t] \in {Unread, Visible}
         /\ l.pc = "answered" => l.got["delegations"] # Unread /\ l.meta # Unread
         /\ lookup = [lookup EXCEPT ![r] = l] /\ metaQuery = [metaQuery EXCEPT ![r] = m]
         /\ clock \in 0..MaxClock /\ swaps \in 0..MaxSwaps
BY DEF LookupInv, LookupTypeOK, LoadTypeOK, ClockInv, MetaInv, MetaIsBack, ReadInv

\* Later is fresher.
LEMMA FreshLater ==
  ASSUME LookupInv, NEW s \in Content, NEW at \in Int, NEW before \in Int,
         before <= at, Fresh(s, at)
  PROVE  Fresh(s, before)
<1>1. seen[s] \in Nat
  BY LookupAssumption DEF LookupInv, LookupTypeOK
<1>. QED  BY <1>1 DEF Fresh

LEMMA StartKeeps ==
  ASSUME LookupInv, NEW r \in Requests, StartLookup(r)
  PROVE  LookupInv'
<1>. DEFINE meta == IF CacheServes(clock) THEN metaCache.value ELSE Unread
            l == [NoLookup EXCEPT !.pc = "reading", !.start = clock, !.swapsBefore = swaps,
                                  !.meta = meta]
            m == IF CacheServes(clock) THEN None ELSE [at |-> clock, value |-> Unread]
<1>0. /\ metaCache \in {None} \cup Stamped /\ clock \in 0..MaxClock /\ swaps \in 0..MaxSwaps
      /\ metaCache # None => Fresh(metaCache.value, metaCache.at)
      /\ MaxClock \in Nat /\ MaxSwaps \in Nat /\ TTL \in Nat
  BY RequestFacts, LookupAssumption, LoadAssumption
<1>1. meta \in Content \cup {Unread}
  BY <1>0 DEF CacheServes, Stamped
<1>2. meta # Unread => Fresh(meta, clock - TTL + 1)
  <2>1. CASE CacheServes(clock)
    <3>1. metaCache.at \in Int /\ clock - TTL + 1 <= metaCache.at /\ metaCache.value \in Content
      BY <1>0, <2>1 DEF CacheServes, Stamped
    <3>2. clock - TTL + 1 \in Int
      BY <1>0
    <3>. QED  BY <1>0, <2>1, <3>1, <3>2, FreshLater DEF CacheServes
  <2>. QED  BY <2>1
<1>. HIDE DEF meta
<1>3. /\ l \in LookupState /\ l.pc = "reading" /\ l.start = clock /\ l.swapsBefore = swaps
      /\ l.meta = meta /\ \A t \in AnswerTables : l.got[t] = Unread
  BY <1>0, <1>1 DEF NoLookup, LookupState
<1>4. /\ m \in {None} \cup [at: 0..MaxClock, value: Content \cup {Unread}]
      /\ m # None => m.at = clock /\ m.value = Unread
  BY <1>0
<1>5. lookup' = [lookup EXCEPT ![r] = l] /\ metaQuery' = [metaQuery EXCEPT ![r] = m]
  BY DEF StartLookup, meta
<1>6. UNCHANGED <<loadVars, clock, seen, metaCache>>
  BY DEF StartLookup
<1>. HIDE DEF l, m
<1>7. metaCache' \in {None} \cup Stamped
      /\ (metaCache' # None =>
            metaCache'.at <= clock /\ Fresh(metaCache'.value, metaCache'.at))
  BY <1>6, RequestFacts
<1>8. l.meta # Unread => Fresh(l.meta, l.start - TTL + 1)
  BY <1>2, <1>3 DEF Fresh
<1>9. /\ m # None =>
           /\ m.at <= clock
           /\ m.value # Unread => Fresh(m.value, m.at)
           /\ l.pc = "reading" => m.at = l.start
      /\ l.start <= clock /\ l.swapsBefore <= swaps
  BY <1>0, <1>3, <1>4
<1>10. /\ \A t \in AnswerTables : l.got[t] \in {Unread, Visible}
       /\ l.pc # "answered"
  BY <1>3
<1>. QED  BY <1>3, <1>4, <1>5, <1>6, <1>7, <1>8, <1>9, <1>10, RequestKeeps

\* A step that only moves the lookup, within what the invariant allows.
LEMMA LookupMoves ==
  ASSUME LookupInv, NEW r \in Requests,
         NEW l \in LookupState, lookup' = [lookup EXCEPT ![r] = l],
         UNCHANGED <<loadVars, clock, metaCache, metaQuery, seen>>,
         lookup[r].pc = "reading", l.pc \in {"reading", "answered"},
         l.start = lookup[r].start, l.swapsBefore = lookup[r].swapsBefore,
         l.meta = lookup[r].meta,
         \A t \in AnswerTables : l.got[t] \in {lookup[r].got[t], public[t]},
         l.pc = "answered" => l.got["delegations"] # Unread /\ l.meta # Unread
  PROVE  LookupInv'
<1>1. /\ \A t \in AnswerTables : public[t] = Visible
  BY VisibleEverywhere DEF LookupInv
<1>2. l.swapsBefore = swaps => \A t \in AnswerTables : l.got[t] \in {Unread, Visible}
  BY <1>1, RequestFacts
<1>. DEFINE m == metaQuery[r]
<1>3. /\ metaQuery' = [metaQuery EXCEPT ![r] = m]
      /\ m \in {None} \cup [at: 0..MaxClock, value: Content \cup {Unread}]
      /\ m # None =>
           /\ m.at <= clock
           /\ m.value # Unread => Fresh(m.value, m.at)
           /\ l.pc = "reading" => m.at = l.start
  BY RequestFacts
<1>4. /\ metaCache' \in {None} \cup Stamped
      /\ metaCache' # None =>
            metaCache'.at <= clock /\ Fresh(metaCache'.value, metaCache'.at)
  BY RequestFacts
<1>5. /\ l.start <= clock /\ l.swapsBefore <= swaps
      /\ l.meta # Unread => Fresh(l.meta, l.start - TTL + 1)
  BY RequestFacts
<1>. HIDE DEF m
<1>. QED  BY <1>2, <1>3, <1>4, <1>5, RequestKeeps

LEMMA ReadKeeps ==
  ASSUME LookupInv, NEW r \in Requests
  PROVE  /\ \A t \in FirstTables : ReadTable(r, t) => LookupInv'
         /\ AnswerWithVaults(r) \/ AnswerWithoutVaults(r) => LookupInv'
<1>0. /\ lookup[r] \in LookupState
      /\ \A t \in AnswerTables : public[t] \in Content
      /\ "delegations" \in FirstTables /\ "validator_vaults" \notin FirstTables
      /\ FirstTables \subseteq AnswerTables /\ "validator_vaults" \in AnswerTables
  BY RequestFacts, VisibleEverywhere, LookupAssumption DEF LookupInv, AnswerTables
<1>1. ASSUME NEW t \in FirstTables, ReadTable(r, t)
      PROVE  LookupInv'
  <2>. DEFINE g == [lookup[r].got EXCEPT ![t] = public[t]]
              l == [lookup[r] EXCEPT !.got = g]
  <2>1. /\ g \in [AnswerTables -> Content \cup {Unread}]
        /\ \A u \in AnswerTables : g[u] \in {lookup[r].got[u], public[u]}
    BY <1>0 DEF LookupState
  <2>2. lookup' = [lookup EXCEPT ![r] = l]
    BY <1>1 DEF ReadTable
  <2>. HIDE DEF g
  <2>3. /\ l \in LookupState /\ l.pc = lookup[r].pc /\ l.got = g
        /\ l.start = lookup[r].start /\ l.swapsBefore = lookup[r].swapsBefore
        /\ l.meta = lookup[r].meta
    BY <1>0, <2>1 DEF LookupState
  <2>. HIDE DEF l
  <2>4. /\ lookup[r].pc = "reading" /\ l.pc = "reading"
        /\ UNCHANGED <<loadVars, clock, metaCache, metaQuery, seen>>
    BY <1>1, <2>3 DEF ReadTable
  <2>5. \A u \in AnswerTables : l.got[u] \in {lookup[r].got[u], public[u]}
    BY <2>1, <2>3
  <2>. QED  BY <2>2, <2>3, <2>4, <2>5, LookupMoves
<1>2. ASSUME AnswerWithVaults(r) PROVE LookupInv'
  <2>. DEFINE g == [lookup[r].got EXCEPT !["validator_vaults"] = public["validator_vaults"]]
              l == [lookup[r] EXCEPT !.got = g, !.pc = "answered"]
  <2>1. /\ g \in [AnswerTables -> Content \cup {Unread}]
        /\ \A u \in AnswerTables : g[u] \in {lookup[r].got[u], public[u]}
        /\ g["delegations"] = lookup[r].got["delegations"]
    BY <1>0 DEF LookupState
  <2>2. lookup' = [lookup EXCEPT ![r] = l]
    BY <1>2 DEF AnswerWithVaults
  <2>. HIDE DEF g
  <2>3. /\ l \in LookupState /\ l.pc = "answered" /\ l.got = g
        /\ l.start = lookup[r].start /\ l.swapsBefore = lookup[r].swapsBefore
        /\ l.meta = lookup[r].meta
    BY <1>0, <2>1 DEF LookupState
  <2>. HIDE DEF l
  <2>. QED
    BY <1>0, <1>2, <2>1, <2>2, <2>3, LookupMoves DEF AnswerWithVaults, FirstRoundIsBack
<1>3. ASSUME AnswerWithoutVaults(r) PROVE LookupInv'
  <2>. DEFINE l == [lookup[r] EXCEPT !.pc = "answered"]
  <2>1. /\ l \in LookupState /\ l.pc = "answered" /\ l.got = lookup[r].got
        /\ l.start = lookup[r].start /\ l.swapsBefore = lookup[r].swapsBefore
        /\ l.meta = lookup[r].meta
    BY <1>0 DEF LookupState
  <2>2. lookup' = [lookup EXCEPT ![r] = l]
    BY <1>3 DEF AnswerWithoutVaults
  <2>. HIDE DEF l
  <2>. QED
    BY <1>0, <1>3, <2>1, <2>2, LookupMoves DEF AnswerWithoutVaults, FirstRoundIsBack
<1>. QED  BY <1>1, <1>2, <1>3

LEMMA MetaKeeps ==
  ASSUME LookupInv, NEW r \in Requests
  PROVE  ReadMeta(r) \/ StoreMeta(r) => LookupInv'
<1>. DEFINE old == lookup[r]
            q == metaQuery[r]
<1>1. ASSUME ReadMeta(r) PROVE LookupInv'
  <2>. DEFINE m == [q EXCEPT !.value = Visible]
  <2>0. q # None /\ q \in [at: 0..MaxClock, value: Content \cup {Unread}]
    BY <1>1, RequestFacts DEF ReadMeta
  <2>1. Visible \in Content
    BY VisibleEverywhere DEF LookupInv
  <2>2. /\ m \in [at: 0..MaxClock, value: Content \cup {Unread}]
        /\ m.at = q.at /\ m.value = Visible
    BY <2>0, <2>1
  <2>3. metaQuery' = [metaQuery EXCEPT ![r] = m] /\ UNCHANGED <<loadVars, clock, seen, metaCache>>
        /\ lookup' = [lookup EXCEPT ![r] = old]
    BY <1>1, RequestFacts DEF ReadMeta, Visible
  <2>. HIDE DEF m
  <2>4. /\ m.at <= clock /\ Fresh(m.value, m.at)
        /\ old.pc = "reading" => m.at = old.start
    BY <2>0, <2>2, RequestFacts DEF Fresh
  <2>5. /\ metaCache' \in {None} \cup Stamped
        /\ metaCache' # None =>
              metaCache'.at <= clock /\ Fresh(metaCache'.value, metaCache'.at)
    BY <2>3, RequestFacts
  <2>6. /\ old \in LookupState /\ old.start <= clock /\ old.swapsBefore <= swaps
        /\ old.pc # "idle" /\ old.meta # Unread => Fresh(old.meta, old.start - TTL + 1)
        /\ old.pc # "idle" /\ old.swapsBefore = swaps =>
             \A t \in AnswerTables : old.got[t] \in {Unread, Visible}
        /\ old.pc = "answered" => old.got["delegations"] # Unread /\ old.meta # Unread
    BY RequestFacts
  <2>. HIDE DEF old
  <2>. QED  BY <2>2, <2>3, <2>4, <2>5, <2>6, RequestKeeps
<1>2. ASSUME StoreMeta(r) PROVE LookupInv'
  <2>. DEFINE l == [old EXCEPT !.meta = IF old.pc = "reading" THEN q.value ELSE old.meta]
  <2>0. /\ q # None /\ q \in [at: 0..MaxClock, value: Content \cup {Unread}]
        /\ q.value # Unread /\ q.value \in Content /\ old \in LookupState
    BY <1>2, RequestFacts DEF StoreMeta, MetaIsBack
  <2>1. /\ l \in LookupState /\ l.pc = old.pc /\ l.got = old.got
        /\ l.start = old.start /\ l.swapsBefore = old.swapsBefore
        /\ l.meta = IF old.pc = "reading" THEN q.value ELSE old.meta
    BY <2>0 DEF LookupState
  <2>2. /\ lookup' = [lookup EXCEPT ![r] = l]
        /\ metaQuery' = [metaQuery EXCEPT ![r] = None]
        /\ metaCache' = q /\ UNCHANGED <<loadVars, clock, seen>>
    BY <1>2 DEF StoreMeta
  <2>. HIDE DEF l
  <2>3. q \in Stamped /\ q.at <= clock /\ Fresh(q.value, q.at)
    BY <2>0, RequestFacts DEF Stamped
  <2>4. l.pc # "idle" /\ l.meta # Unread => Fresh(l.meta, l.start - TTL + 1)
    <3>1. CASE old.pc = "reading"
      <4>1. q.at = old.start /\ old.start \in Int /\ TTL \in Nat \ {0}
        BY <2>0, <3>1, RequestFacts, LookupAssumption DEF LookupState
      <4>2. old.start - TTL + 1 \in Int /\ old.start - TTL + 1 <= q.at /\ q.at \in Int
        BY <4>1
      <4>3. Fresh(q.value, old.start - TTL + 1)
        BY <2>0, <2>3, <4>2, FreshLater
      <4>. QED  BY <2>1, <3>1, <4>3
    <3>2. CASE old.pc # "reading"
      BY <2>1, <3>2, RequestFacts
    <3>. QED  BY <3>1, <3>2
  <2>5. /\ l.start <= clock /\ l.swapsBefore <= swaps
        /\ l.pc # "idle" /\ l.swapsBefore = swaps =>
             \A t \in AnswerTables : l.got[t] \in {Unread, Visible}
        /\ l.pc = "answered" => l.got["delegations"] # Unread /\ l.meta # Unread
    BY <2>1, RequestFacts
  <2>. QED  BY <2>1, <2>2, <2>3, <2>4, <2>5, RequestKeeps
<1>. QED  BY <1>1, <1>2

LEMMA FailKeeps ==
  ASSUME LookupInv, NEW r \in Requests
  PROVE  FailLookup(r) \/ FailMeta(r) => LookupInv'
<1>0. /\ metaCache \in {None} \cup Stamped
      /\ metaCache # None =>
           metaCache.at <= clock /\ Fresh(metaCache.value, metaCache.at)
      /\ clock \in 0..MaxClock /\ swaps \in 0..MaxSwaps
      /\ MaxClock \in Nat /\ MaxSwaps \in Nat
  BY RequestFacts, LookupAssumption, LoadAssumption
<1>1. ASSUME FailLookup(r) PROVE LookupInv'
  <2>1. /\ NoLookup \in LookupState /\ NoLookup.pc = "idle"
        /\ NoLookup.start = 0 /\ NoLookup.swapsBefore = 0
    BY <1>0 DEF NoLookup, LookupState
  <2>2. PICK m \in {None, metaQuery[r]} : metaQuery' = [metaQuery EXCEPT ![r] = m]
    BY <1>1, RequestFacts DEF FailLookup
  <2>3. /\ m \in {None} \cup [at: 0..MaxClock, value: Content \cup {Unread}]
        /\ m # None => m.at <= clock /\ (m.value # Unread => Fresh(m.value, m.at))
    BY <2>2, RequestFacts
  <2>4. PICK l \in LookupState :
          l.pc = "idle" /\ l.start = 0 /\ l.swapsBefore = 0 /\ lookup' = [lookup EXCEPT ![r] = l]
    BY <1>1, <2>1 DEF FailLookup
  <2>5. UNCHANGED <<loadVars, clock, seen, metaCache>>
    BY <1>1 DEF FailLookup
  <2>6. l.start <= clock /\ l.swapsBefore <= swaps
    BY <1>0, <2>4
  <2>7. /\ metaCache' \in {None} \cup Stamped
        /\ metaCache' # None =>
              metaCache'.at <= clock /\ Fresh(metaCache'.value, metaCache'.at)
    BY <1>0, <2>5
  <2>. QED  BY <2>2, <2>3, <2>4, <2>5, <2>6, <2>7, RequestKeeps
<1>2. ASSUME FailMeta(r) PROVE LookupInv'
  <2>. DEFINE old == lookup[r]
  <2>1. /\ old \in LookupState /\ old.start <= clock /\ old.swapsBefore <= swaps
        /\ old.pc # "idle" /\ old.meta # Unread => Fresh(old.meta, old.start - TTL + 1)
        /\ old.pc # "idle" /\ old.swapsBefore = swaps =>
             \A t \in AnswerTables : old.got[t] \in {Unread, Visible}
        /\ old.pc = "answered" => old.got["delegations"] # Unread /\ old.meta # Unread
        /\ lookup = [lookup EXCEPT ![r] = old]
    BY RequestFacts
  <2>2. /\ lookup' = [lookup EXCEPT ![r] = old]
        /\ metaQuery' = [metaQuery EXCEPT ![r] = None]
        /\ UNCHANGED <<loadVars, clock, seen, metaCache>>
    BY <1>2, <2>1 DEF FailMeta
  <2>. HIDE DEF old
  <2>. QED  BY <1>0, <2>1, <2>2, RequestKeeps
<1>. QED  BY <1>1, <1>2

LEMMA NextLookup == LookupInv /\ [LookupNext]_allVars => LookupInv'
<1>. SUFFICES ASSUME LookupInv, [LookupNext]_allVars PROVE LookupInv'
  OBVIOUS
<1>1. CASE LoadStep
  <2>1. LoadInv'
    BY <1>1, NextStaged, NextAlone DEF LoadStep, LookupInv, LoadInv
  <2>2. /\ swaps \in Nat /\ clock \in 0..MaxClock /\ seen \in [Content -> 0..MaxClock]
        /\ Visible \in Content
    BY VisibleEverywhere, LoadAssumption DEF LookupInv, LookupTypeOK, LoadTypeOK
  <2>3. \/ UNCHANGED <<swaps, public>>
        \/ swaps' = swaps + 1
    BY <1>1 DEF LoadStep, LoadNext, CreateStaging, StartCopy, CommitCopy, Swap, FailLoad
  <2>4. seen' = [seen EXCEPT ![Visible] = clock] /\ UNCHANGED <<clock, metaCache, lookup, metaQuery>>
    BY <1>1 DEF LoadStep
  <2>5. LookupTypeOK'
    BY <2>1, <2>2, <2>4 DEF LookupInv, LookupTypeOK, LoadInv, StagedInv
  <2>. QED  BY <2>1, <2>2, <2>3, <2>4, <2>5, SeenKeeps
<1>2. CASE Tick
  <2>1. LoadInv'
    BY <1>2 DEF Tick, LookupInv, LoadInv, StagedInv, AloneInv, OwnStaging, LoadTypeOK, loadVars
  <2>2. /\ swaps \in Nat /\ clock \in 0..MaxClock /\ seen \in [Content -> 0..MaxClock]
        /\ MaxClock \in Nat
    BY LoadAssumption, LookupAssumption DEF LookupInv, LookupTypeOK, LoadTypeOK
  <2>3. clock' \in 0..MaxClock /\ clock' = clock + 1 /\ UNCHANGED <<swaps, public>>
    BY <1>2, <2>2 DEF Tick, loadVars
  <2>4. seen' = [seen EXCEPT ![Visible] = clock'] /\ UNCHANGED <<metaCache, lookup, metaQuery>>
    BY <1>2, <2>3 DEF Tick
  <2>5. LookupTypeOK'
    BY <2>1, <2>2, <2>3, <2>4 DEF LookupInv, LookupTypeOK, LoadInv, StagedInv
  <2>. QED  BY <2>1, <2>2, <2>3, <2>4, <2>5, SeenKeeps
<1>3. ASSUME NEW r \in Requests,
             \/ StartLookup(r) \/ ReadMeta(r) \/ StoreMeta(r)
             \/ \E t \in FirstTables : ReadTable(r, t)
             \/ AnswerWithVaults(r) \/ AnswerWithoutVaults(r)
             \/ FailLookup(r) \/ FailMeta(r)
      PROVE  LookupInv'
  BY <1>3, StartKeeps, ReadKeeps, MetaKeeps, FailKeeps
<1>4. CASE UNCHANGED allVars
  BY <1>4 DEF allVars, lookupVars, loadVars, LookupInv, LoadInv, StagedInv, AloneInv,
              OwnStaging, LoadTypeOK, LookupTypeOK, ClockInv, MetaInv, MetaIsBack, Fresh,
              Visible, ReadInv
<1>. QED  BY <1>1, <1>2, <1>3, <1>4 DEF LookupNext

LEMMA LookupInvariant == LookupSpec => []LookupInv
  BY InitLookup, NextLookup, PTL DEF LookupSpec

\* Lookups, the meta cache and the queries on their way have their types.
THEOREM LookupTypeCorrect == LookupSpec => []LookupTypeOK
  BY LookupInvariant, PTL DEF LookupInv

\* An answer no swap ran into is of one load, and its meta was visible less
\* than TTL before the request came in, whoever filled the cache and however
\* late the rows came back.
THEOREM AnswersAreOfOneLoad == LookupSpec => []UndisturbedAnswer
<1>1. LookupInv => UndisturbedAnswer
  <2>. SUFFICES ASSUME LookupInv, NEW r \in Requests,
                       lookup[r].pc = "answered", lookup[r].swapsBefore = swaps
                PROVE  /\ TablesOf(r) = {public["delegations"]}
                       /\ \/ lookup[r].meta = Visible
                          \/ seen[lookup[r].meta] > lookup[r].start - TTL
    BY DEF UndisturbedAnswer
  <2>1. /\ \A t \in AnswerTables : lookup[r].got[t] \in {Unread, Visible}
        /\ lookup[r].got["delegations"] # Unread
        /\ lookup[r].meta # Unread /\ lookup[r] \in LookupState
        /\ Fresh(lookup[r].meta, lookup[r].start - TTL + 1)
    BY RequestFacts
  <2>2. /\ Visible \in Content /\ public["delegations"] = Visible
        /\ "delegations" \in AnswerTables /\ Visible # Unread
    BY VisibleEverywhere, LookupAssumption DEF LookupInv, Content
  <2>3. TablesOf(r) = {public["delegations"]}
    BY <2>1, <2>2 DEF TablesOf
  <2>4. lookup[r].meta \in Content /\ lookup[r].start \in Int /\ TTL \in Int
    BY <2>1, LookupAssumption DEF LookupState
  <2>5. seen[lookup[r].meta] \in Int
    BY <2>4, LookupAssumption DEF LookupInv, LookupTypeOK
  <2>. QED  BY <2>1, <2>3, <2>4, <2>5 DEF Fresh
<1>. QED  BY <1>1, LookupInvariant, PTL
=============================================================================
