-------------------------- MODULE EntitlementsProofs --------------------------
(***************************************************************************)
(* What the export pays is what the lookup shows and no more than the      *)
(* ledger's allocation, for any policy, routes, amounts and validators.    *)
(***************************************************************************)
EXTENDS Entitlements, FiniteSetTheorems, TLAPS

-----------------------------------------------------------------------------
(* A sum over a finite set is the number of units in it: one pair for each  *)
(* unit of each element.                                                    *)

Column(f, x) == {x} \X (1..f[x])
Units(f, S) == UNION {Column(f, x) : x \in S}
Total(f, S) == Cardinality(Units(f, S))

\* f is defined and a natural number on all of S.
Counts(f, S) == \A x \in S : f[x] \in Nat

\* An element has as many units as its amount.
LEMMA ColumnCounts ==
  ASSUME NEW f, NEW x, f[x] \in Nat
  PROVE  IsFiniteSet(Column(f, x)) /\ Cardinality(Column(f, x)) = f[x]
<1>1. IsFiniteSet({x}) /\ Cardinality({x}) = 1
  BY FS_Singleton
<1>2. IsFiniteSet(1..f[x]) /\ Cardinality(1..f[x]) = f[x]
  BY FS_Interval
<1>3. /\ IsFiniteSet({x} \X (1..f[x]))
      /\ Cardinality({x} \X (1..f[x])) = 1 * f[x]
  BY <1>1, <1>2, FS_Product
<1>. QED  BY <1>3 DEF Column

\* A finite set has finitely many units.
LEMMA UnitsAreFinite ==
  ASSUME NEW f, NEW S, IsFiniteSet(S), Counts(f, S)
  PROVE  IsFiniteSet(Units(f, S))
<1>. DEFINE columns == {Column(f, x) : x \in S}
            column == [x \in S |-> Column(f, x)]
<1>1. column \in Surjection(S, columns)
  BY DEF Surjection
<1>2. IsFiniteSet(columns)
  <2>. HIDE DEF columns, column
  <2>. QED  BY <1>1, FS_Surjection
<1>3. \A c \in columns : IsFiniteSet(c)
  BY ColumnCounts DEF Counts
<1>4. IsFiniteSet(UNION columns)
  <2>. HIDE DEF columns
  <2>. QED  BY <1>2, <1>3, FS_UNION
<1>. QED  BY <1>4 DEF Units

\* A total of natural numbers is one.
LEMMA TotalIsNat ==
  ASSUME NEW f, NEW S, IsFiniteSet(S), Counts(f, S)
  PROVE  Total(f, S) \in Nat
BY UnitsAreFinite, FS_CardinalityType DEF Total

\* Nothing adds up to zero.
LEMMA TotalOfNone ==
  ASSUME NEW f
  PROVE  Total(f, {}) = 0
<1>1. Units(f, {}) = {}
  BY DEF Units
<1>. QED  BY <1>1, FS_EmptySet DEF Total

\* A total is any one amount and the total of the others.
LEMMA TotalStep ==
  ASSUME NEW f, NEW S, IsFiniteSet(S), Counts(f, S), NEW x \in S
  PROVE  Total(f, S) = f[x] + Total(f, S \ {x})
<1>. DEFINE rest == S \ {x}
<1>1. IsFiniteSet(rest) /\ Counts(f, rest)
  BY FS_RemoveElement DEF Counts
<1>2. Units(f, S) = Column(f, x) \cup Units(f, rest)
  BY DEF Units
<1>3. Column(f, x) \cap Units(f, rest) = {}
  BY DEF Units, Column
<1>4. /\ IsFiniteSet(Column(f, x)) /\ Cardinality(Column(f, x)) = f[x]
      /\ f[x] \in Nat
  BY ColumnCounts DEF Counts
<1>5. IsFiniteSet(Units(f, rest)) /\ Total(f, rest) \in Nat
  BY <1>1, UnitsAreFinite, TotalIsNat
<1>. HIDE DEF rest
<1>6. Cardinality(Units(f, S)) =
        Cardinality(Column(f, x)) + Cardinality(Units(f, rest))
          - Cardinality(Column(f, x) \cap Units(f, rest))
  BY <1>2, <1>4, <1>5, FS_Union
<1>7. Cardinality(Column(f, x) \cap Units(f, rest)) = 0
  BY <1>3, FS_EmptySet
<1>8. Total(f, S) = f[x] + Total(f, rest) - 0
  BY <1>4, <1>6, <1>7 DEF Total
<1>. QED  BY <1>4, <1>5, <1>8 DEF rest

\* The units of a part are among those of the whole.
LEMMA TotalOfPart ==
  ASSUME NEW f, NEW S, IsFiniteSet(S), Counts(f, S), NEW T \in SUBSET S
  PROVE  Total(f, T) <= Total(f, S)
<1>1. Units(f, T) \subseteq Units(f, S)
  BY DEF Units
<1>. QED  BY <1>1, UnitsAreFinite, FS_Subset DEF Total

\* Smaller amounts have a smaller total, or the same.
LEMMA TotalIsMonotone ==
  ASSUME NEW f, NEW g, NEW S, IsFiniteSet(S), Counts(f, S), Counts(g, S),
         \A x \in S : f[x] <= g[x]
  PROVE  Total(f, S) <= Total(g, S)
<1>1. \A x \in S : Column(f, x) \subseteq Column(g, x)
  BY DEF Column, Counts
<1>2. Units(f, S) \subseteq Units(g, S)
  BY <1>1 DEF Units
<1>. QED  BY <1>2, UnitsAreFinite, FS_Subset DEF Total

\* The total depends on the amounts alone.
LEMMA TotalIsSame ==
  ASSUME NEW f, NEW g, NEW S, \A x \in S : f[x] = g[x]
  PROVE  Total(f, S) = Total(g, S)
<1>1. \A x \in S : Column(f, x) = Column(g, x)
  BY DEF Column
<1>2. Units(f, S) = Units(g, S)
  BY <1>1 DEF Units
<1>. QED  BY <1>2 DEF Total

\* Elements of nothing add nothing.
LEMMA TotalOfRest ==
  ASSUME NEW f, NEW S, NEW T \in SUBSET S, \A x \in S \ T : f[x] = 0
  PROVE  Total(f, S) = Total(f, T)
<1>1. \A x \in S \ T : Column(f, x) = {}
  <2>1. 1..0 = {}
    OBVIOUS
  <2>. QED  BY <2>1 DEF Column
<1>2. Units(f, S) = Units(f, T)
  BY <1>1 DEF Units
<1>. QED  BY <1>2 DEF Total

\* Any function that takes the elements of a finite set one by one, in whatever
\* order, and adds their amounts up, computes the total: a smallest set on which
\* it did not would lose an element and be smaller.
LEMMA TotalIsUnique ==
  ASSUME NEW f, NEW S, IsFiniteSet(S), Counts(f, S),
         NEW sum, sum[{}] = 0,
         \A T \in SUBSET S : T # {} =>
           \E x \in T : sum[T] = f[x] + sum[T \ {x}]
  PROVE  sum[S] = Total(f, S)
<1>. DEFINE odd == {T \in SUBSET S : sum[T] # Total(f, T)}
<1>1. odd \subseteq FiniteSubsetsOf(S)
  BY FS_FiniteSubsetsOfFinite
<1>2. ASSUME odd # {}
      PROVE  FALSE
  <2>1. PICK T \in odd : \A U \in odd : <<U, T>> \notin StrictSubsetOrdering(S)
    <3>1. IsWellFoundedOn(StrictSubsetOrdering(S), FiniteSubsetsOf(S))
      BY FS_StrictSubsetOrderingWellFounded
    <3>. HIDE DEF odd
    <3>. QED  BY <1>1, <1>2, <3>1, WFMin
  <2>2. T \in SUBSET S /\ sum[T] # Total(f, T)
    OBVIOUS
  <2>3. T # {}
    BY <2>2, TotalOfNone
  <2>4. PICK x \in T : sum[T] = f[x] + sum[T \ {x}]
    BY <2>2, <2>3
  <2>5. T \ {x} \notin odd
    <3>1. /\ T \ {x} \in SUBSET S /\ T \in SUBSET S
          /\ T \ {x} \subseteq T /\ T \ {x} # T
      BY <2>2, <2>4
    <3>2. <<T \ {x}, T>> \in StrictSubsetOrdering(S)
      BY <3>1 DEF StrictSubsetOrdering
    <3>. QED  BY <2>1, <3>2
  <2>6. sum[T \ {x}] = Total(f, T \ {x})
    BY <2>2, <2>5
  <2>7. IsFiniteSet(T) /\ Counts(f, T)
    BY <2>2, FS_Subset DEF Counts
  <2>8. Total(f, T) = f[x] + Total(f, T \ {x})
    BY <2>7, TotalStep
  <2>. QED  BY <2>2, <2>4, <2>6, <2>8
<1>3. S \notin odd
  BY <1>2
<1>. QED  BY <1>3

\* The recursion that MapThenSumSet is the choice of a solution of.
Adds(f, S, sum) ==
  sum = [T \in SUBSET S |->
           IF T = {} THEN 0
           ELSE f[CHOOSE x \in T : TRUE] + sum[T \ {CHOOSE x \in T : TRUE}]]

\* It has a solution, and any solution is the total.
LEMMA SumIsTotal ==
  ASSUME NEW f, NEW S, IsFiniteSet(S), Counts(f, S)
  PROVE  /\ \E sum : Adds(f, S, sum)
         /\ \A sum : Adds(f, S, sum) => sum[S] = Total(f, S)
<1>. DEFINE Pick(T) == CHOOSE x \in T : TRUE
<1>0. \A T \in SUBSET S : T # {} => Pick(T) \in T /\ T \ {Pick(T)} \in SUBSET S
  OBVIOUS
<1>1. \E sum : Adds(f, S, sum)
  <2>. DEFINE sum == [T \in SUBSET S |-> Total(f, T)]
  <2>1. ASSUME NEW T \in SUBSET S
        PROVE  Total(f, T) = IF T = {} THEN 0 ELSE f[Pick(T)] + sum[T \ {Pick(T)}]
    <3>1. IsFiniteSet(T) /\ Counts(f, T)
      BY FS_Subset DEF Counts
    <3>2. CASE T # {}
      <4>1. Pick(T) \in T /\ T \ {Pick(T)} \in SUBSET S
        BY <1>0, <3>2
      <4>2. sum[T \ {Pick(T)}] = Total(f, T \ {Pick(T)})
        BY <4>1
      <4>. HIDE DEF Pick, sum
      <4>. QED  BY <3>1, <3>2, <4>1, <4>2, TotalStep
    <3>. QED  BY <3>2, TotalOfNone
  <2>2. Adds(f, S, sum)
    BY <2>1 DEF Adds
  <2>. QED  BY <2>2
<1>2. ASSUME NEW sum, Adds(f, S, sum)
      PROVE  sum[S] = Total(f, S)
  <2>1. sum[{}] = 0
    BY <1>2 DEF Adds
  <2>2. \A T \in SUBSET S : T # {} => \E x \in T : sum[T] = f[x] + sum[T \ {x}]
    <3>. TAKE T \in SUBSET S
    <3>. SUFFICES ASSUME T # {} PROVE \E x \in T : sum[T] = f[x] + sum[T \ {x}]
      OBVIOUS
    <3>1. sum[T] = f[Pick(T)] + sum[T \ {Pick(T)}]
      BY <1>2 DEF Adds
    <3>2. Pick(T) \in T
      BY <1>0
    <3>. QED  BY <3>1, <3>2
  <2>. QED  BY <2>1, <2>2, TotalIsUnique
<1>. QED  BY <1>1, <1>2

\* A unit more of one element is a unit more in all.
LEMMA TotalGrows ==
  ASSUME NEW f, NEW g, NEW S, IsFiniteSet(S), Counts(f, S), NEW x \in S,
         NEW n \in Nat, g[x] = f[x] + n, \A y \in S \ {x} : g[y] = f[y]
  PROVE  Total(g, S) = Total(f, S) + n
<1>1. Counts(g, S)
  BY DEF Counts
<1>2. Total(f, S) = f[x] + Total(f, S \ {x})
  BY TotalStep
<1>3. Total(g, S) = g[x] + Total(g, S \ {x})
  BY <1>1, TotalStep
<1>4. Total(g, S \ {x}) = Total(f, S \ {x})
  BY TotalIsSame
<1>5. IsFiniteSet(S \ {x}) /\ Counts(f, S \ {x})
  BY FS_RemoveElement DEF Counts
<1>6. Total(f, S \ {x}) \in Nat /\ f[x] \in Nat
  BY <1>5, TotalIsNat DEF Counts
<1>. QED  BY <1>2, <1>3, <1>4, <1>6

\* One smaller amount among smaller ones makes a smaller total.
LEMMA TotalIsStrict ==
  ASSUME NEW f, NEW g, NEW S, IsFiniteSet(S), Counts(f, S), Counts(g, S),
         \A y \in S : f[y] <= g[y], NEW x \in S, f[x] < g[x]
  PROVE  Total(f, S) < Total(g, S)
<1>1. IsFiniteSet(S \ {x}) /\ Counts(f, S \ {x}) /\ Counts(g, S \ {x})
  BY FS_RemoveElement DEF Counts
<1>2. Total(f, S \ {x}) <= Total(g, S \ {x})
  BY <1>1, TotalIsMonotone
<1>3. Total(f, S) = f[x] + Total(f, S \ {x}) /\ Total(g, S) = g[x] + Total(g, S \ {x})
  BY TotalStep
<1>4. /\ Total(f, S \ {x}) \in Nat /\ Total(g, S \ {x}) \in Nat
      /\ f[x] \in Nat /\ g[x] \in Nat
  BY <1>1, TotalIsNat DEF Counts
<1>. QED  BY <1>2, <1>3, <1>4

\* Two totals add up amount by amount.
LEMMA TotalOfSums ==
  ASSUME NEW f, NEW g, NEW h, NEW S, IsFiniteSet(S), Counts(f, S), Counts(g, S),
         \A x \in S : h[x] = f[x] + g[x]
  PROVE  Total(h, S) = Total(f, S) + Total(g, S)
<1>. DEFINE sum == [T \in SUBSET S |-> Total(f, T) + Total(g, T)]
<1>1. Counts(h, S)
  BY DEF Counts
<1>2. sum[{}] = 0
  BY TotalOfNone
<1>3. \A T \in SUBSET S : T # {} => \E x \in T : sum[T] = h[x] + sum[T \ {x}]
  <2>. TAKE T \in SUBSET S
  <2>. SUFFICES ASSUME T # {} PROVE \E x \in T : sum[T] = h[x] + sum[T \ {x}]
    OBVIOUS
  <2>1. PICK x \in T : TRUE
    OBVIOUS
  <2>2. /\ IsFiniteSet(T) /\ Counts(f, T) /\ Counts(g, T)
        /\ IsFiniteSet(T \ {x}) /\ Counts(f, T \ {x}) /\ Counts(g, T \ {x})
    BY FS_Subset DEF Counts
  <2>3. /\ Total(f, T) = f[x] + Total(f, T \ {x})
        /\ Total(g, T) = g[x] + Total(g, T \ {x})
    BY <2>2, TotalStep
  <2>4. /\ Total(f, T \ {x}) \in Nat /\ Total(g, T \ {x}) \in Nat
        /\ f[x] \in Nat /\ g[x] \in Nat /\ h[x] = f[x] + g[x]
    BY <2>2, TotalIsNat DEF Counts
  <2>5. /\ sum[T] = Total(f, T) + Total(g, T)
        /\ sum[T \ {x}] = Total(f, T \ {x}) + Total(g, T \ {x})
    OBVIOUS
  <2>. HIDE DEF sum
  <2>6. sum[T] = h[x] + sum[T \ {x}]
    BY <2>3, <2>4, <2>5
  <2>. QED  BY <2>6
<1>4. sum[S] = Total(h, S)
  <2>. HIDE DEF sum
  <2>. QED  BY <1>1, <1>2, <1>3, TotalIsUnique
<1>. QED  BY <1>4

-----------------------------------------------------------------------------
\* A route keeps the adjustments of its part well typed.
LEMMA AddIsTyped ==
  ASSUME NEW a \in Adjustments, NEW row \in AcceptedRoutes
  PROVE  Add(a, row) \in Adjustments
<1>. USE DEF Adjustments
<1>1. row.amount \in Nat /\ row.to \in Addresses \cup {None}
  BY EntitlementsAssumption DEF AcceptedRoutes, RouteRow
<1>. QED  BY <1>1 DEF Add

\* What is arranged stays well typed.
LEMMA ArrangeIsTyped ==
  ASSUME NEW a, NEW row \in AcceptedRoutes,
         a \in Arrangements \cup {None}
  PROVE  Arrange(a, row) \in Arrangements \cup {None}
<1>. USE DEF Arrangements
<1>1. row.amount \in Nat /\ row.to \in Addresses \cup {None}
  BY EntitlementsAssumption DEF AcceptedRoutes, RouteRow
<1>2. CASE a = None
  BY <1>1, <1>2 DEF Arrange
<1>3. CASE a # None
  BY <1>1, <1>3 DEF Arrange
<1>. QED  BY <1>2, <1>3

LEMMA InitTyped == Init => EntitlementsTypeOK
<1>. SUFFICES ASSUME Init PROVE EntitlementsTypeOK
  OBVIOUS
<1>1. adjustments \in [Parts -> Adjustments]
  BY DEF Init, NoAdjustments, Adjustments
<1>2. \E positions \in SUBSET Validators : delegation \in [positions -> Amounts]
  <2>1. delegation \in [{} -> Amounts]
    BY DEF Init
  <2>. QED  BY <2>1
<1>3. routes \in 0..MaxRoutes
  BY EntitlementsAssumption DEF Init
<1>. QED  BY <1>1, <1>2, <1>3 DEF Init, EntitlementsTypeOK

LEMMA NextTyped == EntitlementsTypeOK /\ [Next]_vars => EntitlementsTypeOK'
<1>. SUFFICES ASSUME EntitlementsTypeOK, [Next]_vars
              PROVE  EntitlementsTypeOK'
  OBVIOUS
<1>. USE EntitlementsAssumption DEF EntitlementsTypeOK
<1>1. CASE ReadStagePolicy
  BY <1>1 DEF ReadStagePolicy
<1>2. ASSUME NEW row \in AcceptedRoutes, ReadRoute(row)
      PROVE  EntitlementsTypeOK'
  <2>1. adjustments' \in [Parts -> Adjustments]
    <3>1. row.part \in Parts
      BY DEF AcceptedRoutes, RouteRow
    <3>2. Add(adjustments[row.part], row) \in Adjustments
      BY <3>1, AddIsTyped
    <3>. QED  BY <1>2, <3>1, <3>2 DEF ReadRoute
  <2>2. arranged' \in Arrangements \cup {None}
    BY <1>2, ArrangeIsTyped DEF ReadRoute
  <2>3. routeStage' \in RouteStages \cup {None} /\ routes' \in 0..MaxRoutes
    BY <1>2 DEF ReadRoute
  <2>. QED  BY <1>2, <2>1, <2>2, <2>3 DEF ReadRoute
<1>3. CASE RefuseRoute \/ RefuseExchange
  BY <1>3 DEF RefuseRoute, RefuseExchange, Refuse
<1>4. CASE EndRoutes
  BY <1>4 DEF EndRoutes
<1>5. CASE ReadExchanges
  <2>1. exchange' \in {None, "exchange_manual", "hold", "unknown"}
    BY <1>5 DEF ReadExchanges, AcceptedExchangeRows, ExchangeRow
  <2>. QED  BY <1>5, <2>1 DEF ReadExchanges
<1>6. CASE ReadDelegations
  BY <1>6 DEF ReadDelegations
<1>7. ASSUME NEW row \in AccountRow, ReadAccount(row)
      PROVE  EntitlementsTypeOK'
  BY <1>7 DEF ReadAccount, Refuse
<1>8. CASE Restart
  <2>1. adjustments' \in [Parts -> Adjustments]
    BY <1>8 DEF Restart, NoAdjustments, Adjustments
  <2>2. delegation' \in [{} -> Amounts]
    BY <1>8 DEF Restart
  <2>3. routes' \in 0..MaxRoutes
    BY <1>8 DEF Restart
  <2>4. phase' = "stages" /\ policy' = None /\ routeStage' = None /\ arranged' = None
        /\ exchange' = None /\ account' = None
    BY <1>8 DEF Restart
  <2>. HIDE EntitlementsAssumption
  <2>. QED  BY <2>1, <2>2, <2>3, <2>4
<1>9. CASE UNCHANGED vars
  BY <1>9 DEF vars
<1>. QED
  BY <1>1, <1>2, <1>3, <1>4, <1>5, <1>6, <1>7, <1>8, <1>9 DEF Next

-----------------------------------------------------------------------------
\* Amounts of a part's terminal routes are natural numbers.
LEMMA TerminalIsNat ==
  ASSUME EntitlementsTypeOK, NEW p \in Parts
  PROVE  Terminal(p) \in Nat
<1>1. adjustments[p] \in Adjustments
  BY DEF EntitlementsTypeOK
<1>. QED  BY <1>1 DEF Terminal, Adjustments

-----------------------------------------------------------------------------
(* What the files leave behind, and what of it is published.               *)

\* Amounts of a part that are not sent without a person.
Kept(a) == a.hold + a.exchange_manual

RoutedAmounts(adj) == [v \in Validators |-> adj[v].sum]
TerminalAmounts(adj) == [v \in Validators |-> adj[v].not_issuing + adj[v].redistributed]
KeptAmounts(adj) == [v \in Validators |-> Kept(adj[v])]

\* The rows of a part add up to no less than those of them with a treatment of
\* their own.
Bounded(a) == a.not_issuing + a.redistributed + Kept(a) <= a.sum
RoutesInv == \A p \in Parts : Bounded(adjustments[p])

\* Exchange routes are rows that are held or delivered by hand, and no other row
\* is delivered by hand.
ArrangedOf(adj, arr) ==
  /\ arr = None => \A p \in Parts : adj[p].exchange_manual = 0
  /\ arr # None =>
       /\ arr.wallet <= Kept(adj[WalletPart])
       /\ arr.staked <= Total(KeptAmounts(adj), Validators)

ArrangedInv == ArrangedOf(adjustments, arranged)

\* A wallet with exchange routes has a row in an exchange inventory.
ExchangeInv ==
  phase \in {"delegations", "accounts", "published"} /\ exchange = None =>
    arranged = None

\* The published account repeats the files: its components hold the routes, its
\* allocation is what the terminal ones leave or nothing, and an exchange
\* arrangement takes the place of the stage policy.
PublishedOf(acc, adj, arr, pol) ==
  LET leftWallet == acc.gross - (adj[WalletPart].not_issuing
                                   + adj[WalletPart].redistributed)
      leftStaked == acc.staked - Total(TerminalAmounts(adj), Validators)
  IN  /\ acc.gross \in Nat /\ acc.staked \in Nat
      /\ adj[WalletPart].sum <= acc.gross
      /\ Total(RoutedAmounts(adj), Validators) <= acc.staked
      /\ acc.applied <=> pol # None
      /\ acc.allocation.wallet \in {0, leftWallet}
      /\ acc.allocation.staked \in {0, leftStaked}
      /\ arr # None =>
           /\ acc.allocation.wallet = arr.wallet /\ arr.wallet = leftWallet
           /\ acc.allocation.staked = arr.staked /\ arr.staked = leftStaked
           /\ acc.stage = "exchange_manual"
      /\ acc.issuance = "manual_from_reserve" <=> arr # None
      /\ arr = None /\ pol # None =>
           /\ acc.allocation.wallet = leftWallet
           /\ acc.allocation.staked = leftStaked
           /\ acc.stage = pol.stage /\ acc.issuance = pol.issuance
           /\ acc.reason = pol.reason

PublishedInv ==
  phase = "published" => PublishedOf(account, adjustments, arranged, policy)

IInv ==
  /\ EntitlementsTypeOK
  /\ RoutesInv /\ ArrangedInv /\ ExchangeInv /\ PublishedInv

\* A route adds its amount to the rows of its part, and to the kept ones if it
\* is held or delivered by hand.
LEMMA AddAdds ==
  ASSUME NEW a \in Adjustments, NEW row \in AcceptedRoutes
  PROVE  /\ Bounded(a) => Bounded(Add(a, row))
         /\ Add(a, row).exchange_manual =
              a.exchange_manual + (IF row.status = "exchange_manual" THEN row.amount ELSE 0)
         /\ Kept(Add(a, row)) =
              Kept(a) + (IF row.status \in {"hold", "exchange_manual"} THEN row.amount ELSE 0)
         /\ Kept(a) \in Nat /\ row.amount \in Nat
<1>1. row.amount \in Nat
  BY EntitlementsAssumption DEF AcceptedRoutes, RouteRow
<1>2. /\ a.not_issuing \in Nat /\ a.redistributed \in Nat /\ a.hold \in Nat
      /\ a.exchange_manual \in Nat /\ a.sum \in Nat
  BY DEF Adjustments
<1>3. Bounded(a) => Bounded(Add(a, row))
  BY <1>1, <1>2 DEF Bounded, Kept, Add
<1>4. Add(a, row).exchange_manual =
        a.exchange_manual + (IF row.status = "exchange_manual" THEN row.amount ELSE 0)
  BY DEF Add
<1>5. Kept(Add(a, row)) =
        Kept(a) + (IF row.status \in {"hold", "exchange_manual"} THEN row.amount ELSE 0)
  BY <1>1, <1>2 DEF Add, Kept
<1>. QED  BY <1>1, <1>2, <1>3, <1>4, <1>5 DEF Kept

\* Only an exchange route is delivered by hand, and it is held or delivered by
\* hand.
LEMMA ManualRoutes ==
  ASSUME NEW row \in AcceptedRoutes
  PROVE  /\ row.part \in Parts
         /\ row.status = "exchange_manual" => row.treatment = "manual_from_reserve"
         /\ row.treatment = "manual_from_reserve" =>
              row.status \in {"hold", "exchange_manual"}
BY DEF AcceptedRoutes, RouteAccepted, RouteRow, TreatmentOf

LEMMA KeptCounts ==
  ASSUME NEW adj \in [Parts -> Adjustments]
  PROVE  /\ Counts(KeptAmounts(adj), Validators)
         /\ Counts(TerminalAmounts(adj), Validators)
         /\ Counts(RoutedAmounts(adj), Validators)
<1>1. \A v \in Validators : adj[v] \in Adjustments
  BY DEF Parts
<1>. QED  BY <1>1 DEF Counts, KeptAmounts, TerminalAmounts, RoutedAmounts, Kept, Adjustments

\* A route keeps what is arranged among what is kept.
LEMMA RouteKeepsArranged ==
  ASSUME NEW adj \in [Parts -> Adjustments], NEW arr, NEW row \in AcceptedRoutes,
         arr \in Arrangements \cup {None},
         ArrangedOf(adj, arr)
  PROVE  ArrangedOf([adj EXCEPT ![row.part] = Add(@, row)], Arrange(arr, row))
<1>. DEFINE part == row.part
            after == Add(adj[part], row)
            adj2 == [adj EXCEPT ![part] = after]
            arr2 == Arrange(arr, row)
            n == IF row.status \in {"hold", "exchange_manual"} THEN row.amount ELSE 0
            handed == IF row.treatment = "manual_from_reserve" THEN row.amount ELSE 0
<1>1. part \in Parts /\ adj[part] \in Adjustments /\ row.amount \in Nat
  BY ManualRoutes, AddAdds
<1>2. n \in Nat /\ handed \in Nat /\ handed <= n
  BY <1>1, ManualRoutes
<1>3. /\ Kept(after) = Kept(adj[part]) + n
      /\ after.exchange_manual =
           adj[part].exchange_manual
             + (IF row.status = "exchange_manual" THEN row.amount ELSE 0)
  BY <1>1, AddAdds
<1>4. adj2 = [adj EXCEPT ![part] = Add(@, row)]
  OBVIOUS
<1>5. adj2[part] = after /\ \A p \in Parts \ {part} : adj2[p] = adj[p]
  BY <1>1
<1>. HIDE DEF adj2, after
<1>6. ASSUME arr2 = None
      PROVE  \A p \in Parts : adj2[p].exchange_manual = 0
  <2>1. arr = None /\ row.treatment # "manual_from_reserve"
    <3>1. arr2 \in Arrangements \/ (arr2 = arr /\ row.treatment # "manual_from_reserve")
      <4>1. CASE row.treatment = "manual_from_reserve"
        <5>1. row.amount \in Nat /\ row.to \in Addresses \cup {None}
          BY <1>1 DEF AcceptedRoutes, RouteRow
        <5>2. arr2 \in Arrangements
          BY <4>1, <5>1 DEF Arrange, Arrangements
        <5>. QED  BY <5>2
      <4>. QED  BY <4>1 DEF Arrange
    <3>. QED  BY <1>6, <3>1, EntitlementsAssumption
  <2>2. row.status # "exchange_manual"
    BY <2>1, ManualRoutes
  <2>3. \A p \in Parts : adj[p].exchange_manual = 0
    BY <2>1 DEF ArrangedOf
  <2>4. after.exchange_manual = 0
    BY <1>1, <1>3, <2>2, <2>3
  <2>. QED  BY <1>5, <2>3, <2>4
<1>7. ASSUME arr2 # None
      PROVE  /\ arr2.wallet <= Kept(adj2[WalletPart])
             /\ arr2.staked <= Total(KeptAmounts(adj2), Validators)
  <2>. DEFINE wallet == IF arr = None THEN 0 ELSE arr.wallet
              staked == IF arr = None THEN 0 ELSE arr.staked
              onWallet == part = WalletPart
              total == Total(KeptAmounts(adj), Validators)
  <2>1. wallet \in Nat /\ staked \in Nat
    BY DEF Arrangements
  <2>2. /\ Kept(adj[WalletPart]) \in Nat /\ total \in Nat
        /\ wallet <= Kept(adj[WalletPart]) /\ staked <= total
    <3>1. Kept(adj[WalletPart]) \in Nat
      BY AddAdds DEF Parts
    <3>2. total \in Nat
      BY EntitlementsAssumption, KeptCounts, TotalIsNat
    <3>3. wallet <= Kept(adj[WalletPart]) /\ staked <= total
      BY <3>1, <3>2 DEF ArrangedOf
    <3>. QED  BY <3>1, <3>2, <3>3
  <2>3. /\ arr2.wallet = wallet + (IF onWallet THEN handed ELSE 0)
        /\ arr2.staked = staked + (IF onWallet THEN 0 ELSE handed)
    <3>1. CASE row.treatment = "manual_from_reserve"
      BY <3>1 DEF Arrange
    <3>2. CASE row.treatment # "manual_from_reserve"
      BY <1>7, <2>1, <3>2 DEF Arrange
    <3>. QED  BY <3>1, <3>2
  <2>4. Kept(adj2[WalletPart]) = Kept(adj[WalletPart]) + (IF onWallet THEN n ELSE 0)
    BY <1>3, <1>5, <2>2 DEF Parts
  <2>5. Total(KeptAmounts(adj2), Validators) = total + (IF onWallet THEN 0 ELSE n)
    <3>1. CASE onWallet
      <4>1. \A v \in Validators : KeptAmounts(adj2)[v] = KeptAmounts(adj)[v]
        BY <1>5, <3>1, EntitlementsAssumption DEF KeptAmounts, Parts
      <4>. QED  BY <2>2, <3>1, <4>1, TotalIsSame
    <3>2. CASE ~onWallet
      <4>1. part \in Validators
        BY <1>1, <3>2 DEF Parts
      <4>2. KeptAmounts(adj2)[part] = KeptAmounts(adj)[part] + n
        BY <1>3, <1>5, <4>1 DEF KeptAmounts
      <4>3. \A v \in Validators \ {part} : KeptAmounts(adj2)[v] = KeptAmounts(adj)[v]
        BY <1>5 DEF KeptAmounts, Parts
      <4>4. IsFiniteSet(Validators) /\ Counts(KeptAmounts(adj), Validators)
        BY EntitlementsAssumption, KeptCounts
      <4>. HIDE DEF part, n
      <4>5. Total(KeptAmounts(adj2), Validators) = total + n
        BY <1>2, <4>1, <4>2, <4>3, <4>4, TotalGrows
      <4>. QED  BY <3>2, <4>5
    <3>. QED  BY <3>1, <3>2
  <2>. HIDE DEF wallet, staked, total, onWallet, n, handed, arr2
  <2>. QED  BY <1>2, <2>1, <2>2, <2>3, <2>4, <2>5
<1>. QED  BY <1>4, <1>6, <1>7 DEF ArrangedOf

LEMMA NextRoutes == EntitlementsTypeOK /\ RoutesInv /\ [Next]_vars => RoutesInv'
<1>. SUFFICES ASSUME EntitlementsTypeOK, RoutesInv, [Next]_vars
              PROVE  RoutesInv'
  OBVIOUS
<1>1. ASSUME NEW row \in AcceptedRoutes, ReadRoute(row)
      PROVE  RoutesInv'
  <2>1. row.part \in Parts /\ adjustments \in [Parts -> Adjustments]
    BY ManualRoutes DEF EntitlementsTypeOK
  <2>2. Bounded(Add(adjustments[row.part], row))
    BY <2>1, AddAdds DEF RoutesInv
  <2>3. \A p \in Parts : adjustments'[p] = IF p = row.part THEN Add(adjustments[p], row)
                                           ELSE adjustments[p]
    BY <1>1, <2>1 DEF ReadRoute
  <2>. QED  BY <2>2, <2>3 DEF RoutesInv
<1>2. CASE Restart
  <2>1. Bounded(NoAdjustments)
    BY DEF Bounded, Kept, NoAdjustments
  <2>2. \A p \in Parts : adjustments'[p] = NoAdjustments
    BY <1>2 DEF Restart
  <2>. QED  BY <2>1, <2>2 DEF RoutesInv
<1>3. ASSUME ~Restart, ~\E row \in AcceptedRoutes : ReadRoute(row)
      PROVE  adjustments' = adjustments
  BY <1>3 DEF Next, vars, ReadStagePolicy, EndRoutes, RefuseRoute, ReadExchanges,
              RefuseExchange, ReadDelegations, ReadAccount, Refuse
<1>. QED  BY <1>1, <1>2, <1>3 DEF RoutesInv

LEMMA NextArranged == EntitlementsTypeOK /\ ArrangedInv /\ [Next]_vars => ArrangedInv'
<1>. SUFFICES ASSUME EntitlementsTypeOK, ArrangedInv, [Next]_vars
              PROVE  ArrangedOf(adjustments', arranged')
  BY DEF ArrangedInv
<1>1. ASSUME NEW row \in AcceptedRoutes, ReadRoute(row)
      PROVE  ArrangedOf(adjustments', arranged')
  <2>1. adjustments' = [adjustments EXCEPT ![row.part] = Add(@, row)]
    BY <1>1 DEF ReadRoute
  <2>2. arranged' = Arrange(arranged, row)
    BY <1>1 DEF ReadRoute
  <2>3. ArrangedOf([adjustments EXCEPT ![row.part] = Add(@, row)], Arrange(arranged, row))
    BY RouteKeepsArranged DEF EntitlementsTypeOK, ArrangedInv
  <2>. QED  BY <2>1, <2>2, <2>3
<1>2. CASE Restart
  BY <1>2 DEF Restart, ArrangedOf, NoAdjustments
<1>3. ASSUME ~Restart, ~\E row \in AcceptedRoutes : ReadRoute(row)
      PROVE  adjustments' = adjustments /\ arranged' = arranged
  BY <1>3 DEF Next, vars, ReadStagePolicy, EndRoutes, RefuseRoute, ReadExchanges,
              RefuseExchange, ReadDelegations, ReadAccount, Refuse
<1>. QED  BY <1>1, <1>2, <1>3 DEF ArrangedInv

LEMMA NextExchange == ExchangeInv /\ [Next]_vars => ExchangeInv'
<1>. SUFFICES ASSUME ExchangeInv, [Next]_vars
              PROVE  ExchangeInv'
  OBVIOUS
<1>1. CASE ReadExchanges
  <2>1. exchange' = None => arranged = None
    BY <1>1, EntitlementsAssumption DEF ReadExchanges, AcceptedExchangeRows, ExchangeRow
  <2>. QED  BY <1>1, <2>1 DEF ReadExchanges, ExchangeInv
<1>2. ASSUME NEW row \in AccountRow, ReadAccount(row)
      PROVE  ExchangeInv'
  BY <1>2 DEF ReadAccount, Refuse, ExchangeInv
<1>3. CASE ReadDelegations \/ UNCHANGED vars
  BY <1>3 DEF ReadDelegations, vars, ExchangeInv
<1>4. ASSUME ~(ReadExchanges \/ ReadDelegations \/ UNCHANGED vars),
             ~\E row \in AccountRow : ReadAccount(row)
      PROVE  phase' \notin {"delegations", "accounts", "published"}
  BY <1>4 DEF Next, vars, ReadStagePolicy, EndRoutes, RefuseRoute, ReadRoute,
              RefuseExchange, Restart, Refuse
<1>. QED  BY <1>1, <1>2, <1>3, <1>4 DEF ExchangeInv
-----------------------------------------------------------------------------
(* The sums of the two programs are totals.                                *)

\* Amounts of a part's routes are natural numbers.
LEMMA RoutedIsNat ==
  ASSUME EntitlementsTypeOK, NEW p \in Parts
  PROVE  Routed(p) \in Nat
<1>1. adjustments[p] \in Adjustments
  BY DEF EntitlementsTypeOK
<1>. QED  BY <1>1 DEF Routed, Adjustments

\* Positions are with validators, in natural amounts.
LEMMA PositionsTyped ==
  ASSUME EntitlementsTypeOK
  PROVE  /\ Positions \in SUBSET Validators /\ IsFiniteSet(Positions)
         /\ \A v \in Positions : v \in Parts /\ v # WalletPart /\ delegation[v] \in Nat
<1>1. PICK positions \in SUBSET Validators : delegation \in [positions -> Amounts]
  BY DEF EntitlementsTypeOK
<1>2. Positions = positions
  BY <1>1 DEF Positions
<1>3. \A v \in positions : delegation[v] \in Amounts
  BY <1>1
<1>4. IsFiniteSet(positions)
  BY EntitlementsAssumption, FS_Subset
<1>. QED  BY <1>2, <1>3, <1>4, EntitlementsAssumption DEF Parts

LEMMA GrossIsNat ==
  ASSUME EntitlementsTypeOK
  PROVE  \A v \in Positions : Gross(v) = delegation[v] /\ Gross(v) \in Nat
BY PositionsTyped DEF Gross

LEMMA ExpectedSharesIsNat ==
  ASSUME EntitlementsTypeOK
  PROVE  \A v \in Positions :
           /\ ExpectedShares(v) \in Nat
           /\ ExpectedShares(v) =
                AtLeast0(delegation[v] - Terminal(v) - adjustments[v].exchange_manual)
<1>. TAKE v \in Positions
<1>1. v \in Parts /\ Gross(v) = delegation[v] /\ delegation[v] \in Nat
  BY PositionsTyped, GrossIsNat
<1>2. Terminal(v) \in Nat
  BY <1>1, TerminalIsNat
<1>3. adjustments[v].exchange_manual \in Nat
  BY <1>1 DEF EntitlementsTypeOK, Adjustments
<1>. QED  BY <1>1, <1>2, <1>3 DEF ExpectedShares, AtLeast0

LEMMA PendingSharesIsNat ==
  ASSUME EntitlementsTypeOK
  PROVE  \A v \in Positions :
           PendingShares(v) \in Nat /\ PendingShares(v) <= ExpectedShares(v)
BY ExpectedSharesIsNat DEF PendingShares

\* What MapThenSumSet adds up of the terminal routes is the total.
LEMMA TerminalSum ==
  ASSUME EntitlementsTypeOK, NEW S \in SUBSET Validators
  PROVE  MapThenSumSet(Terminal, S) = Total([v \in S |-> Terminal(v)], S)
<1>. DEFINE f == [v \in S |-> Terminal(v)]
            Sums(g) == g = [T \in SUBSET S |->
                              IF T = {} THEN 0
                              ELSE Terminal(CHOOSE x \in T : TRUE)
                                     + g[T \ {CHOOSE x \in T : TRUE}]]
<1>1. IsFiniteSet(S) /\ Counts(f, S)
  BY PositionsTyped, EntitlementsAssumption, FS_Subset, TerminalIsNat DEF Counts, Parts
<1>2. PICK sum : Adds(f, S, sum)
  BY <1>1, SumIsTotal
<1>3. \A g : Sums(g) <=> Adds(f, S, g)
  BY DEF Adds
<1>4. Sums(CHOOSE g : Sums(g))
  <2>1. Sums(sum)
    BY <1>2, <1>3
  <2>. HIDE DEF Sums
  <2>. QED  BY <2>1
<1>5. MapThenSumSet(Terminal, S) = (CHOOSE g : Sums(g))[S]
  BY DEF MapThenSumSet, MapThenFoldSet
<1>. HIDE DEF Sums
<1>. QED  BY <1>1, <1>3, <1>4, <1>5, SumIsTotal

\* Likewise of all routes.
LEMMA RoutedSum ==
  ASSUME EntitlementsTypeOK, NEW S \in SUBSET Validators
  PROVE  MapThenSumSet(Routed, S) = Total([v \in S |-> Routed(v)], S)
<1>. DEFINE f == [v \in S |-> Routed(v)]
            Sums(g) == g = [T \in SUBSET S |->
                              IF T = {} THEN 0
                              ELSE Routed(CHOOSE x \in T : TRUE)
                                     + g[T \ {CHOOSE x \in T : TRUE}]]
<1>1. IsFiniteSet(S) /\ Counts(f, S)
  BY PositionsTyped, EntitlementsAssumption, FS_Subset, RoutedIsNat DEF Counts, Parts
<1>2. PICK sum : Adds(f, S, sum)
  BY <1>1, SumIsTotal
<1>3. \A g : Sums(g) <=> Adds(f, S, g)
  BY DEF Adds
<1>4. Sums(CHOOSE g : Sums(g))
  <2>1. Sums(sum)
    BY <1>2, <1>3
  <2>. HIDE DEF Sums
  <2>. QED  BY <2>1
<1>5. MapThenSumSet(Routed, S) = (CHOOSE g : Sums(g))[S]
  BY DEF MapThenSumSet, MapThenFoldSet
<1>. HIDE DEF Sums
<1>. QED  BY <1>1, <1>3, <1>4, <1>5, SumIsTotal

\* Likewise of the positions.
LEMMA GrossSum ==
  ASSUME EntitlementsTypeOK, NEW S \in SUBSET Positions
  PROVE  MapThenSumSet(Gross, S) = Total([v \in S |-> Gross(v)], S)
<1>. DEFINE f == [v \in S |-> Gross(v)]
            Sums(g) == g = [T \in SUBSET S |->
                              IF T = {} THEN 0
                              ELSE Gross(CHOOSE x \in T : TRUE)
                                     + g[T \ {CHOOSE x \in T : TRUE}]]
<1>1. IsFiniteSet(S) /\ Counts(f, S)
  BY PositionsTyped, EntitlementsAssumption, FS_Subset, GrossIsNat DEF Counts, Parts
<1>2. PICK sum : Adds(f, S, sum)
  BY <1>1, SumIsTotal
<1>3. \A g : Sums(g) <=> Adds(f, S, g)
  BY DEF Adds
<1>4. Sums(CHOOSE g : Sums(g))
  <2>1. Sums(sum)
    BY <1>2, <1>3
  <2>. HIDE DEF Sums
  <2>. QED  BY <2>1
<1>5. MapThenSumSet(Gross, S) = (CHOOSE g : Sums(g))[S]
  BY DEF MapThenSumSet, MapThenFoldSet
<1>. HIDE DEF Sums
<1>. QED  BY <1>1, <1>3, <1>4, <1>5, SumIsTotal

\* Likewise of the expected shares.
LEMMA ExpectedSharesSum ==
  ASSUME EntitlementsTypeOK, NEW S \in SUBSET Positions
  PROVE  MapThenSumSet(ExpectedShares, S) = Total([v \in S |-> ExpectedShares(v)], S)
<1>. DEFINE f == [v \in S |-> ExpectedShares(v)]
            Sums(g) == g = [T \in SUBSET S |->
                              IF T = {} THEN 0
                              ELSE ExpectedShares(CHOOSE x \in T : TRUE)
                                     + g[T \ {CHOOSE x \in T : TRUE}]]
<1>1. IsFiniteSet(S) /\ Counts(f, S)
  BY PositionsTyped, EntitlementsAssumption, FS_Subset, ExpectedSharesIsNat DEF Counts, Parts
<1>2. PICK sum : Adds(f, S, sum)
  BY <1>1, SumIsTotal
<1>3. \A g : Sums(g) <=> Adds(f, S, g)
  BY DEF Adds
<1>4. Sums(CHOOSE g : Sums(g))
  <2>1. Sums(sum)
    BY <1>2, <1>3
  <2>. HIDE DEF Sums
  <2>. QED  BY <2>1
<1>5. MapThenSumSet(ExpectedShares, S) = (CHOOSE g : Sums(g))[S]
  BY DEF MapThenSumSet, MapThenFoldSet
<1>. HIDE DEF Sums
<1>. QED  BY <1>1, <1>3, <1>4, <1>5, SumIsTotal

\* Likewise of the pending shares.
LEMMA PendingSharesSum ==
  ASSUME EntitlementsTypeOK, NEW S \in SUBSET Positions
  PROVE  MapThenSumSet(PendingShares, S) = Total([v \in S |-> PendingShares(v)], S)
<1>. DEFINE f == [v \in S |-> PendingShares(v)]
            Sums(g) == g = [T \in SUBSET S |->
                              IF T = {} THEN 0
                              ELSE PendingShares(CHOOSE x \in T : TRUE)
                                     + g[T \ {CHOOSE x \in T : TRUE}]]
<1>1. IsFiniteSet(S) /\ Counts(f, S)
  BY PositionsTyped, EntitlementsAssumption, FS_Subset, PendingSharesIsNat DEF Counts, Parts
<1>2. PICK sum : Adds(f, S, sum)
  BY <1>1, SumIsTotal
<1>3. \A g : Sums(g) <=> Adds(f, S, g)
  BY DEF Adds
<1>4. Sums(CHOOSE g : Sums(g))
  <2>1. Sums(sum)
    BY <1>2, <1>3
  <2>. HIDE DEF Sums
  <2>. QED  BY <2>1
<1>5. MapThenSumSet(PendingShares, S) = (CHOOSE g : Sums(g))[S]
  BY DEF MapThenSumSet, MapThenFoldSet
<1>. HIDE DEF Sums
<1>. QED  BY <1>1, <1>3, <1>4, <1>5, SumIsTotal

-----------------------------------------------------------------------------
\* The sums of the validators' routes, as totals of what was read.
LEMMA VaultSums ==
  ASSUME EntitlementsTypeOK
  PROVE  /\ TerminalOfVaults = Total(TerminalAmounts(adjustments), Validators)
         /\ RoutedOfVaults = Total(RoutedAmounts(adjustments), Validators)
         /\ MapThenSumSet(Terminal, Positions) =
              Total(TerminalAmounts(adjustments), Positions)
         /\ TerminalOfVaults \in Nat /\ RoutedOfVaults \in Nat
         /\ MapThenSumSet(Terminal, Positions) \in Nat
         /\ MapThenSumSet(Terminal, Positions) <= TerminalOfVaults
<1>1. \A v \in Validators : /\ TerminalAmounts(adjustments)[v] = Terminal(v)
                            /\ RoutedAmounts(adjustments)[v] = Routed(v)
  BY DEF TerminalAmounts, RoutedAmounts, Terminal, Routed
<1>2. Positions \in SUBSET Validators /\ IsFiniteSet(Positions)
  BY PositionsTyped
<1>3. TerminalOfVaults = Total(TerminalAmounts(adjustments), Validators)
  <2>1. TerminalOfVaults = Total([v \in Validators |-> Terminal(v)], Validators)
    BY TerminalSum DEF TerminalOfVaults
  <2>. QED  BY <1>1, <2>1, TotalIsSame
<1>4. RoutedOfVaults = Total(RoutedAmounts(adjustments), Validators)
  <2>1. RoutedOfVaults = Total([v \in Validators |-> Routed(v)], Validators)
    BY RoutedSum DEF RoutedOfVaults
  <2>. QED  BY <1>1, <2>1, TotalIsSame
<1>5. MapThenSumSet(Terminal, Positions) = Total(TerminalAmounts(adjustments), Positions)
  <2>1. MapThenSumSet(Terminal, Positions)
          = Total([v \in Positions |-> Terminal(v)], Positions)
    BY <1>2, TerminalSum
  <2>2. \A v \in Positions :
          [u \in Positions |-> Terminal(u)][v] = TerminalAmounts(adjustments)[v]
    BY <1>1, <1>2
  <2>. QED  BY <2>1, <2>2, TotalIsSame
<1>6. /\ Counts(TerminalAmounts(adjustments), Validators)
      /\ Counts(RoutedAmounts(adjustments), Validators)
      /\ Counts(TerminalAmounts(adjustments), Positions)
  BY <1>2, KeptCounts DEF EntitlementsTypeOK, Counts
<1>7. IsFiniteSet(Validators)
  BY EntitlementsAssumption
<1>. QED
  BY <1>2, <1>3, <1>4, <1>5, <1>6, <1>7, TotalIsNat, TotalOfPart

\* Terminal routes are routes, of a part and of all.
LEMMA TerminalIsRouted ==
  ASSUME EntitlementsTypeOK, RoutesInv
  PROVE  /\ \A p \in Parts : /\ Terminal(p) + Kept(adjustments[p]) <= Routed(p)
                             /\ Terminal(p) \in Nat /\ Routed(p) \in Nat
                             /\ adjustments[p].hold \in Nat
                             /\ adjustments[p].exchange_manual \in Nat
                             /\ Kept(adjustments[p]) =
                                  adjustments[p].hold + adjustments[p].exchange_manual
         /\ TerminalOfVaults <= RoutedOfVaults
<1>1. \A p \in Parts : /\ Terminal(p) + Kept(adjustments[p]) <= Routed(p)
                       /\ Terminal(p) \in Nat /\ Routed(p) \in Nat
                       /\ adjustments[p].hold \in Nat
                       /\ adjustments[p].exchange_manual \in Nat
                       /\ Kept(adjustments[p]) =
                            adjustments[p].hold + adjustments[p].exchange_manual
  <2>. TAKE p \in Parts
  <2>1. adjustments[p] \in Adjustments
    BY DEF EntitlementsTypeOK
  <2>2. Bounded(adjustments[p])
    BY DEF RoutesInv
  <2>. QED  BY <2>1, <2>2 DEF Bounded, Terminal, Routed, Kept, Adjustments
<1>2. \A v \in Validators :
        TerminalAmounts(adjustments)[v] <= RoutedAmounts(adjustments)[v]
  <2>. TAKE v \in Validators
  <2>1. v \in Parts
    BY DEF Parts
  <2>2. /\ TerminalAmounts(adjustments)[v] = Terminal(v)
        /\ RoutedAmounts(adjustments)[v] = Routed(v)
    BY DEF TerminalAmounts, RoutedAmounts, Terminal, Routed
  <2>. QED  BY <1>1, <2>1, <2>2
<1>3. /\ Counts(TerminalAmounts(adjustments), Validators)
      /\ Counts(RoutedAmounts(adjustments), Validators)
      /\ IsFiniteSet(Validators)
  BY KeptCounts, EntitlementsAssumption DEF EntitlementsTypeOK
<1>4. TerminalOfVaults <= RoutedOfVaults
  BY <1>2, <1>3, VaultSums, TotalIsMonotone
<1>. QED  BY <1>1, <1>4

\* What an accepted account is published as.
LEMMA AcceptedIsPublished ==
  ASSUME EntitlementsTypeOK, RoutesInv, NEW row \in AccountRow, AccountAccepted(row)
  PROVE  PublishedOf(Published(row), adjustments, arranged, policy)
<1>. DEFINE acc == Published(row)
            leftWallet == row.gross - Terminal(WalletPart)
            leftStaked == row.staked - TerminalOfVaults
<1>1. /\ acc.gross = row.gross /\ acc.staked = row.staked
      /\ acc.applied <=> policy # None
      /\ acc.allocation = Allocation(row)
  BY DEF Published
<1>2. row.gross \in Nat /\ row.staked \in Nat
  BY EntitlementsAssumption DEF AccountRow
<1>3. Routed(WalletPart) <= row.gross /\ RoutedOfVaults <= row.staked
  BY DEF AccountAccepted, WithinSource
<1>4. leftWallet \in Nat /\ leftStaked \in Nat
  <2>1. /\ Terminal(WalletPart) \in Nat /\ Routed(WalletPart) \in Nat
        /\ Terminal(WalletPart) <= Routed(WalletPart)
    <3>1. WalletPart \in Parts
      BY DEF Parts
    <3>. QED  BY <3>1, TerminalIsRouted
  <2>2. /\ TerminalOfVaults \in Nat /\ RoutedOfVaults \in Nat
        /\ TerminalOfVaults <= RoutedOfVaults
    BY VaultSums, TerminalIsRouted
  <2>. QED  BY <1>2, <1>3, <2>1, <2>2
<1>5. /\ leftWallet = acc.gross - (adjustments[WalletPart].not_issuing
                                     + adjustments[WalletPart].redistributed)
      /\ leftStaked = acc.staked - Total(TerminalAmounts(adjustments), Validators)
      /\ adjustments[WalletPart].sum <= acc.gross
      /\ Total(RoutedAmounts(adjustments), Validators) <= acc.staked
  BY <1>1, <1>3, VaultSums DEF Terminal, Routed
<1>6. Allocation(row) =
        IF arranged # None THEN [wallet |-> arranged.wallet, staked |-> arranged.staked]
        ELSE IF policy = None THEN [wallet |-> 0, staked |-> 0]
        ELSE [wallet |-> leftWallet, staked |-> leftStaked]
  <2>1. AtLeast0(leftWallet) = leftWallet /\ AtLeast0(leftStaked) = leftStaked
    BY <1>4 DEF AtLeast0
  <2>. QED  BY <2>1 DEF Allocation
<1>7. arranged # None =>
        /\ arranged.wallet = leftWallet /\ arranged.staked = leftStaked
        /\ acc.stage = "exchange_manual"
  BY DEF AccountAccepted, Covered, Published
<1>8. acc.issuance = "manual_from_reserve" <=> arranged # None
  <2>1. policy # None => policy.issuance \in {"issue", "not_issued"}
    BY DEF EntitlementsTypeOK, Policies
  <2>. QED  BY <2>1 DEF Published
<1>9. arranged = None /\ policy # None =>
        /\ acc.stage = policy.stage /\ acc.issuance = policy.issuance
        /\ acc.reason = policy.reason
  BY DEF Published
<1>. HIDE DEF acc, leftWallet, leftStaked
<1>10. /\ acc.allocation.wallet \in {0, leftWallet}
       /\ acc.allocation.staked \in {0, leftStaked}
       /\ arranged # None => /\ acc.allocation.wallet = arranged.wallet
                             /\ acc.allocation.staked = arranged.staked
       /\ arranged = None /\ policy # None => /\ acc.allocation.wallet = leftWallet
                                              /\ acc.allocation.staked = leftStaked
  BY <1>1, <1>6, <1>7
<1>. QED
  <2>1. PublishedOf(acc, adjustments, arranged, policy)
    BY <1>1, <1>2, <1>5, <1>7, <1>8, <1>9, <1>10 DEF PublishedOf
  <2>. QED  BY <2>1 DEF acc

LEMMA NextPublished ==
  EntitlementsTypeOK /\ RoutesInv /\ PublishedInv /\ [Next]_vars => PublishedInv'
<1>. SUFFICES ASSUME EntitlementsTypeOK, RoutesInv, PublishedInv, [Next]_vars,
                     phase' = "published"
              PROVE  PublishedOf(account', adjustments', arranged', policy')
  BY DEF PublishedInv
<1>1. ASSUME NEW row \in AccountRow, ReadAccount(row)
      PROVE  PublishedOf(account', adjustments', arranged', policy')
  <2>1. AccountAccepted(row) /\ account' = Published(row)
    BY <1>1 DEF ReadAccount, Refuse
  <2>2. adjustments' = adjustments /\ arranged' = arranged /\ policy' = policy
    BY <1>1 DEF ReadAccount, Refuse
  <2>3. PublishedOf(Published(row), adjustments, arranged, policy)
    BY <2>1, AcceptedIsPublished
  <2>. QED  BY <2>1, <2>2, <2>3
<1>2. CASE UNCHANGED vars
  BY <1>2 DEF vars, PublishedInv
<1>3. ASSUME ~(\E row \in AccountRow : ReadAccount(row)), ~UNCHANGED vars
      PROVE  FALSE
  BY <1>3 DEF Next, ReadStagePolicy, EndRoutes, RefuseRoute, ReadExchanges,
              RefuseExchange, ReadDelegations, Restart, ReadRoute, Refuse,
              EntitlementsTypeOK
<1>. QED  BY <1>1, <1>2, <1>3

-----------------------------------------------------------------------------
(* The properties.                                                         *)

\* What the invariant says of a published account, in the terms of the lookup
\* and the export.
LEMMA PublishedFacts ==
  ASSUME IInv, phase = "published"
  PROVE  /\ account.gross \in Nat /\ account.staked \in Nat
         /\ account.allocation.wallet \in Nat /\ account.allocation.staked \in Nat
         /\ account.allocation.wallet \in {0, account.gross - Terminal(WalletPart)}
         /\ account.allocation.staked \in {0, account.staked - TerminalOfVaults}
         /\ Terminal(WalletPart) \in Nat /\ TerminalOfVaults \in Nat
         /\ Terminal(WalletPart) <= account.gross /\ TerminalOfVaults <= account.staked
         /\ Rest(WalletPart) \in Nat
<1>. USE DEF IInv
<1>1. /\ account.gross \in Nat /\ account.staked \in Nat
      /\ account.allocation.wallet \in {0, account.gross - Terminal(WalletPart)}
      /\ account.allocation.staked \in {0, account.staked - TerminalOfVaults}
      /\ Routed(WalletPart) <= account.gross /\ RoutedOfVaults <= account.staked
  BY VaultSums DEF PublishedInv, PublishedOf, Terminal, Routed
<1>2. WalletPart \in Parts
  BY DEF Parts
<1>3. /\ Terminal(WalletPart) \in Nat /\ Routed(WalletPart) \in Nat
      /\ adjustments[WalletPart].hold \in Nat
      /\ adjustments[WalletPart].exchange_manual \in Nat
      /\ Terminal(WalletPart) + (adjustments[WalletPart].hold
           + adjustments[WalletPart].exchange_manual) <= Routed(WalletPart)
  BY <1>2, TerminalIsRouted
<1>4. /\ TerminalOfVaults \in Nat /\ RoutedOfVaults \in Nat
      /\ TerminalOfVaults <= RoutedOfVaults
  BY VaultSums, TerminalIsRouted
<1>5. Gross(WalletPart) = account.gross
  BY DEF Gross
<1>6. Rest(WalletPart) \in Nat
  BY <1>1, <1>3, <1>5 DEF Rest
<1>. QED  BY <1>1, <1>3, <1>4, <1>6

\* A part the export would pay to the wallet in full has something left, no
\* route to another address and nothing held, so the lookup sends it there.
LEMMA ReadyIsShown ==
  ASSUME EntitlementsTypeOK, NEW p \in Parts, Gross(p) \in Int,
         Delivery(p, Gross(p)) = "ready"
  PROVE  Destination(p) = [to |-> Self, status |-> "ready"]
<1>1. adjustments[p] \in Adjustments
  BY DEF EntitlementsTypeOK
<1>2. /\ Gross(p) > 0 /\ Gross(p) - Terminal(p) > 0
      /\ adjustments[p].hold = 0 /\ adjustments[p].exchange_manual = 0
      /\ adjustments[p].ready \ {Self} = {}
  BY <1>1 DEF Delivery, Adjustments
<1>3. Rest(p) > 0
  BY <1>1, <1>2, TerminalIsNat DEF Rest
<1>4. Cardinality(adjustments[p].ready \ {Self}) # 1
  <2>1. Cardinality({}) = 0
    BY FS_EmptySet
  <2>. QED  BY <1>2, <2>1
<1>5. Destination(p) = [to |-> IF Cardinality(adjustments[p].ready \ {Self}) = 1
                               THEN The(adjustments[p].ready \ {Self}) ELSE Self,
                        status |-> "ready"]
  BY <1>2, <1>3 DEF Destination
<1>. QED  BY <1>4, <1>5

LEMMA InvPaidAsShown == IInv => PaidAsShown
<1>. SUFFICES ASSUME IInv, phase = "published"
              PROVE  /\ WalletStatus = "pending" =>
                          /\ Destination(WalletPart) = [to |-> Self, status |-> "ready"]
                          /\ WalletNet = account.allocation.wallet
                     /\ \A v \in Positions : PositionStatus(v) = "pending" =>
                          Destination(v) = [to |-> Self, status |-> "ready"]
  BY DEF PaidAsShown
<1>. USE DEF IInv
<1>1. ASSUME WalletStatus = "pending"
      PROVE  /\ Destination(WalletPart) = [to |-> Self, status |-> "ready"]
             /\ WalletNet = account.allocation.wallet
  <2>1. Gross(WalletPart) = account.gross
    BY DEF Gross
  <2>2. WalletPart \in Parts
    BY DEF Parts
  <2>3. ~(account.allocation.wallet <= 0)
    BY <1>1 DEF WalletStatus
  <2>4. /\ account.allocation.wallet = AtLeast0(account.gross - Terminal(WalletPart))
        /\ account.gross # 0
    BY <2>3, PublishedFacts DEF AtLeast0
  <2>5. Delivery(WalletPart, Gross(WalletPart)) = "ready"
    BY <1>1, <2>1, <2>3, <2>4 DEF WalletStatus
  <2>6. Gross(WalletPart) \in Int
    BY <2>1, PublishedFacts
  <2>. QED  BY <2>1, <2>2, <2>4, <2>5, <2>6, ReadyIsShown DEF WalletNet
<1>2. ASSUME NEW v \in Positions, PositionStatus(v) = "pending"
      PROVE  Destination(v) = [to |-> Self, status |-> "ready"]
  <2>1. v \in Parts /\ v # WalletPart
    BY EntitlementsAssumption DEF EntitlementsTypeOK, Positions, Parts
  <2>2. Gross(v) \in Int
    <3>1. PICK positions \in SUBSET Validators : delegation \in [positions -> Amounts]
      BY DEF EntitlementsTypeOK
    <3>2. delegation[v] \in Amounts
      BY <3>1 DEF Positions
    <3>3. delegation[v] \in Nat
      BY <3>2, EntitlementsAssumption
    <3>. QED  BY <2>1, <3>3 DEF Gross
  <2>3. Delivery(v, Gross(v)) = "ready"
    BY <1>2 DEF PositionStatus
  <2>. QED  BY <2>1, <2>2, <2>3, ReadyIsShown
<1>. QED  BY <1>1, <1>2

\* The shares that are pending are no more than the allocation, as shares that
\* do not add up to it are blocked.
LEMMA PendingWithin ==
  ASSUME IInv, phase = "published"
  PROVE  /\ MapThenSumSet(PendingShares, Positions) \in Nat
         /\ MapThenSumSet(PendingShares, Positions) <= account.allocation.staked
<1>. USE DEF IInv
<1>. DEFINE pending == [v \in Positions |-> PendingShares(v)]
            expected == [v \in Positions |-> ExpectedShares(v)]
<1>1. IsFiniteSet(Positions) /\ Positions \in SUBSET Positions
  BY PositionsTyped
<1>2. Counts(pending, Positions) /\ Counts(expected, Positions)
  BY PendingSharesIsNat, ExpectedSharesIsNat DEF Counts
<1>3. /\ MapThenSumSet(PendingShares, Positions) = Total(pending, Positions)
      /\ MapThenSumSet(ExpectedShares, Positions) = Total(expected, Positions)
  BY <1>1, PendingSharesSum, ExpectedSharesSum
<1>4. CASE Mismatched
  <2>1. \A v \in Positions : pending[v] = 0
    BY <1>4 DEF PendingShares, PositionStatus
  <2>2. Total(pending, Positions) = Total(pending, {})
    <3>. HIDE DEF pending
    <3>. QED  BY <2>1, TotalOfRest
  <2>. QED  BY <1>3, <2>2, TotalOfNone, PublishedFacts
<1>5. CASE ~Mismatched
  <2>1. Total(expected, Positions) = account.allocation.staked
    BY <1>3, <1>5 DEF Mismatched
  <2>2. \A v \in Positions : pending[v] <= expected[v]
    BY PendingSharesIsNat
  <2>3. Total(pending, Positions) <= Total(expected, Positions)
    <3>. HIDE DEF pending, expected
    <3>. QED  BY <1>1, <1>2, <2>2, TotalIsMonotone
  <2>4. Total(pending, Positions) \in Nat
    <3>. HIDE DEF pending
    <3>. QED  BY <1>1, <1>2, TotalIsNat
  <2>. QED  BY <1>3, <2>1, <2>3, <2>4
<1>. QED  BY <1>4, <1>5

\* What the lookup shows in total is what terminal routes leave of the account.
LEMMA NetTotalIs ==
  ASSUME IInv, phase = "published"
  PROVE  /\ NetTotal = account.gross + account.staked - Terminal(WalletPart)
                         - MapThenSumSet(Terminal, Positions)
         /\ MapThenSumSet(Terminal, Positions) \in Nat
         /\ MapThenSumSet(Terminal, Positions) <= TerminalOfVaults
<1>. DEFINE terminal == MapThenSumSet(Terminal, Positions)
<1>1. terminal \in Nat /\ terminal <= TerminalOfVaults
  BY VaultSums DEF IInv
<1>2. NetTotal = AtLeast0(account.gross + account.staked - Terminal(WalletPart) - terminal)
  BY DEF NetTotal
<1>. HIDE DEF terminal
<1>3. account.gross + account.staked - Terminal(WalletPart) - terminal \in Nat
  BY <1>1, PublishedFacts
<1>4. NetTotal = account.gross + account.staked - Terminal(WalletPart) - terminal
  BY <1>2, <1>3 DEF AtLeast0
<1>. QED  BY <1>1, <1>4 DEF terminal

LEMMA InvPaidWithin == IInv => PaidWithinEntitlement
<1>. SUFFICES ASSUME IInv, phase = "published"
              PROVE  /\ PendingTotal <= account.allocation.wallet + account.allocation.staked
                     /\ PendingTotal <= NetTotal
  BY DEF PaidWithinEntitlement
<1>. DEFINE wallet == IF WalletStatus = "pending" THEN account.allocation.wallet ELSE 0
            shares == MapThenSumSet(PendingShares, Positions)
            terminal == MapThenSumSet(Terminal, Positions)
<1>1. PendingTotal = wallet + shares
  BY DEF PendingTotal
<1>2. /\ wallet \in Nat /\ wallet <= account.allocation.wallet
      /\ wallet <= account.gross - Terminal(WalletPart)
  BY PublishedFacts
<1>3. shares \in Nat /\ shares <= account.allocation.staked
  BY PendingWithin
<1>4. shares <= account.staked - TerminalOfVaults
  BY <1>3, PublishedFacts
<1>5. /\ NetTotal = account.gross + account.staked - Terminal(WalletPart) - terminal
      /\ terminal \in Nat /\ terminal <= TerminalOfVaults
  BY NetTotalIs
<1>. HIDE DEF wallet, shares, terminal
<1>. QED  BY <1>1, <1>2, <1>3, <1>4, <1>5, PublishedFacts

\* A wallet that the stage policy does not count to the initial stage gets
\* nothing of the initial airdrop, as routes leave no less than nothing.
LEMMA NotInitialNotIssued ==
  ASSUME IInv, phase = "published", ~InitialStage
  PROVE  Issuable = 0
<1>1. Rest(WalletPart) \in Nat
  BY PublishedFacts
<1>2. Issuable = IF 0 < Rest(WalletPart) THEN 0 ELSE Rest(WalletPart)
  BY DEF Issuable
<1>. QED  BY <1>1, <1>2

\* Shares that add up to more than the terminal routes leave some expected, if
\* nothing is delivered by hand.
LEMMA SharesAreExpected ==
  ASSUME IInv, phase = "published", SharesAddUp, account.staked > TerminalOfVaults,
         \A p \in Parts : adjustments[p].exchange_manual = 0
  PROVE  \E v \in Positions : ExpectedShares(v) > 0
<1>. USE DEF IInv
<1>. DEFINE terminal == TerminalAmounts(adjustments)
            positions == [v \in Positions |-> Gross(v)]
<1>1. SUFFICES ASSUME \A v \in Positions : ExpectedShares(v) = 0
               PROVE  FALSE
  BY ExpectedSharesIsNat
<1>2. \A v \in Positions : positions[v] <= terminal[v]
  <2>. TAKE v \in Positions
  <2>1. v \in Validators /\ v \in Parts /\ delegation[v] \in Nat
    BY PositionsTyped
  <2>2. positions[v] = delegation[v] /\ terminal[v] = Terminal(v) /\ Terminal(v) \in Nat
    BY <2>1, GrossIsNat, TerminalIsNat DEF TerminalAmounts, Terminal
  <2>3. ExpectedShares(v) = AtLeast0(delegation[v] - Terminal(v) - 0)
    BY <2>1, ExpectedSharesIsNat
  <2>. QED  BY <1>1, <2>1, <2>2, <2>3 DEF AtLeast0
<1>3. /\ IsFiniteSet(Positions) /\ Positions \in SUBSET Positions
      /\ Counts(positions, Positions) /\ Counts(terminal, Positions)
  <2>1. Counts(terminal, Validators) /\ Positions \in SUBSET Validators
    BY KeptCounts, PositionsTyped DEF EntitlementsTypeOK
  <2>. QED  BY <2>1, PositionsTyped, GrossIsNat DEF Counts
<1>4. Total(positions, Positions) = account.staked
  BY <1>3, GrossSum DEF SharesAddUp
<1>5. Total(terminal, Positions) \in Nat /\ Total(terminal, Positions) <= TerminalOfVaults
  BY VaultSums
<1>6. Total(positions, Positions) <= Total(terminal, Positions)
  <2>. HIDE DEF positions, terminal
  <2>. QED  BY <1>2, <1>3, TotalIsMonotone
<1>7. account.staked \in Nat /\ TerminalOfVaults \in Nat
  BY PublishedFacts
<1>. HIDE DEF positions, terminal
<1>. QED  BY <1>4, <1>5, <1>6, <1>7

LEMMA InvCandidates == IInv => CandidatesAreListed
<1>. SUFFICES ASSUME IInv, phase = "published", Candidate
              PROVE  /\ Offered(FALSE)
                     /\ Issuable = 0
                     /\ SharesAddUp =>
                          \/ WalletStatus \in {"pending", "blocked"}
                          \/ \E v \in Positions : PositionStatus(v) \in {"pending", "blocked"}
  BY DEF CandidatesAreListed
<1>1. /\ exchange = None /\ arranged = None /\ policy # None
      /\ account.category \in KeyControlled
  BY DEF Candidate, IInv, ExchangeInv
<1>2. /\ account.applied
      /\ account.stage = "deferred" /\ account.issuance = "issue"
      /\ account.reason = "activity"
      /\ account.allocation.staked = account.staked - TerminalOfVaults
  BY <1>1, VaultSums DEF Candidate, IInv, PublishedInv, PublishedOf
<1>3. Offered(FALSE)
  <2>1. account.category # "contract"
    BY <1>1 DEF KeyControlled
  <2>2. Answer(FALSE).policy = PolicyOfAccount
    BY <1>2, <2>1 DEF Answer, PolicyWithRoutes
  <2>3. PolicyOfAccount.issuance = "issue" /\ PolicyOfAccount.stage = "deferred"
    BY <1>2, <2>1 DEF PolicyOfAccount, Manual, ReviewedContractIsNotIssued
  <2>. QED  BY <1>1, <1>2, <2>2, <2>3 DEF Offered
<1>4. Issuable = 0
  BY <1>2, NotInitialNotIssued DEF InitialStage
<1>5. ASSUME SharesAddUp, ~(account.allocation.wallet > 0)
      PROVE  \E v \in Positions : PositionStatus(v) \in {"pending", "blocked"}
  <2>1. account.staked > TerminalOfVaults
    BY <1>2, <1>5, PublishedFacts DEF Candidate
  <2>2. \A p \in Parts : adjustments[p].exchange_manual = 0
    BY <1>1 DEF IInv, ArrangedInv, ArrangedOf
  <2>3. PICK v \in Positions : ExpectedShares(v) > 0
    BY <1>5, <2>1, <2>2, SharesAreExpected
  <2>4. ~(ExpectedShares(v) <= 0)
    BY <2>3, ExpectedSharesIsNat DEF IInv
  <2>. QED  BY <2>4 DEF PositionStatus
<1>6. ASSUME account.allocation.wallet > 0
      PROVE  WalletStatus \in {"pending", "blocked"}
  <2>1. ~(account.allocation.wallet <= 0)
    BY <1>6, PublishedFacts
  <2>. QED  BY <2>1 DEF WalletStatus
<1>. QED  BY <1>3, <1>4, <1>5, <1>6

\* A part that may be sent in full keeps nothing back.
LEMMA ReadyKeepsNothing ==
  ASSUME EntitlementsTypeOK, NEW p \in Parts, NEW gross \in Int,
         Delivery(p, gross) = "ready"
  PROVE  Kept(adjustments[p]) = 0 /\ gross - Terminal(p) > 0
<1>1. adjustments[p].hold = 0 /\ adjustments[p].exchange_manual = 0
  BY DEF Delivery
<1>2. gross - Terminal(p) > 0
  BY DEF Delivery
<1>. QED  BY <1>1, <1>2 DEF Kept

\* With exchange routes that fit the positions, every position is used up: what
\* one had left another would lack, and routes add up to all of them.
LEMMA ExchangeUsesPositions ==
  ASSUME IInv, phase = "published", arranged # None, RoutesFitPositions, SharesAddUp,
         NEW v \in Positions, Kept(adjustments[v]) = 0
  PROVE  ~(Gross(v) - Terminal(v) > 0)
<1>. USE DEF IInv
<1>. DEFINE terminal == TerminalAmounts(adjustments)
            kept == KeptAmounts(adjustments)
            used == [u \in Validators |-> terminal[u] + kept[u]]
            held == [u \in Validators |-> IF u \in Positions THEN delegation[u] ELSE 0]
            positions == [u \in Positions |-> Gross(u)]
<1>1. /\ IsFiniteSet(Validators) /\ Positions \in SUBSET Validators
      /\ Counts(terminal, Validators) /\ Counts(kept, Validators)
  BY EntitlementsAssumption, PositionsTyped, KeptCounts DEF EntitlementsTypeOK
<1>2. Counts(used, Validators) /\ Counts(held, Validators)
  BY <1>1, PositionsTyped DEF Counts
<1>3. \A u \in Validators : used[u] <= held[u]
  <2>. TAKE u \in Validators
  <2>1. u \in Parts
    BY DEF Parts
  <2>2. used[u] = Terminal(u) + Kept(adjustments[u])
    BY DEF TerminalAmounts, KeptAmounts, Terminal
  <2>3. used[u] <= Routed(u) /\ used[u] \in Nat /\ Routed(u) \in Nat
    BY <1>2, <2>1, <2>2, TerminalIsRouted DEF Counts
  <2>4. Routed(u) <= held[u]
    BY GrossIsNat DEF RoutesFitPositions
  <2>5. held[u] \in Nat
    BY <1>2 DEF Counts
  <2>. HIDE DEF used, held
  <2>. QED  BY <2>3, <2>4, <2>5
<1>4. Total(used, Validators) = Total(terminal, Validators) + Total(kept, Validators)
  BY <1>1, TotalOfSums
<1>5. Total(held, Validators) = account.staked
  <2>1. Total(held, Validators) = Total(held, Positions)
    BY <1>1, TotalOfRest
  <2>2. Total(held, Positions) = Total(positions, Positions)
    <3>1. \A u \in Positions : held[u] = positions[u]
      BY <1>1, GrossIsNat
    <3>. HIDE DEF held, positions
    <3>. QED  BY <3>1, TotalIsSame
  <2>3. Total(positions, Positions) = account.staked
    BY GrossSum DEF SharesAddUp
  <2>. QED  BY <2>1, <2>2, <2>3
<1>6. account.staked <= Total(used, Validators)
  <2>1. /\ arranged.staked = account.staked - Total(terminal, Validators)
        /\ arranged.staked <= Total(kept, Validators)
    BY DEF PublishedInv, PublishedOf, ArrangedInv, ArrangedOf
  <2>2. /\ account.staked \in Nat /\ Total(terminal, Validators) \in Nat
        /\ Total(kept, Validators) \in Nat
    BY <1>1, PublishedFacts, TotalIsNat
  <2>. HIDE DEF terminal, kept, used
  <2>. QED  BY <1>4, <2>1, <2>2
<1>7. ASSUME Gross(v) - Terminal(v) > 0
      PROVE  FALSE
  <2>1. v \in Validators /\ v \in Parts
    BY PositionsTyped
  <2>2. used[v] < held[v]
    <3>1. used[v] = Terminal(v) + Kept(adjustments[v])
      BY <2>1 DEF TerminalAmounts, KeptAmounts, Terminal
    <3>2. held[v] = Gross(v) /\ Gross(v) \in Nat /\ Terminal(v) \in Nat
      BY <2>1, GrossIsNat, TerminalIsNat
    <3>. HIDE DEF used, held
    <3>. QED  BY <1>7, <3>1, <3>2
  <2>3. Total(used, Validators) < Total(held, Validators)
    <3>. HIDE DEF used, held
    <3>. QED  BY <1>1, <1>2, <1>3, <2>1, <2>2, TotalIsStrict
  <2>4. Total(used, Validators) \in Nat /\ account.staked \in Nat
    BY <1>1, <1>2, TotalIsNat, PublishedFacts
  <2>. HIDE DEF used, held
  <2>. QED  BY <1>5, <1>6, <2>3, <2>4
<1>. QED  BY <1>7

LEMMA InvExchange == IInv => ExchangeNotPaid
<1>. SUFFICES ASSUME IInv, phase = "published", Manual
              PROVE  /\ Issuable = 0
                     /\ Answer(TRUE).disposition \in {"handled_by_exchange", "not_issuing"}
                     /\ \A v \in Positions : InitialShares(v) = 0
                     /\ RoutesFitPositions /\ SharesAddUp => PendingTotal = 0
  BY DEF ExchangeNotPaid
<1>1. /\ arranged # None /\ exchange # None
      /\ account.issuance = "manual_from_reserve" /\ account.stage = "exchange_manual"
  BY DEF Manual, IInv, ExchangeInv, PublishedInv, PublishedOf
<1>2. ~InitialStage
  BY <1>1 DEF InitialStage
<1>3. Answer(TRUE).disposition \in {"handled_by_exchange", "not_issuing"}
  <2>1. PolicyWithRoutes.issuance = "manual_from_reserve"
    BY <1>1 DEF PolicyWithRoutes, PolicyOfAccount, Manual
  <2>2. \A nothingLeft \in BOOLEAN :
          Disposition(PolicyWithRoutes, nothingLeft, Destination(WalletPart).status)
            \in {"handled_by_exchange", "not_issuing"}
    BY <1>1, <2>1 DEF Disposition
  <2>. DEFINE nothingLeft == NetTotal = 0 /\ NotIssuedTotal > 0
  <2>3. Answer(TRUE).disposition =
          Disposition(PolicyWithRoutes, nothingLeft, Destination(WalletPart).status)
    BY DEF Answer
  <2>4. nothingLeft \in BOOLEAN
    OBVIOUS
  <2>. HIDE DEF nothingLeft
  <2>. QED  BY <2>2, <2>3, <2>4
<1>4. ASSUME RoutesFitPositions, SharesAddUp
      PROVE  PendingTotal = 0
  <2>. USE DEF IInv
  <2>1. WalletStatus # "pending"
    <3>1. SUFFICES ASSUME WalletStatus = "pending"
                   PROVE  FALSE
      OBVIOUS
    <3>2. PICK gross \in Int : /\ Delivery(WalletPart, gross) = "ready"
                               /\ account.allocation.wallet > 0
      <4>1. /\ account.gross \in Int /\ account.allocation.wallet \in Int
            /\ Gross(WalletPart) = account.gross
        BY PublishedFacts DEF Gross
      <4>. QED  BY <3>1, <4>1 DEF WalletStatus
    <3>3. WalletPart \in Parts
      BY DEF Parts
    <3>4. Kept(adjustments[WalletPart]) = 0
      BY <3>2, <3>3, ReadyKeepsNothing
    <3>5. account.allocation.wallet <= 0
      BY <1>1, <3>4 DEF PublishedInv, PublishedOf, ArrangedInv, ArrangedOf
    <3>. QED  BY <3>2, <3>5, PublishedFacts
  <2>2. \A v \in Positions : PositionStatus(v) # "pending"
    <3>. TAKE v \in Positions
    <3>1. SUFFICES ASSUME PositionStatus(v) = "pending"
                   PROVE  FALSE
      OBVIOUS
    <3>2. Delivery(v, Gross(v)) = "ready" /\ v \in Parts /\ Gross(v) \in Int
      BY <3>1, PositionsTyped, GrossIsNat DEF PositionStatus
    <3>3. Kept(adjustments[v]) = 0 /\ Gross(v) - Terminal(v) > 0
      BY <3>2, ReadyKeepsNothing
    <3>. QED  BY <1>1, <1>4, <3>3, ExchangeUsesPositions
  <2>3. MapThenSumSet(PendingShares, Positions) = 0
    <3>. DEFINE pending == [v \in Positions |-> PendingShares(v)]
    <3>1. \A v \in Positions : pending[v] = 0
      BY <2>2 DEF PendingShares
    <3>2. Total(pending, Positions) = Total(pending, {})
      <4>. HIDE DEF pending
      <4>. QED  BY <3>1, TotalOfRest
    <3>3. MapThenSumSet(PendingShares, Positions) = Total(pending, Positions)
      BY PendingSharesSum
    <3>. QED  BY <3>2, <3>3, TotalOfNone
  <2>. QED  BY <2>1, <2>3 DEF PendingTotal
<1>. QED  BY <1>2, <1>3, <1>4, NotInitialNotIssued DEF InitialShares

-----------------------------------------------------------------------------
LEMMA Invariance == Spec => []IInv
<1>1. Init => IInv
  <2>1. ASSUME Init
        PROVE  RoutesInv /\ ArrangedInv
    <3>1. /\ \A p \in Parts : adjustments[p] = NoAdjustments
          /\ arranged = None
      BY <2>1 DEF Init
    <3>2. Bounded(NoAdjustments) /\ NoAdjustments.exchange_manual = 0
      BY DEF Bounded, Kept, NoAdjustments
    <3>. QED  BY <3>1, <3>2 DEF RoutesInv, ArrangedInv, ArrangedOf
  <2>. QED  BY <2>1, InitTyped DEF Init, IInv, ExchangeInv, PublishedInv
<1>2. IInv /\ [Next]_vars => IInv'
  BY NextTyped, NextRoutes, NextArranged, NextExchange, NextPublished DEF IInv
<1>. QED  BY <1>1, <1>2, PTL DEF Spec

\* Every state of every instance is well typed: what the files' rows leave of
\* adjustments, arrangement, positions and policy, and that an account is
\* published last (inject_claims.py, the checks before the load).
THEOREM EntitlementsTypeCorrect == Spec => []EntitlementsTypeOK
<1>1. IInv => EntitlementsTypeOK
  BY DEF IInv
<1>. QED  BY Invariance, <1>1, PTL

\* Whatever Delivery of confirmed-wallets.py calls ready, destinationFor of
\* claims.ts shows as delivered to the wallet's own address, and the wallet
\* part in the amount that is paid.
THEOREM ExportIsStricter == Spec => []PaidAsShown
  BY Invariance, InvPaidAsShown, PTL

\* Whatever routes, share rows and stage policy the ledger was loaded with, all
\* that the export of confirmed-wallets.py calls pending for a wallet is at most
\* its allocation in the ledger and at most the total claims.ts shows for it.
THEOREM NeverPaidTooMuch == Spec => []PaidWithinEntitlement
  BY Invariance, InvPaidWithin, PTL

\* A wallet that load-candidates.py takes in is offered the confirm page by
\* claims.ts and paid nothing by the initial airdrop; if its share rows add up,
\* a part of it is pending or blocked in the export.
THEOREM CandidatesHaveAPart == Spec => []CandidatesAreListed
  BY Invariance, InvCandidates, PTL

\* A wallet whose routes are delivered by hand gets nothing of the initial
\* airdrop and, if its routes fit its positions and these add up, nothing of a
\* batch: with every route counted there is no part left to send.
THEOREM ExchangeIsLeftAlone == Spec => []ExchangeNotPaid
  BY Invariance, InvExchange, PTL
=============================================================================
