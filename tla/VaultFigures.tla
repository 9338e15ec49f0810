---------------------------- MODULE VaultFigures ----------------------------
(***************************************************************************)
(* What /vault/<address> shows of a vault's history                        *)
(* (src/frontend/src/vault/chain.ts, activity.ts, breakdown.ts,            *)
(* VaultDetail.tsx, DelegatorBreakdown.tsx): the events are read in ranges *)
(* of blocks, as wide as the endpoint answers, summed up, and set beside   *)
(* the stake at the Harmony cutoff in two tables of rounded amounts.       *)
(*                                                                         *)
(* A block holds one transaction of the vault or none, so a block number   *)
(* stands for a transaction hash as well.                                  *)
(***************************************************************************)
EXTENDS Wallet, Listing, Integers, FiniteSets

CONSTANTS
    Members,      \* delegators and governors
    Reserve,      \* the reserve Safe
    Zero,         \* the address before the first governor
    Transactions, \* what blocks may hold, each a sequence of calls of one transaction
    Cutoffs,      \* per catalog: stage -> count and atto
    MinSpan,      \* MIN_LOG_SPAN
    One,          \* atto in one ONE, the unit that large totals are rounded to
    Hundredth,    \* the unit of smaller ones
    Large,        \* where large begins
    MaxBlocks     \* bound: blocks of the chain

\* A call of the vault: an address withdraws its own, and a deposit is by anyone.
Calls == [event : {"Deposit"}, caller : Members \cup {Reserve}, delegator : Members, assets : Nat]
    \cup [event : {"Withdraw"}, caller : Members, delegator : Members, assets : Nat]
    \cup [event : {"FeeUpdated"}, next : Nat]
    \cup [event : {"GovernorTransferred"}, next : Members]

Stages == {"initial", "confirmed", "inactive", "next_stage", "manual_review",
           "below_threshold", "exchange", "not_issued"}

ASSUME FiguresAssumption ==
    /\ IsFiniteSet(Members) /\ None \notin Members
    /\ Reserve \notin Members /\ Zero \notin Members \cup {Reserve}
    /\ Transactions \subseteq Seq(Calls)
    /\ \A c \in Cutoffs : DOMAIN c \subseteq Stages /\ c \in [DOMAIN c -> [count : Nat, atto : Nat]]
    /\ MinSpan \in Nat \ {0} /\ MaxBlocks \in Nat \ {0}
    /\ One \in Nat \ {0} /\ Hundredth \in Nat \ {0} /\ Large \in Nat

VARIABLES
    blocks,    \* per block, the vault's events
    contract,  \* per block, the vault after it: held, governor, feeBps
    reading,   \* the read of the events under way: to, ranges left, blocks answered; or None
    shown,     \* what the page has: to, blocks answered; or None
    cutoff     \* the catalog's entry of the vault

figuresVars == <<blocks, contract, reading, shown, cutoff>>

Count(n, atto) == [count |-> n, atto |-> atto]
Plus(a, b) == Count(a.count + b.count, a.atto + b.atto)
Minus(a, b) == Count(a.count - b.count, a.atto - b.atto)
SumOf(amounts) ==
    LET sum[n \in 0 .. Len(amounts)] == IF n = 0 THEN 0 ELSE sum[n - 1] + amounts[n]
    IN  sum[Len(amounts)]
Total(totals) ==
    Count(SumOf([i \in DOMAIN totals |-> totals[i].count]), SumOf([i \in DOMAIN totals |-> totals[i].atto]))
Mapped(f(_), s) == [i \in DOMAIN s |-> f(s[i])]

FiguresTypeOK ==
    /\ DOMAIN contract = DOMAIN blocks
    /\ Len(blocks) \in 1 .. MaxBlocks
    /\ \/ reading = None
       \/ /\ reading.to \in 1 .. Len(blocks)
          /\ reading.ranges \in Seq([from : Nat, to : Nat])
          /\ reading.answered \in Seq(Nat)
    /\ \/ shown = None
       \/ shown.to \in 1 .. Len(blocks) /\ shown.answered \in Seq(Nat)
    /\ cutoff \in Cutoffs

-----------------------------------------------------------------------------
(* The vault contract and its events (abi.ts).                               *)

Latest == contract[Len(contract)]

Allowed(state, call) ==
    CASE call.event = "Deposit" -> TRUE
      [] call.event = "Withdraw" -> call.assets <= state.held[call.caller]
      [] call.event = "FeeUpdated" -> call.next # state.feeBps
      [] call.event = "GovernorTransferred" -> call.next # state.governor

After(state, call) ==
    CASE call.event = "Deposit" -> [state EXCEPT !.held[call.delegator] = @ + call.assets]
      [] call.event = "Withdraw" -> [state EXCEPT !.held[call.caller] = @ - call.assets]
      [] call.event = "FeeUpdated" -> [state EXCEPT !.feeBps = call.next]
      [] call.event = "GovernorTransferred" -> [state EXCEPT !.governor = call.next]

\* The vault after these calls.
AfterAll(state, calls) ==
    LET after[n \in 0 .. Len(calls)] == IF n = 0 THEN state ELSE After(after[n - 1], calls[n])
    IN  after[Len(calls)]

Emitted(state, call) ==
    CASE call.event = "FeeUpdated" -> [event |-> call.event, previous |-> state.feeBps, next |-> call.next]
      [] call.event = "GovernorTransferred" ->
            [event |-> call.event, previous |-> state.governor, next |-> call.next]
      [] OTHER -> call

Logs(state, calls) ==
    [i \in DOMAIN calls |->
        [log |-> Emitted(state, calls[i]), block |-> Len(blocks) + 1, logIndex |-> i]]

\* A block of the chain: the calls of one transaction of this vault, or none.
MineBlock(calls) ==
    /\ Len(blocks) < MaxBlocks
    /\ \A i \in DOMAIN calls : Allowed(Latest, calls[i])
    /\ blocks' = Append(blocks, Logs(Latest, calls))
    /\ contract' = Append(contract, AfterAll(Latest, calls))
    /\ UNCHANGED <<reading, shown, cutoff>>

-----------------------------------------------------------------------------
(* readVaultLogs: every event up to the block that is the latest at first.   *)

FiguresInit ==
    /\ \E g \in Members :
          /\ contract = <<[held |-> [a \in Members |-> 0], governor |-> g, feeBps |-> 0]>>
          /\ blocks = << <<[log |-> [event |-> "GovernorTransferred", previous |-> Zero, next |-> g],
                            block |-> 1, logIndex |-> 1]>> >>
    /\ reading = None
    /\ shown = None
    /\ cutoff \in Cutoffs

\* Again every minute, and after a transaction of this page: a read under way
\* is given up then, and what it brings is not used.
ReadVaultLogs ==
    /\ reading' = [to |-> Len(blocks), ranges |-> <<[from |-> 1, to |-> Len(blocks)]>>, answered |-> <<>>]
    /\ UNCHANGED <<blocks, contract, shown, cutoff>>

Numbers(range) == [i \in 1 .. range.to - range.from + 1 |-> range.from + i - 1]

\* The endpoint answers the next range.
RangeIsBack ==
    /\ reading # None
    /\ reading.ranges # <<>>
    /\ reading' = [reading EXCEPT !.ranges = Tail(@), !.answered = @ \o Numbers(Head(reading.ranges))]
    /\ UNCHANGED <<blocks, contract, shown, cutoff>>

Middle(range) == range.from + (range.to - range.from) \div 2

Mutant_Halves(range) ==
    <<[range EXCEPT !.to = Middle(range)], [range EXCEPT !.from = Middle(range)]>>

Halves(range) ==
    <<[range EXCEPT !.to = Middle(range)], [range EXCEPT !.from = Middle(range) + 1]>>

\* It refuses the range, for its width or otherwise. One that is narrow enough
\* fails the read, and the page keeps what it had.
RangeFails ==
    /\ reading # None
    /\ reading.ranges # <<>>
    /\ LET range == Head(reading.ranges)
       IN  reading' = IF range.to - range.from < MinSpan THEN None
                   ELSE [reading EXCEPT !.ranges = Halves(range) \o Tail(@)]
    /\ UNCHANGED <<blocks, contract, shown, cutoff>>

LogsAreBack ==
    /\ reading # None
    /\ reading.ranges = <<>>
    /\ shown' = [to |-> reading.to, answered |-> reading.answered]
    /\ reading' = None
    /\ UNCHANGED <<blocks, contract, cutoff>>

FiguresNext ==
    \/ \E calls \in Transactions : MineBlock(calls)
    \/ ReadVaultLogs
    \/ RangeIsBack
    \/ RangeFails
    \/ LogsAreBack

FiguresSpec == FiguresInit /\ [][FiguresNext]_figuresVars

-----------------------------------------------------------------------------
(* summarize: the events in order, added up.                                 *)

\* The sort is stable: what is there twice keeps its order.
Comes(logs, i, j) ==
    \/ logs[i].block < logs[j].block
    \/ /\ logs[i].block = logs[j].block
       /\ logs[i].logIndex < logs[j].logIndex \/ (logs[i].logIndex = logs[j].logIndex /\ i < j)

Ordered(logs) ==
    LET before == {p \in (DOMAIN logs) \X (DOMAIN logs) : Comes(logs, p[1], p[2])}
        order == Listed(DOMAIN logs, before)
    IN  [n \in DOMAIN logs |-> logs[order[n]]]

ShownLogs == Seqs!FlattenSeq(Mapped(LAMBDA n : blocks[n], shown.answered))

NothingYet ==
    [balances |-> [a \in Members |-> 0], credited |-> {}, creditedAtto |-> 0, fundingTxs |-> {},
     otherDeposits |-> Count(0, 0), withdrawals |-> Count(0, 0),
     governorChanges |-> <<>>, feeChanges |-> <<>>, rows |-> <<>>]

Row(kind, at, call) ==
    [kind |-> kind, tx |-> at, caller |-> call.caller, counterparty |-> call.delegator, count |-> 1,
     amount |-> call.assets, fromReserve |-> kind = "deposit" /\ call.caller = Reserve]

\* A deposit joins the row before it if that is of its transaction and caller.
Joined(rows, at, call) ==
    LET last == rows[Len(rows)]
    IN  IF rows # <<>> /\ last.kind = "deposit" /\ last.tx = at /\ last.caller = call.caller
        THEN [rows EXCEPT ![Len(rows)].count = @ + 1, ![Len(rows)].amount = @ + call.assets,
                          ![Len(rows)].counterparty = IF @ = call.delegator THEN @ ELSE None]
        ELSE Append(rows, Row("deposit", at, call))

Deposited(s, at, call) ==
    LET added == [s EXCEPT !.balances[call.delegator] = @ + call.assets, !.rows = Joined(@, at, call)]
    IN  IF call.caller = Reserve
        THEN [added EXCEPT !.credited = @ \cup {call.delegator}, !.creditedAtto = @ + call.assets,
                           !.fundingTxs = @ \cup {at}]
        ELSE [added EXCEPT !.otherDeposits = Plus(@, Count(1, call.assets))]

Withdrawn(s, at, call) ==
    [s EXCEPT !.balances[call.caller] = @ - call.assets,
              !.withdrawals = Plus(@, Count(1, call.assets)),
              !.rows = Append(@, Row("withdraw", at, call))]

Summed(s, entry) ==
    LET log == entry.log
    IN  CASE log.event = "GovernorTransferred" -> [s EXCEPT !.governorChanges = Append(@, log)]
          [] log.event = "FeeUpdated" -> [s EXCEPT !.feeChanges = Append(@, log)]
          [] log.event = "Deposit" -> Deposited(s, entry.block, log)
          [] log.event = "Withdraw" -> Withdrawn(s, entry.block, log)

SummaryOf(logs) ==
    LET after[n \in 0 .. Len(logs)] == IF n = 0 THEN NothingYet ELSE Summed(after[n - 1], logs[n])
    IN  after[Len(logs)]

Summary == SummaryOf(Ordered(ShownLogs))

ReserveCredits(s) == Count(Cardinality(s.credited), s.creditedAtto)
DelegatorsNow(s) == Cardinality({a \in Members : s.balances[a] > 0})
Activity(s) == Seqs!Reverse(s.rows)

-----------------------------------------------------------------------------
(* breakdown.ts: the stake at the cutoff, by stage and by where it is now.   *)

Creditable == <<"initial", "confirmed", "inactive", "next_stage", "manual_review">>
OutsideOrder == <<"initial", "confirmed", "inactive", "below_threshold", "next_stage",
                  "manual_review", "exchange", "not_issued">>
GroupOrder == <<"airdropped", "funding", "not_airdropped", "separate">>

GroupOf(p) ==
    IF p.credited THEN "airdropped"
    ELSE IF p.category \in {"initial", "confirmed"} THEN "funding"
    ELSE IF p.category \in {"inactive", "below_threshold"} THEN "not_airdropped"
    ELSE "separate"

Least(a, b) == IF a < b THEN a ELSE b

\* A stage the catalog does not have counts as empty.
Stage(c) == IF c \in DOMAIN cutoff THEN cutoff[c] ELSE Count(0, 0)

Part(c, credited, total) == [category |-> c, credited |-> credited, count |-> total.count, atto |-> total.atto]

\* The reserve's credits fill the stages in the order they are funded.
Funded(left, c) == Count(Least(left.count, Stage(c).count), Least(left.atto, Stage(c).atto))

Left(credits) ==
    LET left[n \in 0 .. Len(Creditable)] ==
            IF n = 0 THEN credits ELSE Minus(left[n - 1], Funded(left[n - 1], Creditable[n]))
    IN  left

CreditedParts(credits) ==
    [n \in DOMAIN Creditable |-> Part(Creditable[n], TRUE, Funded(Left(credits)[n - 1], Creditable[n]))]

TotalOf(parts, c) == Total(Chosen(parts, {i \in DOMAIN parts : parts[i].category = c}))

CutoffParts(credits) ==
    LET credited == CreditedParts(credits)
        Outside(c) == Part(c, FALSE, Minus(Stage(c), TotalOf(credited, c)))
        parts == credited \o Mapped(Outside, OutsideOrder)
    IN  Chosen(parts, {i \in DOMAIN parts : parts[i].count > 0 \/ parts[i].atto > 0})

Unexplained(credits) == Left(credits)[Len(Creditable)]

-----------------------------------------------------------------------------
(* breakdown.ts: largest-remainder rounding. A term is a sign and an amount. *)

DisplayUnit(total) == IF total >= Large THEN One ELSE Hundredth

Abs(n) == IF n < 0 THEN -n ELSE n
Greater(a, b) == IF a > b THEN a ELSE b

RoundAtto(atto, unit) ==
    LET r == (Abs(atto) + unit \div 2) \div unit
    IN  IF atto < 0 THEN -r ELSE r

Term(sign, atto) == [sign |-> sign, atto |-> atto]
Signed(terms, values) == SumOf([i \in DOMAIN terms |-> terms[i].sign * values[i]])

Direction(n) == IF n > 0 THEN 1 ELSE -1

\* The first of the terms that a step by one unit puts least wrong, and none of
\* those it would put below zero.
Nudged(terms, unit, values, step) ==
    LET next == [i \in DOMAIN terms |-> values[i] + step * terms[i].sign]
        error == [i \in DOMAIN terms |-> Abs(next[i] * unit - terms[i].atto)]
        able == {i \in DOMAIN terms : next[i] >= 0}
        best == CHOOSE i \in able : \A j \in able :
                   error[i] < error[j] \/ (error[i] = error[j] /\ i <= j)
    IN  [i \in DOMAIN terms |-> IF able # {} /\ i = best THEN next[i] ELSE values[i]]

Mutant_RoundToTotal(terms, unit, total) == [i \in DOMAIN terms |-> RoundAtto(terms[i].atto, unit)]

Corrected(terms, unit, rounded, diff) ==
    LET values[n \in 0 .. Abs(diff)] ==
            IF n = 0 THEN rounded ELSE Nudged(terms, unit, values[n - 1], Direction(diff))
    IN  values[Abs(diff)]

RoundToTotal(terms, unit, total) ==
    LET rounded == [i \in DOMAIN terms |-> RoundAtto(terms[i].atto, unit)]
    IN  Corrected(terms, unit, rounded, total - Signed(terms, rounded))

RoundAll(totals, unit, total) == RoundToTotal(Mapped(LAMBDA t : Term(1, t.atto), totals), unit, total)

Grouped(parts) ==
    LET Group(g, of) == [group |-> g, parts |-> of, count |-> Total(of).count, atto |-> Total(of).atto]
        groups == Mapped(LAMBDA g : Group(g, Chosen(parts, {i \in DOMAIN parts : GroupOf(parts[i]) = g})),
                         GroupOrder)
    IN  Chosen(groups, {i \in DOMAIN groups : groups[i].parts # <<>>})

\* The subtotals the page also states elsewhere keep their rounding, and the
\* other groups take the difference.
Fixed(g) == g.group \in {"airdropped", "funding"}

Own(g, unit) == IF Fixed(g) THEN RoundAtto(g.atto, unit) ELSE 0

Subtotals(groups, unit, total) ==
    LET free == Chosen(groups, {i \in DOMAIN groups : ~Fixed(groups[i])})
        rest == RoundAll(free, unit, total - SumOf(Mapped(LAMBDA g : Own(g, unit), groups)))
        Place(i) == Cardinality({j \in 1 .. i : ~Fixed(groups[j])})
    IN  IF free = <<>> THEN RoundAll(groups, unit, total)
        ELSE [i \in DOMAIN groups |-> IF Fixed(groups[i]) THEN Own(groups[i], unit) ELSE rest[Place(i)]]

Rounded(groups, values, unit, total) ==
    [total |-> total,
     groups |-> [i \in DOMAIN groups |->
        [group |-> groups[i].group, count |-> groups[i].count, value |-> values[i],
         rows |-> RoundAll(groups[i].parts, unit, values[i])]]]

RoundedGroups(parts, unit) ==
    LET groups == Grouped(parts)
        total == RoundAtto(Total(parts).atto, unit)
    IN  Rounded(groups, Subtotals(groups, unit, total), unit, total)

\* Airdropped, deposited and withdrawn, and what is left of them.
RoundedHoldings(credited, deposited, withdrawn, unit) ==
    LET first == RoundAtto(credited, unit)
        total == RoundAtto(credited + deposited - withdrawn, unit)
        rest == RoundToTotal(<<Term(1, deposited), Term(-1, withdrawn)>>, unit, total - first)
    IN  [values |-> <<first>> \o rest, total |-> total]

-----------------------------------------------------------------------------
(* The two tables (DelegatorBreakdown.tsx), in the unit of the page or, for   *)
(* small deposits or withdrawals, in hundredths.                              *)

PageUnit(s) ==
    DisplayUnit(Greater(s.creditedAtto + s.otherDeposits.atto,
                        SumOf([i \in DOMAIN OutsideOrder |-> Stage(OutsideOrder[i]).atto])))

CutoffTable(s) ==
    LET Table(parts) == [parts |-> parts, unexplained |-> Unexplained(ReserveCredits(s)),
                         rounded |-> RoundedGroups(parts, PageUnit(s))]
    IN  Table(CutoffParts(ReserveCredits(s)))

HoldingsTable(s) ==
    LET Small(atto) == atto > 0 /\ DisplayUnit(atto) # One
        unit == IF Small(s.otherDeposits.atto) \/ Small(s.withdrawals.atto) THEN DisplayUnit(0) ELSE PageUnit(s)
    IN  RoundedHoldings(s.creditedAtto, s.otherDeposits.atto, s.withdrawals.atto, unit)

-----------------------------------------------------------------------------

\* What the page adds up of the events is what the vault held, and who governed
\* it at which fee, after the block it read up to, however the endpoint split
\* the ranges; the activity list neither drops nor repeats an amount.
IsThat(s, then) ==
    LET Gain(row) == IF row.kind = "deposit" THEN row.amount ELSE -row.amount
        held == Seqs!FoldFunction(+, 0, then.held)
    IN  /\ s.balances = then.held
        /\ DelegatorsNow(s) = Cardinality({a \in Members : then.held[a] > 0})
        /\ s.creditedAtto + s.otherDeposits.atto - s.withdrawals.atto = held
        /\ SumOf(Mapped(Gain, Activity(s))) = held
        /\ Seqs!Last(s.governorChanges).next = then.governor
        /\ then.feeBps = IF s.feeChanges = <<>> THEN 0 ELSE Seqs!Last(s.feeChanges).next

SummaryIsTheVault == shown # None => IsThat(Summary, contract[shown.to])

\* The tables add up: the parts to the stages they are of, the rows of a group
\* to its subtotal, the holdings to what is held. The subtotals add up to the
\* total as well, but where the two that keep their rounding were both rounded
\* up, over groups of less than half a unit: then they come to one unit more.
PartsAddUp(table, credits) ==
    /\ \A c \in DOMAIN cutoff : TotalOf(table.parts, c) = cutoff[c]
    /\ LET credited == {i \in DOMAIN table.parts : table.parts[i].credited}
       IN  Plus(Total(Chosen(table.parts, credited)), table.unexplained) = credits

RowsAddUp(groups, total) ==
    LET subtotals == SumOf(Mapped(LAMBDA g : g.value, groups))
        small == \A i \in DOMAIN groups : Fixed(groups[i]) \/ groups[i].value = 0
    IN  /\ \A i \in DOMAIN groups : SumOf(groups[i].rows) = groups[i].value
        /\ subtotals = total \/ (small /\ subtotals = total + 1)

HoldingsAddUp(holdings) ==
    holdings.values[1] + holdings.values[2] - holdings.values[3] = holdings.total

AddUp(s, table) ==
    /\ PartsAddUp(table, ReserveCredits(s))
    /\ RowsAddUp(table.rounded.groups, table.rounded.total)
    /\ HoldingsAddUp(HoldingsTable(s))

TablesAddUp ==
    shown # None =>
        LET Of(s) == AddUp(s, CutoffTable(s))
        IN  Of(Summary)

=============================================================================
