---------------------------- MODULE Entitlements ----------------------------
(***************************************************************************)
(* What one wallet is entitled to, from the files to the two programs that *)
(* decide on it. injector/inject_claims.py reads the files and refuses     *)
(* what does not close; backend/src/claims.ts answers a lookup from the    *)
(* published rows; db/ops/confirmed-wallets.py decides from the same rows  *)
(* which parts a payment batch may send. The two were written apart, in    *)
(* two languages, and the export is meant to be the stricter one.          *)
(*                                                                         *)
(* A part is the wallet part or the shares in one validator's vault. The   *)
(* rows of routing_exceptions of a part are kept as the sums and the sets  *)
(* of destinations both programs reduce them to.                           *)
(***************************************************************************)
EXTENDS Integers, FiniteSets, FiniteSetsExt

CONSTANTS
  Validators,  \* validators that have a vault
  Self,        \* the wallet's own address
  Elsewhere,   \* other addresses a route may name
  Kinds,       \* how the policy files and its code classify the wallet
  Stages,      \* stages the stage policy may assign
  RouteStages, \* stages an ordinary route may carry
  Amounts,     \* amounts of one route, or one delegation
  MaxGross,    \* bound on a component of the account
  MaxRoutes,   \* bound on the routes of the wallet
  None

WalletPart == "wallet_airdrop"
Parts == {WalletPart} \cup Validators
Addresses == {Self} \cup Elsewhere

\* What exchange routes deliver, and where to.
Arrangements == [wallet : Nat, staked : Nat, to : SUBSET Addresses]

KeyControlled == {"ordinary_eoa", "validator_account"}
ReviewedKinds ==
  {"reviewed_contract", "multisig_next_stage", "onewallet_recovery",
   "bridge_later_portal"}
AllKinds == KeyControlled \cup ReviewedKinds \cup {"excluded", "unreviewed_contract"}

ASSUME EntitlementsAssumption ==
  /\ IsFiniteSet(Validators) /\ WalletPart \notin Validators
  /\ None \notin Addresses \cup Arrangements
  /\ Kinds \subseteq AllKinds
  /\ Stages \subseteq {"initial", "next_stage", "deferred"}
  /\ RouteStages \subseteq {"initial", "next_stage", "deferred", "manual_review"}
  /\ None \notin Stages \cup RouteStages \cup {"exchange_manual", "hold", "unknown"}
  /\ Amounts \subseteq Nat /\ MaxGross \in Nat /\ MaxRoutes \in Nat

VARIABLES
  phase,       \* the file the injector is reading, "published" or "refused"
  policy,      \* the wallet's row of the stage policy
  adjustments, \* its routes, part by part
  routeStage,  \* the first stage an ordinary route of it carries
  arranged,    \* what exchange routes deliver, in total
  routes,      \* routes read so far
  exchange,    \* planned delivery of its row in an exchange inventory
  delegation,  \* its rows of the share files: validator -> amount
  account      \* the row of accounts that was published

vars == <<phase, policy, adjustments, routeStage, arranged, routes, exchange,
          delegation, account>>

AtLeast0(n) == IF n > 0 THEN n ELSE 0
The(s) == CHOOSE x \in s : TRUE
-----------------------------------------------------------------------------
(* The rows of the files, for an address in the accounts file and a load of *)
(* all of it. A classified contract that meets the threshold is listed under *)
(* contract review, and a wallet with a key is not.                          *)

\* A policy row. The table's CHECKs refuse a stage of what is not issued, and
\* nothing reads the reason of a stage other than "deferred".
Policies ==
  {p \in [stage : Stages \cup {None}, issuance : {"issue", "not_issued"},
          reason : {"activity", "other"}] :
     /\ p.issuance = "not_issued" => p.stage = None
     /\ p.stage # "deferred" => p.reason = "other"}

Adjustments ==
  [sum : Nat, not_issuing : Nat, redistributed : Nat, hold : Nat,
   exchange_manual : Nat, ready : SUBSET Addresses, manualTo : SUBSET Addresses]

NoAdjustments ==
  [sum |-> 0, not_issuing |-> 0, redistributed |-> 0, hold |-> 0,
   exchange_manual |-> 0, ready |-> {}, manualTo |-> {}]

RouteRow ==
  [part : Parts, amount : Amounts, to : Addresses \cup {None},
   status : {"ready", "hold", "exchange_manual", "not_issuing", "redistributed"},
   treatment : {"issue", "manual_from_reserve", "not_issued", "redistributed"},
   stage : RouteStages \cup {None, "exchange_manual"}]

TreatmentOf ==
  [ready |-> "issue", hold |-> "issue", not_issuing |-> "not_issued",
   redistributed |-> "redistributed"]

RouteAccepted(row) ==
  /\ (row.treatment = "manual_from_reserve") <=> (row.stage = "exchange_manual")
  /\ \/ /\ row.treatment = "manual_from_reserve"
        /\ row.status = "hold" \/ (row.status = "exchange_manual" /\ row.to # None)
     \/ /\ row.status \in DOMAIN TreatmentOf
        /\ row.treatment = TreatmentOf[row.status]

AcceptedRoutes == {row \in RouteRow : RouteAccepted(row)}

ExchangeRow ==
  [planned : {"exchange_manual", "hold", "unknown"},
   tier : {"same_address", "same_address_initial", "aggregated_non_initial"},
   tiered : BOOLEAN,
   wallet : Addresses \cup {None}, staking : Addresses \cup {None}]

AccountRow ==
  [kind : Kinds, gross : 0..MaxGross, staked : 0..MaxGross, meets : BOOLEAN]

Init ==
  /\ phase = "stages" /\ policy = None
  /\ adjustments = [p \in Parts |-> NoAdjustments]
  /\ routeStage = None /\ arranged = None /\ routes = 0
  /\ exchange = None /\ delegation = [v \in {} |-> 0] /\ account = None
-----------------------------------------------------------------------------
(* The injector. Every error ends the load before anything is published. *)

Refuse ==
  /\ phase' = "refused"
  /\ UNCHANGED <<policy, adjustments, routeStage, arranged, routes, exchange,
                 delegation, account>>

ReadStagePolicy ==
  /\ phase = "stages"
  /\ policy' \in Policies \cup {None}
  /\ phase' = "routes"
  /\ UNCHANGED <<adjustments, routeStage, arranged, routes, exchange,
                 delegation, account>>

\* What a route adds to its part. Of a ready one only the destination counts,
\* except in the sum of all.
Add(a, row) ==
  LET Of(status) == IF row.status = status THEN row.amount ELSE 0
      To(status) == IF row.status = status THEN {row.to} \ {None} ELSE {}
  IN  [sum |-> a.sum + row.amount,
       not_issuing |-> a.not_issuing + Of("not_issuing"),
       redistributed |-> a.redistributed + Of("redistributed"),
       hold |-> a.hold + Of("hold"),
       exchange_manual |-> a.exchange_manual + Of("exchange_manual"),
       ready |-> a.ready \cup To("ready"),
       manualTo |-> a.manualTo \cup To("exchange_manual")]

\* The totals of exchange routes, per component and not per part.
Arrange(a, row) ==
  LET old == IF a = None THEN [wallet |-> 0, staked |-> 0, to |-> {}] ELSE a
  IN  IF row.treatment # "manual_from_reserve" THEN a
      ELSE [wallet |-> old.wallet + (IF row.part = WalletPart THEN row.amount ELSE 0),
            staked |-> old.staked + (IF row.part # WalletPart THEN row.amount ELSE 0),
            to |-> old.to \cup ({row.to} \ {None})]

ReadRoute(row) ==
  /\ phase = "routes" /\ routes < MaxRoutes
  /\ adjustments' = [adjustments EXCEPT ![row.part] = Add(@, row)]
  /\ routeStage' = IF routeStage = None /\ row.stage \in RouteStages
                   THEN row.stage ELSE routeStage
  /\ arranged' = Arrange(arranged, row)
  /\ routes' = routes + 1
  /\ UNCHANGED <<phase, policy, exchange, delegation, account>>

RefuseRoute == phase = "routes" /\ AcceptedRoutes # RouteRow /\ Refuse

NothingIssued == policy # None /\ policy.issuance = "not_issued"

EndRoutes ==
  /\ phase = "routes"
  /\ phase' = IF arranged # None /\ NothingIssued THEN "refused" ELSE "exchanges"
  /\ UNCHANGED <<policy, adjustments, routeStage, arranged, routes, exchange,
                 delegation, account>>

\* The inventory row must plan what the routes deliver, and to no other
\* address. Its planned amounts are the routes' or the row is refused.
ExchangeAccepted(row) ==
  \/ row.planned = "unknown" /\ arranged = None
  \/ /\ row.planned # "unknown" /\ arranged # None
     /\ arranged.to \subseteq {row.wallet, row.staking}
     /\ row.tier # "aggregated_non_initial" => arranged.to \subseteq {Self}
     /\ row.tiered =>
          ((row.tier = "same_address_initial")
             <=> (policy # None /\ policy.stage = "initial"))

AcceptedExchangeRows == {row \in ExchangeRow : ExchangeAccepted(row)}

ReadExchanges ==
  /\ phase = "exchanges"
  /\ exchange' \in {row.planned : row \in AcceptedExchangeRows}
                    \cup (IF arranged = None THEN {None} ELSE {})
  /\ phase' = "delegations"
  /\ UNCHANGED <<policy, adjustments, routeStage, arranged, routes, delegation,
                 account>>

\* A row is refused, or there is none for a wallet with exchange routes.
RefuseExchange ==
  /\ phase = "exchanges"
  /\ AcceptedExchangeRows # ExchangeRow
  /\ Refuse

\* The share files. That they add up to the account is not required.
ReadDelegations ==
  /\ phase = "delegations"
  /\ \E positions \in SUBSET Validators :
       delegation' \in [positions -> Amounts]
  /\ phase' = "accounts"
  /\ UNCHANGED <<policy, adjustments, routeStage, arranged, routes, exchange, account>>
-----------------------------------------------------------------------------
(* The wallet's row of the accounts file, checked against all the others. *)

Terminal(p) == adjustments[p].not_issuing + adjustments[p].redistributed
Routed(p) == adjustments[p].sum

TerminalOfVaults == MapThenSumSet(Terminal, Validators)
RoutedOfVaults == MapThenSumSet(Routed, Validators)

\* Exception sums never exceed the component they are taken from.
WithinSource(row) ==
  /\ Routed(WalletPart) <= row.gross
  /\ RoutedOfVaults <= row.staked

\* Exchange routes deliver all that is not terminal.
Covered(row) ==
  arranged # None =>
    /\ arranged.wallet = row.gross - Terminal(WalletPart)
    /\ arranged.staked = row.staked - TerminalOfVaults

\* The stage policy's allocation equals the component less its terminal
\* routes; what is not issued has none.
Allocation(row) ==
  IF arranged # None THEN [wallet |-> arranged.wallet, staked |-> arranged.staked]
  ELSE IF policy = None THEN [wallet |-> 0, staked |-> 0]
  ELSE [wallet |-> AtLeast0(row.gross - Terminal(WalletPart)),
        staked |-> AtLeast0(row.staked - TerminalOfVaults)]

AccountAccepted(row) ==
  /\ row.meets <=> (policy # None)
  /\ row.kind = "excluded" => row.meets
  /\ WithinSource(row)
  /\ Covered(row)
  /\ NothingIssued =>
       Allocation(row).wallet + Allocation(row).staked = 0

CategoryOf(kind) ==
  IF kind \in KeyControlled \cup {"excluded"} THEN kind ELSE "contract"

\* contract_treatment of a wallet of this kind.
TreatmentAs(kind) ==
  IF kind \notin ReviewedKinds THEN None
  ELSE IF NothingIssued THEN "contract_not_issued"
  ELSE IF kind = "reviewed_contract" THEN None
  ELSE kind

Published(row) ==
  [category |-> CategoryOf(row.kind),
   treatment |-> TreatmentAs(row.kind),
   reviewed |-> row.meets /\ row.kind \in ReviewedKinds,
   applied |-> policy # None,
   stage |-> IF arranged # None THEN "exchange_manual"
             ELSE IF policy # None THEN policy.stage
             ELSE "below_threshold",
   issuance |-> IF arranged # None THEN "manual_from_reserve"
                ELSE IF policy # None THEN policy.issuance
                ELSE "issue",
   reason |-> IF arranged = None /\ policy # None THEN policy.reason ELSE "other",
   allocation |-> Allocation(row),
   gross |-> row.gross, staked |-> row.staked, meets |-> row.meets]

ReadAccount(row) ==
  /\ phase = "accounts"
  /\ \/ /\ AccountAccepted(row)
        /\ account' = Published(row) /\ phase' = "published"
        /\ UNCHANGED <<policy, adjustments, routeStage, arranged, routes,
                       exchange, delegation>>
     \/ ~AccountAccepted(row) /\ Refuse

\* Another load starts from its files.
Restart ==
  /\ phase \in {"published", "refused"}
  /\ phase' = "stages" /\ policy' = None
  /\ adjustments' = [p \in Parts |-> NoAdjustments]
  /\ routeStage' = None /\ arranged' = None /\ routes' = 0
  /\ exchange' = None /\ delegation' = [v \in {} |-> 0] /\ account' = None

Next ==
  \/ ReadStagePolicy \/ EndRoutes \/ RefuseRoute \/ ReadExchanges
  \/ RefuseExchange \/ ReadDelegations \/ Restart
  \/ \E row \in AcceptedRoutes : ReadRoute(row)
  \/ \E row \in AccountRow : ReadAccount(row)

Spec == Init /\ [][Next]_vars
-----------------------------------------------------------------------------
(* The lookup's answer, from the published rows. *)

Positions == DOMAIN delegation
Gross(p) == IF p = WalletPart THEN account.gross ELSE delegation[p]

\* What is left of a part to deliver.
Rest(p) ==
  Gross(p) - Terminal(p) - adjustments[p].hold - adjustments[p].exchange_manual

Nowhere(status) == [to |-> None, status |-> status]

Destination(p) ==
  LET a == adjustments[p]
      redirects == a.ready \ {Self}
      One(s) == IF Cardinality(s) = 1 THEN The(s) ELSE None
  IN  IF Gross(p) = 0 THEN Nowhere("none")
      ELSE IF Rest(p) > 0
        THEN [to |-> IF Cardinality(redirects) = 1 THEN The(redirects) ELSE Self,
              status |-> "ready"]
      ELSE IF a.hold > 0 THEN Nowhere("hold")
      ELSE IF a.exchange_manual > 0
        THEN [to |-> One(a.manualTo), status |-> "exchange_manual"]
      ELSE IF a.redistributed > 0 /\ a.not_issuing = 0 THEN Nowhere("redistributed")
      ELSE Nowhere("not_issuing")

\* Mutant of InitialStage: any stage of the policy counts.
Mutant_AnyStage == account.applied

InitialStage == account.applied /\ account.stage = "initial"

WalletNet == AtLeast0(Gross(WalletPart) - Terminal(WalletPart))

\* issuable_atto: what the initial airdrop delivers to the wallet.
Issuable ==
  LET deliverable == IF InitialStage /\ Destination(WalletPart).status = "ready"
                     THEN account.allocation.wallet ELSE 0
  IN  IF deliverable < Rest(WalletPart) THEN deliverable ELSE Rest(WalletPart)

ExpectedShares(v) == AtLeast0(Gross(v) - Terminal(v) - adjustments[v].exchange_manual)
InitialShares(v) == IF InitialStage THEN ExpectedShares(v) ELSE 0

NotIssued(p) == adjustments[p].not_issuing
NotIssuedTotal == NotIssued(WalletPart) + MapThenSumSet(NotIssued, Positions)

NetTotal ==
  AtLeast0(account.gross + account.staked - Terminal(WalletPart)
             - MapThenSumSet(Terminal, Positions))

Manual == account.issuance = "manual_from_reserve"

ReviewedContractIsNotIssued ==
  /\ account.category = "contract" /\ account.reviewed
  /\ account.treatment \notin
       {"multisig_next_stage", "onewallet_recovery", "bridge_later_portal"}

\* migration_policy as the account alone determines it.
PolicyOfAccount ==
  LET issuance ==
        IF Manual THEN "manual_from_reserve"
        ELSE IF account.issuance = "not_issued" \/ ReviewedContractIsNotIssued
          THEN "not_issued"
        ELSE "issue"
  IN  [issuance |-> issuance,
       stage |-> IF Manual THEN "exchange_manual"
                 ELSE IF account.applied THEN account.stage
                 ELSE IF issuance = "not_issued" \/ account.meets THEN None
                 ELSE "below_threshold",
       total |-> IF account.applied \/ Manual
                 THEN account.allocation.wallet + account.allocation.staked ELSE 0]

\* With amounts shown, routes fill in what no stage policy decided.
PolicyWithRoutes ==
  LET base == PolicyOfAccount
      compiled == IF routeStage = None THEN base
                  ELSE [base EXCEPT !.stage = routeStage,
                                    !.total = IF routeStage = "manual_review"
                                              THEN NetTotal ELSE @]
  IN  IF account.applied \/ Manual THEN base
      ELSE IF NetTotal = 0 /\ NotIssuedTotal > 0
        THEN [issuance |-> "not_issued", stage |-> None, total |-> 0]
      ELSE compiled

\* The first rule that applies decides the disposition.
Disposition(p, nothingLeft, walletStatus) ==
  IF p.issuance = "not_issued" \/ nothingLeft THEN "not_issuing"
  ELSE IF exchange # None
    THEN IF p.issuance = "manual_from_reserve" THEN "handled_by_exchange"
         ELSE "exchange_no_claim"
  ELSE IF account.meets /\ ~account.applied THEN "hold"
  ELSE IF account.treatment \in
            {"multisig_next_stage", "onewallet_recovery", "bridge_later_portal"}
    THEN account.treatment
  ELSE IF p.stage \in {"deferred", "manual_review", "below_threshold"} THEN "deferred"
  ELSE IF account.category = "contract" THEN "contract_recovery"
  ELSE IF p.stage = "initial"
    THEN IF walletStatus \in {"ready", "none"} THEN "automatic_same_address" ELSE "hold"
  ELSE IF walletStatus = "hold" THEN "hold"
  ELSE "deferred"

\* Amounts of contracts are hidden unless the operator exposes them.
Answer(expose) ==
  IF account.category = "contract" /\ ~expose
  THEN [policy |-> PolicyOfAccount,
        disposition |-> Disposition(PolicyOfAccount, FALSE, None),
        status |-> None]
  ELSE LET p == PolicyWithRoutes
           nothingLeft == NetTotal = 0 /\ NotIssuedTotal > 0
           d == Disposition(p, nothingLeft, Destination(WalletPart).status)
       IN  [policy |-> p,
            disposition |-> d,
            status |-> IF p.issuance = "not_issued" \/ nothingLeft THEN "not_issuing"
                       ELSE IF d = "handled_by_exchange" THEN d
                       ELSE IF p.stage = "next_stage" THEN "next_stage"
                       ELSE IF p.stage = "initial" THEN "prioritized"
                       ELSE "deferred"]

\* The lookup page shows the link to /confirm.
Offered(expose) ==
  LET p == Answer(expose).policy
  IN  /\ exchange = None
      /\ account.category \in KeyControlled
      /\ p.issuance = "issue" /\ p.stage = "deferred"
      /\ account.reason = "activity"
-----------------------------------------------------------------------------
(* The export, and the candidate set it is about. *)

\* load-candidates.py, from the stage policy the ledger was loaded with.
Candidate ==
  /\ exchange = None
  /\ account.category \in KeyControlled
  /\ policy # None
  /\ policy.stage = "deferred" /\ policy.issuance = "issue"
  /\ policy.reason = "activity"
  /\ account.allocation.wallet + account.allocation.staked > 0

\* Mutant of Delivery: routes to other addresses do not matter.
Mutant_DeliveryKeepsRedirects(p, gross) ==
  LET a == adjustments[p]
  IN  IF gross <= 0 THEN "none"
      ELSE IF a.hold # 0 THEN "hold"
      ELSE IF a.exchange_manual # 0 THEN "exchange_manual"
      ELSE IF gross - Terminal(p) > 0 THEN "ready"
      ELSE IF a.redistributed # 0 /\ a.not_issuing = 0 THEN "redistributed"
      ELSE "not_issuing"

\* Mutant of Delivery: amounts delivered by hand do not matter.
Mutant_DeliveryKeepsManual(p, gross) ==
  LET a == adjustments[p]
  IN  IF gross <= 0 THEN "none"
      ELSE IF a.ready \ {Self} # {} THEN "redirect"
      ELSE IF a.hold # 0 THEN "hold"
      ELSE IF gross - Terminal(p) > 0 THEN "ready"
      ELSE IF a.redistributed # 0 /\ a.not_issuing = 0 THEN "redistributed"
      ELSE "not_issuing"

\* "ready" when a batch may send all of the part to the wallet itself.
Delivery(p, gross) ==
  LET a == adjustments[p]
  IN  IF gross <= 0 THEN "none"
      ELSE IF a.ready \ {Self} # {} THEN "redirect"
      ELSE IF a.hold # 0 THEN "hold"
      ELSE IF a.exchange_manual # 0 THEN "exchange_manual"
      ELSE IF gross - Terminal(p) > 0 THEN "ready"
      ELSE IF a.redistributed # 0 /\ a.not_issuing = 0 THEN "redistributed"
      ELSE "not_issuing"

\* Mutant of Mismatched: the positions are taken as they are.
Mutant_MismatchedUnchecked == FALSE

\* Vault shares that do not add up to the ledger's allocation are blocked.
Mismatched == MapThenSumSet(ExpectedShares, Positions) # account.allocation.staked

PositionStatus(v) ==
  IF ExpectedShares(v) <= 0 THEN "none"
  ELSE IF Delivery(v, Gross(v)) # "ready" \/ Mismatched THEN "blocked"
  ELSE "pending"

WalletStatus ==
  LET allocation == account.allocation.wallet
      gross == Gross(WalletPart)
  IN  IF allocation <= 0 THEN "none"
      ELSE IF Delivery(WalletPart, IF gross # 0 THEN gross ELSE allocation) # "ready"
        THEN "blocked"
      ELSE "pending"

PendingShares(v) == IF PositionStatus(v) = "pending" THEN ExpectedShares(v) ELSE 0

\* What the export calls pending, the most that its batches pay.
PendingTotal ==
  (IF WalletStatus = "pending" THEN account.allocation.wallet ELSE 0)
    + MapThenSumSet(PendingShares, Positions)
-----------------------------------------------------------------------------
(* What the three promise together. *)

\* The share files add up to the account. The injector only warns when not.
SharesAddUp == MapThenSumSet(Gross, Positions) = account.staked

\* The routes of a validator fit the wallet's position with it. Nothing checks
\* it: the injector compares their sum over all validators.
RoutesFitPositions ==
  \A v \in Validators : Routed(v) <= (IF v \in Positions THEN Gross(v) ELSE 0)

EntitlementsTypeOK ==
  /\ phase \in {"stages", "routes", "exchanges", "delegations", "accounts",
                "published", "refused"}
  /\ policy \in Policies \cup {None}
  /\ adjustments \in [Parts -> Adjustments]
  /\ routeStage \in RouteStages \cup {None}
  /\ arranged \in Arrangements \cup {None}
  /\ routes \in 0..MaxRoutes
  /\ exchange \in {None, "exchange_manual", "hold", "unknown"}
  /\ \E positions \in SUBSET Validators : delegation \in [positions -> Amounts]
  /\ phase # "published" => account = None

\* The export is the stricter reading: whatever it would pay to the wallet, the
\* lookup shows as delivered to the wallet's own address, and as much of it.
PaidAsShown ==
  phase = "published" =>
    /\ WalletStatus = "pending" =>
         /\ Destination(WalletPart) = [to |-> Self, status |-> "ready"]
         /\ WalletNet = account.allocation.wallet
    /\ \A v \in Positions : PositionStatus(v) = "pending" =>
         Destination(v) = [to |-> Self, status |-> "ready"]

\* All the export would pay is at most the allocation of the ledger and the
\* total the lookup shows, also when routes name the wrong validator or the
\* share files do not add up to the account.
PaidWithinEntitlement ==
  phase = "published" =>
    /\ PendingTotal <= account.allocation.wallet + account.allocation.staked
    /\ PendingTotal <= NetTotal

\* A candidate is offered /confirm by the lookup page, is not part of the
\* initial airdrop, and, if its share rows add up, has a part in the export
\* that is pending or blocked: its allocation is not lost from sight.
CandidatesAreListed ==
  phase = "published" /\ Candidate =>
    /\ Offered(FALSE)
    /\ Issuable = 0
    /\ SharesAddUp =>
         \/ WalletStatus \in {"pending", "blocked"}
         \/ \E v \in Positions : PositionStatus(v) \in {"pending", "blocked"}

\* An exchange wallet is delivered by hand: the initial airdrop pays none of it
\* and no batch does, provided its routes fit its positions and these add up.
ExchangeNotPaid ==
  phase = "published" /\ Manual =>
    /\ Issuable = 0 /\ Answer(TRUE).disposition \in {"handled_by_exchange", "not_issuing"}
    /\ \A v \in Positions : InitialShares(v) = 0
    /\ RoutesFitPositions /\ SharesAddUp => PendingTotal = 0
=============================================================================
