# The Harmony claim portal in TLA+

This directory holds a verification project for the portal in `src/`: TLA+
modules that model parts of it, TLC configurations that check small instances,
and TLAPS proofs that hold for every instance. Paths below are relative to `src/`.
`PROJECT.json` lists every component, run, hazard and theorem, and the lines each
definition stands for.

## The system

Harmony's ledger was cut off at a block; balances and stakes migrate to
Ethereum. The portal shows an address what it gets, lets wallets that were left
out prove they are alive, and helps the owner pay them and vault governors name
their vaults. In the browser it also claims bridged tokens, works the governor
vaults, and shows the transactions of the old chain.

| part | where | state it keeps | operations |
| --- | --- | --- | --- |
| Lookup API | `backend/src/app.ts`, `claims.ts`, `repository.ts` | none but a cache of one row; reads the ledger tables | look up an address, meta |
| Confirm API | `backend/src/confirm/*`, `confirm-server.ts` | rows of `confirm.confirmations`; nothing in memory | status, challenge, submit |
| Vault names | `backend/src/vault/*` (same process) | `vault.metadata`, `vault.metadata_changes` | list, challenge, submit |
| Proxy, HTTP shell | `backend/src/proxy.ts`, `http.ts` | rate-limit counters | forward, time out, refuse |
| Candidate load | `db/ops/load-candidates.*` | `confirm.candidates`, `candidate_loads` | replace the candidate set |
| Attestations | `db/ops/record-attestation.*` | attested rows of `confirm.confirmations` | plan offline, apply in one transaction |
| Reviews | `db/ops/record-review.*`, `review_tracks.py` | `confirm.reviews`, appended only | approve, reject, sent, unsent |
| Export and payments | `db/ops/confirmed-wallets.*`, `chain-deliveries.py` | run directories; the chain | classify, list payable parts, compare with the chain |
| Claim injector | `injector/inject_claims.py` | the ledger tables, `snapshot_meta` | stage, swap in one transaction |
| Transaction archive | `injector/inject_archive.py`, `backend/src/archive.ts`, `frontend/src/history/*` | the archive tables; the page's queries | load, pages of an address, records of a transaction |
| Builders | `injector/build_*.py` | files | bridge proofs, vault catalog |
| Bridge page | `frontend/src/bridge/*` | per chain what was read and the claim under way | read, check, send, follow a claim; look an address up |
| Vault page | `frontend/src/vault/*` | forms, dialogs, transactions; what was read of the vault | withdraw, deposit, fee, hand-over; figures and tables |
| Confirm page | `frontend/src/ConfirmPage.tsx`, `useWallet.ts`, `walletconnect.ts`, `signer.ts` | the connection, statuses, one submission | pick an account, ask, confirm |
| Ledger | `frontend/src/ledger/*`, `LedgerPage.tsx` | transport, queue, accounts | connect, list, sign |
| Deployment | `backend/deploy`, `db/ops/setup-roles.sh`, `env-snapshot.sh`, `infra` | releases, env files, roles | deploy, roll back, back up |

### How they interact

* The confirm API and the owner's scripts share schema `confirm` in Postgres.
  The API takes `ACCESS SHARE` on `confirm.candidates` within its transaction;
  `load-candidates.sh` truncates that table under an exclusive lock; an
  attestation's transaction reads it again. They meet nowhere else.
* `record-review.sh` reads the same tables plus the ledger in several sessions,
  plans offline in Python, then locks `confirm.reviews`, compares the row count
  and appends. The export reads what it appended, sorted by `reviewed_at`.
* The claim injector replaces the ledger under everybody, without any lock the
  others take; `inject_archive.py` does the same with the archive.
* Vault names depend on Ethereum: who governs a vault is read over RPC before
  the transaction that stores the name.
* The pages call the APIs like any other client: requests are lost, repeated and
  sent late. They sign and send through a browser wallet, a WalletConnect session
  or a Ledger, each of which may switch accounts, or be gone, between two steps.
* The pages share no state with each other but what `localStorage` has: leaving a
  page drops what it kept, so a tab is at one page at a time.

### What is hard, and what makes each part correct

| part | hard behaviour | correctness |
| --- | --- | --- |
| Confirm API | four awaits between the first read and COMMIT; retries after lost answers; two inserts of one key; a load in between; a lock queue | one row per wallet and set; what a caller is told is what is stored; a signature confirms only the set it names; rows enter only under the loaded set; every request ends |
| Candidate load, attestations | plans made from old reads; all rows or none | the set changes as a whole; an attestation agrees with the set it is applied under |
| Reviews | two operators; offline plans; order by a time fixed at BEGIN; run names reused; undo and mark again; reloads between steps | the appended rows read back as a serial book; nothing is marked sent twice or unapproved |
| Vault names | first names of one vault at once; retries after newer names; governor changes | the name shown is the one issued last; every change is in the history; every signer governed |
| Lookup API | seven queries without a transaction while the ledger is swapped | one answer from one ledger |
| Lookup API, export, injector | the same files read by two programs in two languages, of which one pays; routes that overlap, and sums that do not close | what is paid is shown, to the same address, and within the allocation; nobody is promised the airdrop twice or lost between the rules |
| Bridge page | rows checked before the wallet's prompt and sent after it; a wallet that reprices, cancels or replaces; other claimants; altered proof files | what is reported paid was paid; a final outcome is final; every row shown is listed |
| Vault page | dialogs that outlive an account switch; an approval and a deposit in two transactions; ranges that are split while blocks are mined; rounding in two levels | ONE moves where and in the amount that was ticked; the deposit finds its approval; the summary is the vault's state; tables add up |
| Confirm page | answers and signatures that come back for a wallet that is no longer connected | confirmed is shown only of what is recorded; submitted is signed by the address itself |
| Ledger | operations taking turns report by report; late and foreign reports; disconnects; a device that is unlocked anew | what is shown and signed is the device's own account's |
| Transaction archive | a cursor over two merged lists; late and repeated page reads; a load between two pages | the pages list every record once |
| Deployment | failure between steps | env and release pointer restored |

`PROJECT.json` names the line of every hazard and the properties that cover it.

## The modules

```
Confirmations ── ConfirmationRegister      Reviews ── DeliveryBook      VaultNames ── NameRegister
      │   └ ConfirmationsProofs                │  └ ReviewsProofs             │  └ VaultNamesProofs
MCConfirmations                            MCReviews                      MCVaultNames

LedgerLoad ── MCLedgerLoad                 Entitlements ── MCEntitlements
   │   └ LedgerLoadProofs                      └ EntitlementsProofs
Lookup ── MCLookup

Wallet ─┬─ BridgeClaims ─┐
        ├─ BridgeLookup ─┤         (BridgeLookup, History and VaultFigures
        ├─ VaultPage ────┤          also extend Listing)
        ├─ ConfirmPage ──┼─ Portal ── MCPortal
        ├─ LedgerSession ┤
        ├─ History ──────┤         VaultPage ── MCVaultPage
        └─ VaultFigures ─┘
BridgeHistoryProofs ── VaultPageProofs ── PortalProofs
```

In the first two rows a module right of a line is the abstract specification the
left one implements (`INSTANCE ... WITH` in the module itself). `Lookup` extends
`LedgerLoad` and composes it with the requests that read what it publishes;
`LedgerLoadProofs` is about both. Of the last row each extends the ones before
it: `BridgeHistoryProofs` is about the bridge page and the history page,
`VaultPageProofs` about the vault page with its summary and what rounding does,
`PortalProofs` about the tables of the vault page, the other pages and all of them together.
`Entitlements` is about the content of one wallet's rows, which the others treat
as one value. `Portal` puts the pages side by side.


### Confirmations

`backend/src/confirm`, `db/ops/load-candidates.sh`, `db/ops/record-attestation.sh`.

| state | code |
| --- | --- |
| `candidates` | `confirm.candidates`, one row or `None` per address |
| `confirmations` | committed rows of `confirm.confirmations`; `evidence` is the signed message or `Attested` |
| `ledgerVersion` | `snapshot_meta.data_version` of the loaded ledger |
| `challenges` | messages the API handed out; anyone may submit any of them at any time |
| `request[r]` | the locals of one request and the await it is at |
| `loader`, `attestation` | the two scripts, between their sessions and inside their transactions |

One action is the code between two awaits. `FindCandidate` and
`FindConfirmation` are the reads both handlers begin with, together with all the
decisions made on them; `InsertSelect`, `InsertRow`, `InsertCommit` are the
statements of `insertConfirmation`; `FindAgain` is the read after a conflict.
`Fail` ends any of them, and at COMMIT it may leave the row. Data and policy
version are one value. A message stands for its signature: a signature is
accepted for exactly one message, which leaves out the two schemes.

Postgres is modelled by what the code relies on. A transaction keeps `ACCESS
SHARE` from its SELECT to its end (`Unshared`); `TRUNCATE` waits for that and
makes later readers wait (`Readable`); an INSERT waits while another open
transaction has inserted its key (`KeyFree`); uncommitted rows are invisible.

`ConfirmationRegister` is the promise: a write-once register per wallet and
version beside a set that is replaced as a whole.

### Reviews

`db/ops/record-review.sh`, `record-review.py`, `review_tracks.py`,
`owner_db_extract` of `owner-db.sh`.

A command (`op[o]`) goes from reading the tables to planning, `BEGIN`, the lock
and count check, and COMMIT; it may stop anywhere. `reviews` is the sequence of
committed transactions, each with the time it began. `Latest`, `Decision`, `Sent`,
`RunManifests` and `RunTracks` are `ReviewState`, which sorts rows by that time;
`Approvable`, `RunUsable`, `Payable` and the `...Plan` operators are the planner's
checks and rows. One model row stands for the note format that encodes it, and `Signed` for
the confirmations whose signature is of their address, which an approval asks for.
What the export's classification yields (amounts, blocked parts) comes with a
ledger, and any ledger can be loaded at any time.

Any number of transactions equals any row count, since a committed plan appends
at least one row and nothing is deleted: the model compares `Len(reviews)`.

`DeliveryBook` is the promise: a serial book of decisions and senders.

### VaultNames

`backend/src/vault/service.ts`, `store.ts`, `chain.ts`. The state of a request is
the await it is at: the code of the vault, its governor, the advisory lock, the SELECT,
the writes, COMMIT. The lock is state of its own (`locked`), taken by `LockVault` and given
up by COMMIT, ROLLBACK or the end of the session (`Release`), so that a branch that
answers and forgets the ROLLBACK can be told from one that does not.
`Transfer` changes a governor, or deploys a vault, at any time, between the two reads
of the chain too; nodes that disagree are left out. A unique violation rolls back and is
answered from a later read under no lock (`ListAgain`). Under the advisory lock no
signature is written twice, so that branch of `ReadRow` is never due, which the
proofs show.
`NameRegister` is the promise: per vault a log, and the last issued of it shown.

### LedgerLoad and Lookup

`injector/inject_claims.py` `load_into_db` (and the copy of it in
`inject_archive.py`); `backend/src/app.ts` and `repository.ts`.

A load is a process of three transactions: `CreateStaging`; `StartCopy` and
`CommitCopy`; `Swap`. `public[t]` and `staging[t]` are the dataset a table's rows
are of. `FailLoad` ends a load anywhere and leaves what it committed. DDL on the
staging tables waits for an open copy (`StagingFree`), and two copies into the
same tables cannot both commit, since each inserts the same keys into
`snapshot_meta`. `overlapped` is a history flag.

A lookup sends one query per table in any order (`ReadTable`), and the vaults
when all of it is back. `StartLookup` decides on the cache and takes the entry's
time before the first await; `ReadMeta` is the query, `StoreMeta` the moment its
rows reach the process, which another request's may have preceded, and which may
come after the request itself failed. `TTL` is the 15 s of `getMeta`. The
cached `reason_texts` are wording and left out. The clock does not go back.

### Entitlements

`injector/inject_claims.py` `build_real_dataset`, `backend/src/claims.ts`,
`db/ops/confirmed-wallets.py`, `db/ops/load-candidates.py` and
`claimCanRequestConfirmation` of `shared/src/confirm.ts`, for one wallet.

The actions are the injector reading the files in its order: the stage policy
row, any routes, the exchange inventory row, the share rows, the account. Each
either accepts what it reads or ends the load (`Refuse`). Stage allocations and
planned amounts that a row repeats are not enumerated: a row with another value
is refused, so the checks are kept as the value that passes (`Allocation`).
`adjustments` keeps of the routes what both readers reduce them to.

On a published wallet the operators evaluate the two readers: `Destination`,
`Issuable`, `PolicyWithRoutes`, `Disposition` and `Answer` are the lookup, with and
without the amounts of contracts; `Delivery`, `PositionStatus`, `WalletStatus` and
`PendingTotal` are the export; `Candidate` is the selection of the candidate load.
Left out: addresses that are not in the accounts file, loads of a sample
(`--limit`), and the checks over all wallets at once (checksums, totals, vaults).

`SharesAddUp` and `RoutesFitPositions` name two things about the files that no
program enforces. The first is a warning of the injector; the second is compared
only as a sum over all validators. `PaidWithinEntitlement` holds without either,
because the export blocks every position when the shares do not add up to the
allocation. `ExchangeNotPaid` needs both: with a route that names a validator the
wallet has no position with, a position of an exchange wallet can pass as pending.
Such a wallet has to be confirmed before it is paid, and `Candidate` excludes it.


### Wallet

`frontend/src/useWallet.ts`, `walletconnect.ts`: which of the addresses a wallet
shares a page acts for (`ChooseAccount`), and on which of its chains a request is
made (`RequestChain`). The page modules extend it.

### Listing

A sort, for `ORDER BY` and `Array.prototype.sort`: the n-th element is the one that
n - 1 others come before. `BridgeLookup`, `History` and `VaultFigures` sort with it.
It says the same as `SetToSortSeq` where the order is total, and unlike that it is
a definition the provers know. `Chosen` is the same for `Array.prototype.filter`, which keeps
the elements at some places, in their order; `VaultFigures` selects parts and groups with it.

### BridgeClaims

One chain's card of `frontend/src/bridge/BridgePage.tsx`, with `claim.ts`,
`model.ts` and `state.ts`.

| state | code |
| --- | --- |
| `code`, `payer`, `available`, `refusing` | the claim contract: its code, who was paid a row by which transaction, what the Safe lets it pay, tokens that refuse |
| `sent` | what became of each transaction the wallet broadcast |
| `read`, `view`, `stale` | the query of the contract's state: its two calls, its data, its invalidation |
| `refused`, `check`, `tx` | the card: rows that reverted, the simulations under way, the claim shown |

`Claim` starts with `PayableRows`; `SimulateBatch`, `SimulateRow`, `FinishAlone` and
`SimulateLeft` are `checkBatch`; `Send` is the wallet's answer to the prompt;
`Receipt`, `StopWaiting` and `CheckAgain` are `follow`. `Include` and `Replace` are
the network and the wallet; `OtherClaim`, `SafeMoves` and `TokenMoves` everybody
else. `LookAway` puts the card up anew for another address while a transaction is
on its way. A prompt that fails, or whose card is gone, may have sent the transaction all
the same (`LeftToWallet`). Anyone may send a claim for any row, so the sender is left out.

### BridgeLookup

What the page shows before anything is claimed: `deployments.ts` checks of the
contract list it is built with (`CheckDeployments`), `proofs.ts` checks of a proof
file (`RowsFromShard`), `snapshots.ts` dates of the amounts, and the address looked
up, which a connected account fills in. `MCFiles` serves true rows, each of them
altered in one field, and files of another run or prefix. A Merkle proof stands
for the leaf it hashes to: `VerifyProof` compares it with the row.

### VaultPage

The forms of one vault: `VaultActions.tsx` with `VaultDetail.tsx`, `useVaultSigner.ts`
and `release.ts`. `flows` are what the forms have started, each with the calls left
to send; a flow goes on with the account it was started with. `SubmitWithdraw`,
`AgreeToRelease` and `ConfirmRecipient` share `proceed` (`Proceed`); `SubmitDeposit`
starts an approval and a deposit, or the deposit alone; `SetFee`, `SubmitTransfer`
and `Transfer` are the governor's. `SignerChanges` switches the account at any
time: the forms, and a dialog that is open, stay if that account's balances are
cached (`Kept`). Dialogs are modal, so one form at a time waits in one; its box is ticked
and cleared at will (`Toggle`). A call that fails in the wallet may have been sent (`FailSend`).
`localStorage` is assumed to be available; amounts are whole units.

### VaultFigures

`chain.ts` `readVaultLogs`, `activity.ts` `summarize`, `breakdown.ts` and
`DelegatorBreakdown.tsx`. The actions are the chain (`MineBlock`) and the read of
its events in ranges that the endpoint answers or refuses (`RangeIsBack`,
`RangeFails`, which halves a range). `Summary`, `CutoffTable` and `HoldingsTable` are
the operators that turn what was read into what is shown, rounding included
(`RoundToTotal`, `RoundedGroups`, `RoundedHoldings`). Amounts are small: a unit of ONE
is 4, a hundredth is 2, and totals from 5 on are shown in ONE, so that parts of
half a unit occur. One transaction of the vault per block, no reorganisations, and
the catalog's stage totals sum to the vault's stake, as its builder checks. Sums over
what was read are recursive functions (`SumOf`, `SummaryOf`, `AfterAll`). Size
and detail of a vault are read at blocks of their own and not compared.

### ConfirmPage

`frontend/src/ConfirmPage.tsx`. `connection`, `chosen` and `usb` are what the page
acts for (`Connected`); `status` and `asked` the query of an address's
confirmation, kept by address; `confirm` the submission with the address, session
and chain of the moment it started. `ConnectionChanges`, `Pick` and `UsbChanges` may
come between any two steps. The API side is one step per request here; what it
does inside is `Confirmations`.

### LedgerSession

`frontend/src/ledger/transport.ts`, `apps.ts`, `useLedger.ts`, `LedgerAccounts.tsx`
and `signer.ts`. `queue` is the chain of promises in `exchange`; the first
operation's command is the only one under way (`exchange`). The device answers in
reports (`wire`), keeps the parts of a signing command (`unfinished`), and may be
unplugged, unlocked with another seed or switched to another app. Reports of other
tabs have another channel. Two addresses are listed instead of five, an answer has
at most two reports, a signing command two parts. Two random channels are assumed to
differ. `close()` is one step (`Closed`): the commands in the queue fail one after another, but
each before it sends anything, and no event is handled in between.

`ShowsDevice` leaves out two cases, which `oddity` notes: the device changes without
disconnecting, and an answer is still owed on this channel when the next command
is sent. `reset` drops what was received by then, but an answer that arrives later has
the channel and the sequence numbers the next command expects. Nothing bad is signed
with that: `SignedByAccount` holds in both cases, since `sign` recovers the signer.

### History

`backend/src/archive.ts` and `frontend/src/history`. `loads` are the archives loaded
one after the other; `GetArchiveByAddress` merges the two indexed lists,
`AddressPage` cuts a page and its cursor, `GetArchiveByHash` lists a transaction's
records. `query[q]` is the infinite query of an address or hash: its pages, whether
it failed, and the read under way, which reads the first page, the next one, or all
of them again. `ParseHistoryLocation` and `HistoryPath` are the links, old ones
included. A cached query never expires here, and an address is spelled one way.
Lists that mix pages of two loads are left out of `PagesAreWhole`: records are
numbered anew by a load, and the code does not tell such pages apart. A transaction
with more records than `MaxTxRecords` (1000) is cut off without notice.

### Portal

`frontend/src/main.tsx` and `router.ts`: the tab is at one page, whose module takes
the steps. A page that is left and opened again starts over, so a behaviour is one
stay at one page, and the initial states are those of all of them. The parts share
`Accounts` and nothing that changes. A tab may rest, so there is no deadlock to check.


## The runs

| run | bounds | shows |
| --- | --- | --- |
| `confirmations_submit` | 1 wallet, 2 versions, 1 nonce, 2 requests, 2 loads, clock 0..1, TTL 0 | `RecordedIsStored`, `ConfirmedOnce`, `RefusalsAreDue`, `SignedForItsSet`, `ImplementsRegister`, `RecordedUnderLoadedSet` |
| `confirmations_live` | 1 wallet, 1 version, 2 reasons, 2 requests, attestations, 2 loads | `EveryRequestAnswered`, `EveryLoadEnds`, `AttestedAsLoaded` |
| `reviews_marks` | 1 wallet with both parts, 2 operators, 4 run directories, 2 ledgers, 4 commits | `ReadInCommitOrder`, `UndoneBySender`, `OneBatchPerRunName`, `ImplementsBook` |
| `reviews_reloads` | 1 wallet confirmed under 2 sets, 2 operators, 2 runs, 4 commits | `NeverSentTwice`, `SentOnlyApproved` |
| `reviews_stale` | 1 operator, 1 commit | violated: `ApprovedUnderLoadedSet` |
| `names_submit` | 1 vault, 2 accounts, 1 name, 2 nonces, 2 submissions, clock 0..1, TTL 0, 1 transfer | `SavedIsRecorded`, `StaleIsDue`, `SignerGoverned`, `ImplementsRegister`, `EverySubmissionAnswered` |
| `entitlements_pay` | 2 validators, 3 routes, amounts 1, account parts 0..2, 3 kinds of wallet, 2 stages | `PaidAsShown`, `PaidWithinEntitlement`, `CandidatesAreListed`, `ExchangeNotPaid` |
| `ledger_whole` | 2 loads, 1 dataset | violated: `PublishedWhole` |
| `lookup_answers` | 2 requests, 2 loads, 1 dataset, 3 tables, 1 swap, clock 0..3, TTL 2 | `UndisturbedAnswer`, `NeverMixed`, `PublishedAsRecorded` |
| `lookup_one_load` | 1 request, 2 datasets, 2 swaps | violated: `OneLoadPerAnswer` |
| `portal_pages` | each page with two of what it tells apart, see below | bridge: `DoneIsPaid`, `OutcomeIsFinal`, `ShownIsListed`; vault: `MovesAreTicked`, `ApprovalComesFirst`, `SummaryIsTheVault`, `TablesAddUp`; Ledger: `SignedByAccount`, `ShowsDevice`; confirmation: `ConfirmedIsRecorded`, `SubmittedIsOwn`; history: `PagesAreWhole`; all: `PortalTypeOK` |
| `vault_release` | 2 accounts, 2 forms, 2 steps of others | violated: `ReleaseComesFirst` |

Why these are enough to be worth running: two requests are the least that race;
nothing in the code counts further than one other transaction, and requests are
never dropped, so each of the two runs any number of submissions one after the
other. Two loads give back a version that was loaded before (the case where a
wallet's old signature becomes valid again). In `Reviews`, four commits reach
approve, mark, undo, mark again. Two nonces give two messages of one vault with
distinct or equal times, the least for "a retry after a newer name". Two ledger
loads can overlap in every way two can; one swap gives an old and a new dataset,
and the tables that are left out are read and swapped like the ones that are
there. Three routes combine every two statuses with a third on another part;
account parts of 0, 1 and 2 tell a part that is used up from one that is left
over; two validators are the least for a route to the wrong one.

In `portal_pages` a claim has two rows of one token, so that one can fail, be
paid by somebody else or run out of funds without the other, and two transactions,
so that one can take the other's place. The proof files hold none, one or two
rows, each true or with one field altered. A vault has two addresses with one
unit each and two forms at a time: a dialog's account and the other one, a
deposit and what disturbs it. Three blocks of up to two events are the least in
which a range is split and the chain grows meanwhile. The confirm page has both
addresses, both kinds of connection and two switches. The Ledger has two seeds,
two connections and five events (operations, unplugging, unlocking, foreign
reports), enough for an answer that comes a command late. Four records on pages
of one give a list of several pages over two merged lists, and two loads the
change between pages.

The bounds are guards in the modules, named `MaxTime`, `MaxLoads`, `MaxCommits`,
`MaxBegins`, `MaxTransfers`, `MaxSwaps`, `MaxClock`, `MaxRoutes`, `MaxMoves`, `MaxSteps`,
`MaxFlows`, `MaxVaultMoves`, `MaxVersion`, `MaxSwitches`, `MaxConnects`, `MaxEvents`,
`MaxBlocks` and `MaxVisits`, or the sizes of enumerated inputs (`MaxGross`, `MaxFunds`,
`Amounts`, `Stake`, the sets of nonces, hashes and files). `MaxTxRecords`, `PageSize`
and `MinSpan` are limits of the code with small values. The proofs below do not
depend on them.

Each property of a passing run is broken by a `Mutant_...` definition beside the
one it replaces, which changes it the way a mistake in that code would.

### Fairness

`FairSpec` of Confirmations: Node awaits every query it sent, and psql runs its
script to the end, so every enabled step of a request, a started load or an open
attestation transaction happens. Strong fairness for requests because the lock
they wait for comes and goes; Postgres queues lock requests, so a waiter is not
overtaken forever. No request, load, plan or failure ever has to happen.
`FairSpec` of VaultNames is the same with the advisory lock. No statement in
`Reviews`, `LedgerLoad`, `Lookup`, `Entitlements` or the pages is about progress: a page
waits for a person, a wallet, a device or a network, none of which owes it an
answer. Every run checks that no state is without a successor, except those of
`Portal` and `VaultPage`, since a tab may rest.

### What the violated runs show

`reviews_stale`: an approval is planned while its confirmation is under the loaded
candidate set; another set is loaded; the transaction compares only
`confirm.reviews`, so the approval of a superseded confirmation is recorded.
`db/ops/record-review.sh:106-108` and `db/ops/README.md:237` read otherwise.
Nothing is paid because of it: `plan_sent` looks for a current confirmation, and
`NeverSentTwice` and `SentOnlyApproved` hold with that behaviour in the model.

`ledger_whole`: a second load drops and recreates `claims_staging` after the first
one committed its copy and before it swaps; the first one publishes the second
one's empty tables and records its own version. It takes two operators who load
at once. `injector/README.md:9-11` says the API never observes partial data.

`lookup_one_load`: a swap between two queries of a lookup puts rows of two loads
into one answer. `README.md:440-441` says the API never sees partial data. What
does hold is `NeverMixed` and `UndisturbedAnswer`.

`vault_release`: one account agrees to the release text, its recipient dialog
opens, the wallet switches to an account whose balances are cached, and the
withdrawal that is confirmed then is sent from that account, which never agreed.
`README.md:197-200` says an address must agree before its first withdrawal. What
does hold is `MovesAreTicked`: the ONE still goes where the box was ticked for.

One more difference to a comment was met in `portal_pages`. `breakdown.ts:124-125`
says that the subtotals shown add up to the rounded total. They do not when the
airdropped and the awaiting-funding group both round up and no other group is
large enough to be lowered: `roundToTotal` (`breakdown.ts:109`) then leaves its loop
with one unit to take. `TablesAddUp` states that exception and nothing wider.

## The proofs

`tlapm` proves these for all values of the constants that satisfy
the named assumption of the module, without bounds on requests, operators,
wallets, loads, commits, claims, forms, validators or blocks. The assumptions say
that bounds are numbers, that sets of accounts or validators are what the code
makes of them, and that `None`, which stands for `null` or an absent row, is no value
of the data it is mixed with. Some are worth naming: `ConfirmPageAssumption`
takes connections to be states the wallet hook can be in (`WalletState`);
`LedgerAssumption` keeps the read of addresses apart from the signing requests;
`EntitlementsAssumption` wants finitely many validators, and `FiguresAssumption`
finitely many members of a vault, who are not the reserve, and blocks of calls the
contract has; `BridgeLookupAssumption` and `HistoryAssumption` say that a list, a
file's rows and an archive are arrays, and nothing about what is in them.

**ConfirmationsProofs.** `IInv` is the conjunction of

* `TypeInv`, the type invariant with `RequestInv`: what the await a request is at
  says of its fields, the accepted signature of a request in its transaction
  included;
* `LockInv`: while a request or an attestation is inside its transaction, the row
  it checked is still the loaded one, because no load is past its lock;
* `KeyInv`: keys are unique among committed rows and the uncommitted rows of open
  transactions;
* `SignedInv`: `SignedForItsSet` and `RecordedIsStored`, which need each other.

None of the properties is inductive alone: uniqueness of committed rows needs
the open transactions, and the table lock is what makes the check of
`InsertSelect` still true at COMMIT. From it follow `TypeCorrect`,
`OneConfirmationPerKey`, `AnswersAreStored`, `SignaturesStayInTheirSet`,
`RecordedUnderLock`, `AttestedUnderLock` and, with `LoaderInv` (a load holds rows
of one version), `Refinement`: every step is a `Load`, a `Record` or a stutter of
`ConfirmationRegister`. `RefusedForAReason` (`RefusalsAreDue`) adds `RefusalInv`, which
says what a request still knows of its last read: the row it found is the loaded one
unless the set was replaced since (`reloaded`), and a confirmation that stood in its way
is still there, since none is deleted.

**ReviewsProofs.** `IInv` says that a plan whose expected count still equals the
table's length satisfies every planner check against the table as it is
(`PlanInv`), that at most one command is locked and its count holds
(`CountInv`), that transactions are in time order and open ones began late enough
(`OrderInv`), and what the table itself satisfies (`LogInv`). A commit by one
command invalidates the counts of all others, so their plans need no longer hold.
From it follow `ReadsInCommitOrder`, `RunNamesAreBatches`, `PartsAreSentOnce`,
`MarksAreApproved` and `UndosNameTheirRun`. `RowsImplementBook` (`ImplementsBook`)
is the refinement of `DeliveryBook`. A commit appends rows of one kind (`OneKind`), so
the newest row of a wallet after it is either the one before or a row of the plan
(`LatestAfterCommit`), and the planner's checks, true at COMMIT by `PlanInv`, are the
guards of the book's moves.

**VaultNamesProofs.** `Inv` adds to the types: what an await says of a request
(`RequestInv`), that a vault's lock is held by the submission that is in a transaction
of the vault, and by nobody else (`LockIsHeld`), that the current row is in the history
(`ShownIsRecorded`) and that no recorded change of the vault is newer
(`NewestIsShown`). The last needs the first two: what a transaction found to be
older under the lock still is when it writes, since nobody else writes that vault
(`RequestInv`). From it follow `TypeCorrect`, `AnsweredSavedIsRecorded`,
`AnsweredStaleIsDue`, `RecordedWasGoverned`, `NoLockIsLeft` (a submission that was answered
holds no lock) and `TablesImplementRegister`: every step is a move of `NameRegister` or a
stutter.

**LedgerLoadProofs.** `LoadInv` says that what is staged is of one load or empty,
that a load nobody ran into finds the schema as it left it, and that two loads
which run at once are both marked as overlapped. `NeverMixed` and
`PublishedAsRecorded` do not speak of the staging schema, so neither is inductive
without that. From it follow `LoadTypeCorrect`, `OneLoadIsVisible` and
`LoadPublishesItself`. `LookupIsLoad` carries them over to `Lookup`. There, `LookupInv`
adds what a request without a swap since its start has read (`ReadInv`: rows of the
dataset that is visible, all from one load by `NeverMixed`) and that a value of the
meta, in the cache or on its way to it, was visible at some time after it was asked
for (`MetaInv`, with `ClockInv` on `seen`). `AnswersAreOfOneLoad` (`UndisturbedAnswer`)
follows, whichever request filled the cache.

**EntitlementsProofs.** The operators add amounts over validators with a fold of the
community modules. What a fold computes for every set would need induction; instead,
`TotalIsUnique` shows, by a smallest set that contradicts it, that the fold is the
number of units in the set (`Total(f, S) == Cardinality(Units(f, S))`). Sums are then
compared as sets of units: a part of a set has no more units than the whole
(`TotalOfPart`), smaller amounts have fewer (`TotalIsMonotone`).

`IInv` has four parts besides the types. `RoutesInv`: what routes terminate, hold or
deliver by hand is within their sum, part by part. `ArrangedInv` and `ExchangeInv`:
an exchange arrangement is made of exchange routes, of a wallet in an exchange
inventory. `PublishedInv` repeats at the end what the injector compared on the way,
when most of the files were still unread: routes fit the components, an allocation is
nothing or what the terminal routes leave, and an arrangement replaces the stage. From
it follow

* `EntitlementsTypeCorrect`;
* `ExportIsStricter` (`PaidAsShown`): what the lookup nets and what the export pays are
  the same, `Delivery` compared with `Destination` case by case;
* `NeverPaidTooMuch` (`PaidWithinEntitlement`): pending positions are a part of the shares,
  which is the staked allocation if they add up, and none are pending if they do not;
* `CandidatesHaveAPart` (`CandidatesAreListed`): if no part of a candidate were listed, its
  allocation would be empty, and then it would not be a candidate;
* `ExchangeIsLeftAlone` (`ExchangeNotPaid`): routes that fit the positions and sum to the
  whole leave no position a unit over, so none is pending.

**VaultPageProofs.** The forms: `VaultInv` adds to the types what a dialog knows (`FormInv`: a
waiting form has a connected account, and its tick is of the address and amount it
still holds) and what a flow has left (`CallsInv`: one call, or an approval and its
deposit of the same amount). The first carries a tick across account switches to
the call that is sent, the second an approved amount from one transaction to the
next; neither is in the properties. `IncludeStep` is the step they need: an included
transaction changes the allowance of its own account only, and disturbs that
account's other flows. From it follow `MovesAreAgreedTo` (`MovesAreTicked`) and
`DepositFindsApproval` (`ApprovalComesFirst`). Amounts in the contracts are any
integers in `VaultInv`. That they are between 0 and what there is (`VaultTyped`) needs
more than that they add up, since nothing bounds one of them alone: `AmountsInv` puts
every unit of the stake in a purse, in the vault or outside, and a call that is
accepted moves units from a purse that has them (`ExecutedIsBacked`). `VaultPage`'s type
invariant says `2 * Stake` for that reason: a stake in the vault and as much outside.

The figures: `FiguresInv` says that what was answered is the blocks `1 .. n`, and the
ranges left go on from `n + 1` to the end without a gap or an overlap (`GoOn`). A range
that is halved keeps that (`HalvesFollow`), so what is summed up has every block there
was at the start once, in order, however often the endpoint refuses.
`SummaryMatchesVault` (`SummaryIsTheVault`) goes on from there. `SumsInv` adds a fact
about the chain alone, `BlocksAddUp`: for every block there is, the events up to it are
in order and add up to the vault after it. The page does not occur in it, and mining a
block is the only step that changes it (`MineSums`). A block is added call by call
(`BlockSums`): after each, the sum of the events so far says what the contract
says (`Matches`: balances, total held, gains of the activity's rows, governor, fee), since
a deposit, a withdrawal or a change does the same to both (`EventMatches`), also where
a deposit joins the row before it (`JoinedGains`). What is in order already is not
changed by the sort (`OrderedIs`), and the blocks read one by one are the events up to
the last (`BlocksFlatten`). The lemmas before those say what the sums are: each
recursive function, and `FoldFunction` over the members, is the one solution of
its equations, by a smallest argument at which two solutions differ, and a sum is
unchanged by reversal (`SumOfReverse`).

Rounding: a step of `roundToTotal` moves one term that it leaves at zero or above, and by
that the sum, by one unit towards the total, or nothing if it would take every term below
zero (`NudgedMoves`). So terms that are only added meet any total that is not negative, and are all
zero under one that is (`RoundedUp`); of one term added and one taken off, one can always move
(`RoundedDifference`). Sequences are taken apart at their last element (`SeqInduction`), by a
shortest prefix that is not in a set: what is chosen from one grows with it (`ThoseGrow`), and
sums over what is chosen are sums of weights over all (`WeighThose`).

**BridgeHistoryProofs.** A chain's card: `IInv` says what a transaction's fate tells of the rows it
paid (`FateOf`: none while it is open, or when it reverted or was cancelled; all of
its batch are paid when it was included), that a claim which is followed or has
ended is of a transaction that was sent with that batch (`TxInv`), and that rows the
page read as paid are, the read under way included (`ViewInv`), since no payment is
ever undone. The fate is what keeps a report true after the card stopped watching:
a transaction that ended pays nothing more. From it follow `ReportsArePayments`
(`DoneIsPaid`) and `EndedClaimsHaveEnded` (`OutcomeIsFinal`). Which rows are payable,
and the sums they must fit, play no part. They do in `BridgeTyped`: that a payment
leaves what is not negative rests on the sum a batch owes per token being a sum
of amounts (`OwedIsAmount`), which the fold is because sums of all subsets exist: a
smallest number of members without one would contradict (`SumExists`).

Sorted rows: `ListedOnce` says that a listing of a finite set by a strict total order
has every element once, and in order; ranks are distinct, and below the number of
elements, so each number is the rank of one (`RankOf`). `ListedFirst` and `ListedLast` are what
`LIMIT` keeps, and `FirstOfParts` that the first `n` of a union are among the first `n` of
its parts, which the merged query of the archive depends on.

* The lookup, `LookupInv`: the list that was adopted passed its checks, and what is
  loaded for an address is the rows of that list, all of the address, in list
  order, none left out (`AreRowsOf`). A late answer is checked against the list it was
  asked with, which is adopted once. From it follow `LookupTyped` and
  `ShownRowsAreListed` (`ShownIsListed`): cards hold the rows and no others
  (`CardsHoldRows`), and dates and pools are of blocks the list names (`RowsAreDated`).
* The history page, `HistoryInv`. Each page that is kept or on its way knows the load it is
  of, and as long as all pages so far are of one load, the i-th is the i-th piece of
  that load's records of the address (`ArePieces`), with the record after the piece as the next cursor
  (`PageContinues`). A read of all pages again builds a second such list beside the
  first. Pages of several loads claim nothing. From it follows `HistoryIsWhole`
  (`PagesAreWhole`): pieces end to end are the whole list to where they end (`PiecesJoin`, by the
  first page where that fails).

**PortalProofs** states its theorems of `PortalSpec`. `PortalIsItsParts` is the first
step: pages the tab is not at do not move, so a behaviour of the portal is one of
every page's specification, and an invariant of a page is one of the portal.

* The confirm page, `ConfirmInv`: what a submission waits with is an account and
  a chain its session shares (`SubmissionInv`), and every status that says confirmed,
  kept or on its way, is of a recorded row (`StatusInv`). Records are not taken
  back, so a late answer is still true. Theorems `PortalConfirmedIsRecorded` and
  `PortalSubmittedIsOwn`.
* The Ledger, `LedgerInv`. An operation is queued exactly while it has commands left, and
  once (`QueueInv`); nothing is shown and nothing waits without an open transport
  (`SessionInv`). `ExchangeInv` is the heart: as long as nothing odd has happened,
  whatever is on the open channel, towards the device or back, is of the exchange
  under way, and an answer to a reading command is what the device would say now.
  `ReadInv` carries that through the steps of a read to what is shown. Theorems
  `PortalShowsDevice` (`ShowsDevice`) and `PortalSignedByAccount`, which needs no such
  caution.
* The tables of the vault page, `FiguresAddUp` (`TablesAddUp`), from `SumsInv`, for what a table is made of.
  The parts: what is left of the credits goes down by what each stage is funded with, so
  the credited parts and what is unexplained are the credits (`CreditedSum`), and credited
  and outside, a stage (`TablePartsAddUp`). The subtotals: the two that keep their rounding come to at
  most one unit over the total (`RoundTwo`, `OwnsAreBounded`), the others are rounded to the
  difference and put in their places (`SpreadSum`), all zero where it is minus one:
  that is the exception `RowsAddUp` states (`SubtotalsAre`). The assumption on `Cutoffs` is the type
  that `catalog.ts` gives the stages.
* The other pages, from their own theorems: `PortalDoneIsPaid`, `PortalOutcomeIsFinal`,
  `PortalShownIsListed`, `PortalPagesAreWhole`, `PortalReadsEveryBlock`,
  `PortalSummaryIsTheVault`, `PortalTablesAddUp`, and `PortalTyped` (`PortalTypeOK`), the types of all of them.

Only model-checked are the liveness properties `EveryRequestAnswered`, `EveryLoadEnds` and
`EverySubmissionAnswered`: fairness and `ENABLED` are out of the provers' reach. Every invariant and every action property that a
run checks and finds to hold is stated by a theorem.

## Not modelled

* Formats: addresses, signatures, notes, CSV and JSON, and the proof catalog's
  hashes. A CHECK on a format and the append-only trigger of migration 008 are left
  out with them.
* `GET` routes that only read one table, the archive's meta and coverage among them,
  and how records, names and amounts are rendered.
* Rows written to `confirm.reviews` by hand, a database clock that is set back
  between commands, and psql failing after COMMIT and before its caller hears of it.
* The stage reason a signed confirmation stores, which is read before its
  transaction (`backend/src/confirm/service.ts:161`): `AttestedAsLoaded` states it of
  attested rows only.
* The comparison of `snapshot_meta` in a session of its own before a candidate load
  (`db/ops/load-candidates.sh:74`): versions are compared, the ledger may change
  afterwards.
* The payments themselves: batches built from one export, the chain, and what is
  paid twice before either is marked (`db/ops/confirmed-wallets.py:625`).
* Deployment and its rollback (`backend/deploy/deploy-backend.sh:141`).
* Signing on /confirm while a Ledger prompt blocks, and the expiry of cached queries
  (`gcTime`).
* Components with status `not_modelled` in `PROJECT.json`, each with its reason: the
  claim view and key tool, the proof builders, the HTTP shell with
  its proxy, the conversions all parts share, and the scripts around the database.

## Plan

Done: 1. Confirmations with its abstract register and proofs; 2. Reviews with the
delivery book and proofs; 3. VaultNames with the name register and proofs;
4. LedgerLoad, and Lookup on top of it, with proofs; 5. Entitlements with proofs;
6. the pages (`BridgeClaims`, `BridgeLookup`, `VaultPage`, `VaultFigures`,
`ConfirmPage`, `LedgerSession`, `History`) and `Portal`; 7. proofs about the
bridge's claims and the vault's forms; 8. the refinements of `DeliveryBook` and
`NameRegister`; 9. proofs about the Ledger, the confirm page and the read of a
vault's events, inside the portal; 10. listings, and with them the proofs about the lookup
of an address and the pages of the archive; 11. the summary of a vault's events; 12. the
types of every page; 13. the rounding of a vault's tables, and what they are of.

Next:

14. `Payments`: batches, the chain and the marks, composed with `Reviews`; deployment and
    rollback.
