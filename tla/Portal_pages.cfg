\* Each of the parts from its first state, with others' steps and failures.
SPECIFICATION PortalSpec
CONSTANTS
    a1 = a1 a2 = a2 usdc = usdc coin = coin h1 = h1 h2 = h2 None = None Broken = Broken Someone = Someone
    Accounts = {a1, a2}
    Rows = {0, 1} Assets = {usdc} AssetOf <- MCAssetOf AmountOf <- MCAmountOf
    MaxFunds = 2 MaxMoves = 2 Hashes = {p1, p2}
    List <- MCList Published <- MCPublished Files <- MCFiles MaxSteps = 3
    Holders = {v1, v2} Stake = 1 MaxFlows = 2 MaxVaultMoves = 2
    Connections <- MCConnections Deferred = {a1, a2} MaxVersion = 1 MaxSwitches = 2
    Seeds = {p1, p2} Signings = {p1, p2} MaxConnects = 2 MaxEvents = 5
    Members = {a1, a2} Reserve = Reserve Zero = Zero
    Transactions <- MCTransactions Cutoffs <- MCCutoffs
    MinSpan = 1 One = 4 Hundredth = 2 Large = 5 MaxBlocks = 3
    TxHashes = {h1, h2} Archives <- MCArchives Malformed = Malformed
    PageSize = 1 MaxTxRecords = 2 MaxLoads = 2 MaxVisits = 2
SYMMETRY Symmetry
INVARIANTS PortalTypeOK DoneIsPaid OutcomeIsFinal ShownIsListed MovesAreTicked ApprovalComesFirst SignedByAccount ShowsDevice ConfirmedIsRecorded SubmittedIsOwn SummaryIsTheVault TablesAddUp PagesAreWhole
CHECK_DEADLOCK FALSE
