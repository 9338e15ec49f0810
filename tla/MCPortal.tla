------------------------------- MODULE MCPortal -------------------------------
(* Small instances of the pages: two rows of one asset, two addresses, two    *)
(* holders of a vault, two seeds of a Ledger, an archive of four records.     *)
EXTENDS Portal, TLC

CONSTANTS a1, a2, usdc, coin, h1, h2

Leaf(label, index, payee, token, amount) ==
    [label |-> label, index |-> index, account |-> payee, token |-> token, amount |-> amount]

MCList == {Leaf("base", 0, a1, usdc, 1), Leaf("base", 1, a1, coin, 2), Leaf("bsc", 0, a1, usdc, 1),
           Leaf("base", 2, a2, usdc, 1)}

Pool(chain, moment) == [holders |-> chain, snapshot |-> moment]
Asset(token, native, pools) == [token |-> token, decimals |-> 18, native |-> native, pools |-> pools]
Contract(label, assets, wrapped) ==
    [label |-> label, supported |-> TRUE, wellFormed |-> TRUE, count |-> 3, assets |-> assets, wrapped |-> wrapped]
Contracts ==
    <<Contract("base", {Asset(usdc, FALSE, {Pool("harmony", "cutoff")}),
                        Asset(coin, TRUE, {Pool("harmony", "cutoff"), Pool("bsc", "rollback")})}, TRUE),
      Contract("bsc", {Asset(usdc, FALSE, {Pool("bsc", "rollback")})}, FALSE)>>
Blocks == [harmony |-> Moments, bsc |-> {"rollback"}, base |-> {"state"}]
Good == [format |-> TRUE, digits |-> 4, blocks |-> Blocks, contracts |-> Contracts]
MCPublished ==
    {Good,
     [Good EXCEPT !.blocks = [harmony |-> Moments, base |-> {"state"}]],
     [Good EXCEPT !.blocks = [Blocks EXCEPT !.bsc = {"cutoff", "state"}]],
     [Good EXCEPT !.blocks = [Blocks EXCEPT !.harmony = {"cutoff"}]],
     [Good EXCEPT !.contracts[2].label = "base"],
     [Good EXCEPT !.contracts[1].wrapped = FALSE],
     [Good EXCEPT !.digits = 5]}

\* The true rows, and each of them altered in one field.
Entry(leaf) == [label |-> leaf.label, index |-> leaf.index, token |-> leaf.token,
                amount |-> leaf.amount, proof |-> leaf]
Altered(e) == {[e EXCEPT !.label = x] : x \in {"base", "bsc", "linea"}}
              \cup {[e EXCEPT !.index = x] : x \in 0 .. 3}
              \cup {[e EXCEPT !.token = x] : x \in {usdc, coin}}
              \cup {[e EXCEPT !.amount = x] : x \in 0 .. 2}
Entries == UNION {Altered(Entry(leaf)) : leaf \in MCList}
FileOf(rows1, rows2) == [format |-> TRUE, run |-> TRUE, prefix |-> [a \in Accounts |-> TRUE],
                         rows |-> [a \in Accounts |-> IF a = a1 THEN rows1 ELSE rows2]]
MCFiles ==
    LET rows == {<<>>} \cup {<<e>> : e \in Entries} \cup {<<Entry(leaf), f>> : leaf \in MCList, f \in Entries}
        plain == FileOf(<<Entry(Leaf("base", 0, a1, usdc, 1))>>, <<>>)
    IN  {FileOf(r, <<>>) : r \in rows} \cup {FileOf(<<>>, <<e>>) : e \in Entries}
        \cup {[plain EXCEPT !.format = FALSE], [plain EXCEPT !.run = FALSE],
              [plain EXCEPT !.prefix[a1] = FALSE]}

MCAssetOf == [r \in Rows |-> usdc]
MCAmountOf == [r \in Rows |-> 1]

Shared(a, chains) == [address |-> a, chains |-> chains]
Connection(kind, shared, current) ==
    [kind |-> kind, shared |-> shared, current |-> current, chain |-> "ethereum"]
MCConnections ==
    {Connection("browser", <<>>, a) : a \in Accounts}
    \cup {Connection("session", shared, a1) :
             shared \in {<<Shared(a1, {"ethereum"})>>,
                         <<Shared(a1, {"ethereum"}), Shared(a2, {"harmony"})>>,
                         <<Shared(a1, Chains), Shared(a2, {"ethereum"})>>}}

\* Funding runs of one and of several deposits, deposits and withdrawals of less
\* than a displayed unit, and stages that end in half of one.
Deposit(caller, payee, atto) == [event |-> "Deposit", caller |-> caller, delegator |-> payee, assets |-> atto]
Withdraw(caller, payee, atto) == [event |-> "Withdraw", caller |-> caller, delegator |-> payee, assets |-> atto]
MCTransactions ==
    {<<>>,
     <<Deposit(Reserve, a1, 2)>>,
     <<Deposit(Reserve, a1, 2), Deposit(Reserve, a2, 4)>>,
     <<Deposit(Reserve, a2, 2), Deposit(Reserve, a2, 3)>>,
     <<Deposit(a1, a1, 1)>>,
     <<Deposit(a1, a1, 1), Deposit(a1, a2, 1)>>,
     <<Withdraw(a1, a2, 1)>>,
     <<Withdraw(a2, a2, 2)>>,
     <<[event |-> "FeeUpdated", next |-> 1]>>,
     <<[event |-> "GovernorTransferred", next |-> a1]>>,
     <<[event |-> "GovernorTransferred", next |-> a2]>>}

Stake4 == [initial |-> Count(2, 4), inactive |-> Count(0, 0), below_threshold |-> Count(1, 1),
           exchange |-> Count(0, 0), next_stage |-> Count(0, 0), not_issued |-> Count(0, 0),
           manual_review |-> Count(0, 0)]
MCCutoffs ==
    {Stake4,
     [Stake4 EXCEPT !.inactive = Count(1, 5)],
     [Stake4 EXCEPT !.exchange = Count(1, 1), !.next_stage = Count(1, 3), !.not_issued = Count(1, 2)],
     [c \in DOMAIN Stake4 \cup {"confirmed"} |-> IF c = "confirmed" THEN Count(1, 3) ELSE Stake4[c]]}

\* An archive with a list of three pages, and one it is replaced by.
Rec(from, to, hash, eth) == [from |-> from, to |-> to, hash |-> hash, eth |-> eth]
MCArchives ==
    {<<Rec(a1, a2, h1, h2), Rec(a1, a1, h1, h2), Rec(a2, a1, h1, None), Rec(a1, None, h1, h2)>>,
     <<Rec(a2, a1, h1, None), Rec(a1, a2, h1, None)>>}

\* One pair of model values serves as transactions, seeds and signings: no part
\* has two of these together but the Ledger.
Symmetry == Permutations(Holders) \cup Permutations(Hashes)
=============================================================================
