\* One request, and one load that swaps in the middle of it.
SPECIFICATION LookupSpec
CONSTANTS
  Tables = {"snapshot_meta", "accounts", "delegations", "validator_vaults"}
  FirstTables = {"accounts", "delegations"}
  Sets = {s1, s2}
  Loads = {l1}
  Requests = {r1}
  MaxSwaps = 2
  TTL = 1
  MaxClock = 1
  None = None
INVARIANTS OneLoadPerAnswer
