\* Two requests that share the cache, and two loads that may overlap or die anywhere.
SPECIFICATION LookupSpec
CONSTANTS
  Tables = {"snapshot_meta", "delegations", "validator_vaults"}
  FirstTables = {"delegations"}
  Sets = {s1}
  Loads = {l1, l2}
  Requests = {r1, r2}
  MaxSwaps = 1
  TTL = 2
  MaxClock = 3
  None = None
SYMMETRY Symmetry
INVARIANTS UndisturbedAnswer NeverMixed
PROPERTIES PublishedAsRecorded
