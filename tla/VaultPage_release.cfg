\* Two accounts of one wallet, against what the README says of the release text.
SPECIFICATION VaultSpec
CONSTANTS
  Holders = {a1, a2}
  Accounts = {}
  Stake = 1
  MaxFlows = 2
  MaxVaultMoves = 2
  None = None
SYMMETRY HolderSymmetry
INVARIANTS ReleaseComesFirst
CHECK_DEADLOCK FALSE
