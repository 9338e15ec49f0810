\* Candidate loads and ledger loads between the steps of two commands.
CONSTANTS
  c1 = c1
  c2 = c2
  w1 = w1
  liquid = liquid
  shares = shares
  m1 = m1
  m2 = m2
  None = None
  Confirmations = {c1, c2}
  Wallets = {w1}
  WalletOf <- MCWalletOf
  Signed <- MCSigned
  Parts = {liquid}
  TrackOf <- MCTrackOf
  CandidateSets <- BothSets
  Ledgers <- OneLedger
  RunDirs <- TwoRunDirs
  Operators = {o1, o2}
  MaxCommits = 4
  MaxBegins = 4
SPECIFICATION Spec
SYMMETRY Symmetry
INVARIANTS NeverSentTwice SentOnlyApproved
