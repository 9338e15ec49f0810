\* Two commands that approve, reject, mark and undo both parts of a wallet.
CONSTANTS
  c1 = c1
  c2 = c2
  w1 = w1
  liquid = liquid
  shares = shares
  m1 = m1
  m2 = m2
  None = None
  Confirmations = {c1}
  Wallets = {w1}
  WalletOf <- MCWalletOf
  Signed <- MCSigned
  Parts = {liquid, shares}
  TrackOf <- MCTrackOf
  CandidateSets <- OneSet
  Ledgers <- BothLedgers
  RunDirs <- MCRunDirs
  Operators = {o1, o2}
  MaxCommits = 4
  MaxBegins = 4
SPECIFICATION Spec
SYMMETRY Symmetry
INVARIANTS ReadInCommitOrder UndoneBySender OneBatchPerRunName
PROPERTIES ImplementsBook
