\* One vault, two submissions at a time, two challenges, one transfer: what is
\* answered and shown, the register both tables implement, and the lock.
SPECIFICATION FairSpec
CONSTANTS
  Vaults = {v1}
  Accounts = {g1, g2}
  Names = {n1}
  Nonces = {x1, x2}
  Requests = {r1, r2}
  Ttl = 0
  Skew = 0
  MaxTime = 1
  MaxTransfers = 1
  None = None
INVARIANTS SavedIsRecorded StaleIsDue
PROPERTIES SignerGoverned ImplementsRegister EverySubmissionAnswered
