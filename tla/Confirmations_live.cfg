\* Every request, load and attestation of one wallet comes to its end.
CONSTANTS
  a1 = a1
  a2 = a2
  v1 = v1
  v2 = v2
  None = None
  Attested = Attested
  Addresses = {a1}
  Versions = {v1}
  Cutoffs = {c1}
  Reasons = {dormant, unindexed}
  Nonces = {n1}
  Requests = {r1, r2}
  DeferredIn <- DeferredFirst
  Attestable = {a1}
  Ttl = 1
  Skew = 0
  MaxTime = 0
  MaxLoads = 2
  AllowEmpty = FALSE
  AllowVersionMismatch = TRUE
SPECIFICATION FairSpec
PROPERTIES EveryRequestAnswered EveryLoadEnds AttestedAsLoaded
