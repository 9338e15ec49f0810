\* Two requests of one wallet race each other, the clock and two loads.
CONSTANTS
  a1 = a1
  a2 = a2
  v1 = v1
  v2 = v2
  None = None
  Attested = Attested
  Addresses = {a1}
  Versions = {v1, v2}
  Cutoffs = {c1}
  Reasons = {dormant}
  Nonces = {n1}
  Requests = {r1, r2}
  DeferredIn <- DeferredOne
  Attestable = {a1}
  Ttl = 0
  Skew = 0
  MaxTime = 1
  MaxLoads = 2
  AllowEmpty = TRUE
  AllowVersionMismatch = FALSE
SPECIFICATION Spec
SYMMETRY Symmetry
INVARIANTS RecordedIsStored ConfirmedOnce RefusalsAreDue SignedForItsSet
PROPERTIES ImplementsRegister RecordedUnderLoadedSet
