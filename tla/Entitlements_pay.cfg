\* Two validators, three routes, every component up to two.
SPECIFICATION Spec
CONSTANTS
  Validators = {v1, v2}
  Self = self
  Elsewhere = {other}
  Kinds = {"ordinary_eoa", "reviewed_contract", "multisig_next_stage"}
  Stages = {"initial", "deferred"}
  RouteStages = {"initial"}
  Amounts = {1}
  MaxGross = 2
  MaxRoutes = 3
  None = None
SYMMETRY ValidatorSymmetry
INVARIANTS PaidAsShown PaidWithinEntitlement CandidatesAreListed ExchangeNotPaid
