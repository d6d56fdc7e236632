SPECIFICATION Spec
CONSTANTS
  Null = Null
  Scopes = {s1}
  Entities = {order}
  FinancialEntities = {}
  Keys = {k1, k2}
  Pushers = {w1, w2}
  MaxBatch = 2
  MaxRetries = 2
  PageLimit = 1
  MaxPages = 1
  Operations = {"update"}
  PulledScopes = {}
  ForeignEntities = {}
  Refusals = {"rejected", "conflict"}
  Faults = {"crash", "commit"}
  LeaseOutlivesCall = FALSE
  MaxEvents = 2
  MaxChanges = 2
  MaxLate = 1
SYMMETRY KeySymmetry
INVARIANTS TypeOK Hydratable RetryBudget VerdictsAreTrue EffectsInOrder
PROPERTIES OutboxHistory ImplementsPromise NothingOvertakes
CHECK_DEADLOCK FALSE
