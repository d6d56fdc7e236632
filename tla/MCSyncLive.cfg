SPECIFICATION FairSpec
CONSTANTS
  Null = Null
  Scopes = {s1}
  Entities = {order}
  FinancialEntities = {}
  Keys = {k1, k2}
  Pushers = {w1, w2}
  MaxBatch = 1
  MaxRetries = 2
  PageLimit = 1
  MaxPages = 1
  Operations = {"update"}
  PulledScopes = {s1}
  ForeignEntities = {}
  Refusals = {}
  Faults = {"crash"}
  LeaseOutlivesCall = TRUE
  MaxEvents = 2
  MaxChanges = 2
  MaxLate = 0
PROPERTIES EventsSettle ReplicaCatchesUp
CHECK_DEADLOCK FALSE
