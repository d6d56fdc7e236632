SPECIFICATION SpecTold
CONSTANTS
  Null = Null
  Scopes = {s1}
  Entities = {order}
  FinancialEntities = {}
  Keys = {k1, k2}
  Pushers = {w1}
  MaxBatch = 2
  MaxRetries = 1
  PageLimit = 1
  MaxPages = 2
  Operations = {"create", "update", "delete"}
  PulledScopes = {s1}
  ForeignEntities = {order}
  Refusals = {"rejected"}
  Faults = {"cursor", "revoke"}
  LeaseOutlivesCall = FALSE
  MaxEvents = 2
  MaxChanges = 2
  MaxLate = 0
PROPERTY RevocationStopsPushes
CHECK_DEADLOCK FALSE
