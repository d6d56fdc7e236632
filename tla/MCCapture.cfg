SPECIFICATION MCSpec
CONSTANTS
  Captures = {k1}
  Members = {m1, m2}
  Managers = {m2}
  Customers = {u1}
  Channels = {"pickup", "delivery"}
  Callers = {c1, c2}
  Kinds = {"create", "hold", "claim", "resume", "prefer", "renew", "transfer", "take_over", "autosave", "customer", "fulfillment", "instructions", "no_sale", "select", "repeat", "quote", "intent", "confirm"}
  LineCounts = {0, 2}
  Repeats = {1}
  Tenders = {3, Null}
  Fees = {1}
  MaxCatalog = 2
  MaxCommands = 10
  Null = Null
  Scenes = {"attention", "sale", "repeat", "begin"}
SYMMETRY Symmetry
INVARIANTS CaptureTypeOK OnlyTheHolderWrites OneOrderPerCapture MoneyAsAgreed OrderIsLatestPlan RetriesRecognised
PROPERTIES ClaimsRespected
CHECK_DEADLOCK FALSE
