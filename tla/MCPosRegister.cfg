SPECIFICATION MCSpec
CONSTANTS
  Orders = {o1, o2}
  DeliveryOrders = {o1}
  CashIntent = {}
  Sessions = {s1, s2}
  Devices = {d1, d2}
  Couriers = {}
  Callers = {c1, c2}
  Kinds = {"collect", "cancel", "close", "register_open", "add", "cancel_line",
           "label"}
  Tips = {1}
  Float = 1
  DeliveryCharge = 1
  MaxLines = 2
  MaxCommands = 9
  Scenes = {"money", "register", "counter"}
  Null = Null
SYMMETRY Symmetry
INVARIANTS ChargedOnce NumbersInSequence DrawerReconciles RefundOwed
PROPERTIES KeepsLedger
CHECK_DEADLOCK FALSE
