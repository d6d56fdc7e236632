SPECIFICATION MCSpec
CONSTANTS
  Orders = {o1}
  DeliveryOrders = {o1}
  CashIntent = {o1}
  Sessions = {s1}
  Devices = {d1}
  Couriers = {k1, k2}
  Callers = {c1, c2}
  Kinds = {"create", "add", "open", "send", "advance", "cancel_line", "cancel",
           "assign", "dispatch", "complete", "fail", "settle", "collect"}
  Tips = {0}
  Float = 0
  DeliveryCharge = 1
  MaxLines = 2
  MaxCommands = 10
  Scenes = {"take", "cook", "settle"}
  Null = Null
SYMMETRY Symmetry
INVARIANTS PosTypeOK VersionsExplained KitchenTold MoneyMatchesStatus DeliveryAgrees
PROPERTIES OrdersMoveForward
CHECK_DEADLOCK FALSE
