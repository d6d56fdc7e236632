SPECIFICATION MCSpec
CONSTANTS
  Orders = {o1}
  DeliveryOrders = {o1}
  CashIntent = {o1}
  Sessions = {s1}
  Devices = {d1}
  Couriers = {k1, k2}
  Callers = {c1, c2}
  Kinds = {"settle"}
  Tips = {0}
  Float = 0
  DeliveryCharge = 1
  MaxLines = 1
  MaxCommands = 10
  Scenes = {"replay"}
  Null = Null
SYMMETRY Symmetry
INVARIANTS NullMeansNothingCollected
CHECK_DEADLOCK FALSE
