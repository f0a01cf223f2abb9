SPECIFICATION Spec

CONSTANTS
  auto = auto
  yape = yape
  a = a
  c1 = c1
  w1 = w1
  Orders = {auto, yape}
  Skus = {a}
  Lines <- MCLines
  StockLevels = {1}
  Method <- MCMethod
  Calls = {c1}
  Sweeps = {w1}
  MaxFaults = 1

INVARIANTS
  HeldStockClaimed
  OrderMatchesStock
  ServicesAgree
  NeverReservedAgain

PROPERTY
  FollowsLifecycle

CHECK_DEADLOCK FALSE
