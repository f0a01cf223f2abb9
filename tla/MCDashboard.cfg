SPECIFICATION DashboardSpec

CONSTANTS
  yape = yape
  a = a
  c1 = c1
  w1 = w1
  Orders = {yape}
  Skus = {a}
  Lines <- MCLines
  StockLevels = {1}
  Method <- MCMethod
  Calls = {c1}
  Sweeps = {w1}
  MaxFaults = 2

INVARIANT
  ReportsSettle

PROPERTIES
  OrderDecided
  StockFreed

CHECK_DEADLOCK FALSE
