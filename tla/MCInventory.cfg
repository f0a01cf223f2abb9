SPECIFICATION TwinSpec

CONSTANTS
  o1 = o1
  o2 = o2
  o3 = o3
  a = a
  b = b
  Orders <- MCOrders
  Skus <- MCSkus
  Lines <- MCLines
  StockLevels <- MCStockLevels

INVARIANTS
  ReservedExact
  NoOversell
  LedgerMatches
  TwinsAgree
