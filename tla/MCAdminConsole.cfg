SPECIFICATION AdminSpec
SYMMETRY MCSymmetry

CONSTANTS
  a = a
  p1 = p1
  v1 = v1
  v2 = v2
  r1 = r1
  r2 = r2
  i1 = i1
  g1 = g1
  g2 = g2
  x = x
  y = y
  full = full
  k1 = k1
  k2 = k2
  Null = Null
  Consoles = {a}
  Goods = {p1}
  Variants = {v1, v2}
  Prices = {r1, r2}
  Images = {i1}
  Categories = {g1, g2}
  Skus = {1, 2}
  Slugs = {x, y}
  Notes = {full}
  ListPrices = {2}
  SalePrices = {1}
  Starts = {1}
  Handlers = {k1, k2}
  MaxActs = 3

INVARIANTS
  StockFollows
  PriceWasTrue

PROPERTIES
  ReportedIsShown
  InactiveIsFinal

CHECK_DEADLOCK FALSE
