SPECIFICATION Spec

CONSTANTS
  o1 = o1
  o2 = o2
  a = a
  b = b
  t1 = t1
  t2 = t2
  Orders = {o1, o2}
  Skus = {a, b}
  Lines <- MCLines
  StockLevels = {1, 2}
  Request <- MCRequest
  ByKey <- MCByKey
  Txs = {t1, t2}
  MaxDeletes = 1

INVARIANTS
  DeadlockNeedsReserve

PROPERTY
  CommitsAreSteps

