SPECIFICATION Spec

CONSTANTS
  a1 = a1
  a2 = a2
  a3 = a3
  o1 = o1
  me = me
  you = you
  k1 = k1
  k2 = k2
  r1 = r1
  r2 = r2
  c1 = c1
  c2 = c2
  Ids = {a1, a2, a3}
  Saved <- MCSaved
  Zone <- MCZone
  Units = {1, 2}
  Clicks = {k1, k2}
  MaxEvents = 3
  Orders = {o1}
  Clients = {me, you}
  Admins = {}
  Me = me
  Codes = {c1, c2}
  Requests = {r1, r2}
  Listed = 10
  Prices = {10, 20}

SYMMETRY Symmetry

INVARIANTS
  PanelMatchesBook
  
  
  OwnersOnly

CHECK_DEADLOCK FALSE
