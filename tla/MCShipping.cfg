SPECIFICATION FairShipmentSpec

CONSTANTS
  p = p
  q = q
  d1 = d1
  d2 = d2
  u1 = u1
  u2 = u2
  u3 = u3
  Orders = {p, q}
  Deliveries = {d1, d2}
  Updates = {u1, u2}
  MaxFaults = 1

INVARIANTS
  
  TimelineInOrder

PROPERTY
  ApprovalShips

CHECK_DEADLOCK FALSE
