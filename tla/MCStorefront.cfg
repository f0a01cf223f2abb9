SPECIFICATION Spec
SYMMETRY MCSymmetry

CONSTANTS
  t1 = t1
  t2 = t2
  ana = ana
  ben = ben
  p1 = p1
  k1 = k1
  k2 = k2
  Tabs = {t1, t2}
  Users = {ana, ben}
  Products = {p1}
  Calls = {k1, k2}
  Available = 1
  MaxEvents = 3

INVARIANTS
  ScreenExact
  OrderedOnce
  GuestCartKept


  

CHECK_DEADLOCK FALSE
