SPECIFICATION Spec

CONSTANTS
  a1 = a1
  a2 = a2
  a3 = a3
  s1 = s1
  s2 = s2
  s3 = s3
  Addresses = {a1, a2, a3}
  Sessions = {s1, s2, s3}

SYMMETRY Symmetry

INVARIANTS
  SecondDefaultNeedsOverlap
  DeadlockNeedsTwoUpdates

CHECK_DEADLOCK FALSE
