SPECIFICATION FairSpec

CONSTANTS
  auto = auto
  c1 = c1
  c2 = c2
  w1 = w1
  yape = yape
  Orders = {auto, yape}
  Calls = {c1, c2}
  Sweeps = {w1}
  Method <- MCMethod
  MaxFaults = 1

INVARIANTS
  OutcomeAnnounced
  ApprovalStands


  

CHECK_DEADLOCK FALSE
