SPECIFICATION FairKeySpec

CONSTANTS
  r1 = r1
  r2 = r2
  r3 = r3
  r4 = r4
  pay = pay
  other = other
  Requests = {r1, r2, r3, r4}
  Payload <- MCPayload
  MaxFaults = 2

INVARIANTS
  EffectOnce
  ReplayFaithful


  

CHECK_DEADLOCK FALSE
