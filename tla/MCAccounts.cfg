SPECIFICATION FairSpec

CONSTANTS
  g1 = g1
  g2 = g2
  c1 = c1
  c2 = c2
  c3 = c3
  Keys = {g1, g2}
  Gateways = {g1, g2}
  Customers = {c1, c2, c3}
  Wanted <- MCWanted
  Configured <- MCConfigured
  Limit = 1
  Window = 2
  Block = 2
  MaxTime = 4
  MaxCrashes = 1

INVARIANTS
  WithinLimit
  AnswerTrue

PROPERTY
  GatewayComesUp

CHECK_DEADLOCK FALSE
