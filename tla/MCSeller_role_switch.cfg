SPECIFICATION SignedUpSpec
CONSTANTS
  c1 = c1
  c2 = c2
  c3 = c3
  u1 = u1
  u2 = u2
  Calls = {c1, c2}
  Users = {u1, u2}
  MaxFaults = 0
INVARIANTS
  BuyerBecomesSeller
CHECK_DEADLOCK FALSE
