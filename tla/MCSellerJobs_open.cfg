SPECIFICATION JobsSpec
CONSTANTS
  c1 = c1
  c2 = c2
  u1 = u1
  u2 = u2
  o1 = o1
  o2 = o2
  Calls = {c1, c2}
  Users = {u1}
  Orders = {o1}
  SellerOf <- OfOneSeller
  MaxFaults = 1
INVARIANTS
  JobsTypeOK
  AnswersAreTruthful
  JobsAddUp
PROPERTIES
  SomeCallWins
CONSTRAINT
  OneFilled
CHECK_DEADLOCK FALSE
