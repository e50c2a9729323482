SPECIFICATION FairSpec
CONSTANTS
  r1 = r1
  r2 = r2
  e1 = e1
  e2 = e2
  Requests = {r1, r2}
  Emails = {e1, e2}
  MaxFaults = 1
INVARIANTS
  TypeOK
  EventAccounted
  HandledOnce
  ExistsIsTruthful
  DamageOnlyAfterFault
PROPERTIES
  HalfAppliedIsFinal
  ImplementsDirectory
  CopiedUnlessLost
  BecomesBuyer
CHECK_DEADLOCK FALSE
