SPECIFICATION Spec
CONSTANTS
  s1 = s1
  s2 = s2
  s3 = s3
  u1 = u1
  u2 = u2
  Sockets = {s1, s2}
  Users = {u1, u2}
  Nobody = Nobody
  MaxSent = 4
  MaxFaults = 1
INVARIANTS
  TypeOK
  PresenceIsExplained
CHECK_DEADLOCK FALSE
