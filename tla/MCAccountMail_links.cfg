SPECIFICATION OrderedSpec
CONSTANTS
  c1 = c1
  c2 = c2
  c3 = c3
  Calls = {c1, c2, c3}
  FirstLink = FirstLink
  MaxFaults = 1
INVARIANTS
  TypeOK
  LinksAreMailed
PROPERTIES
  StoredBeforeMailed
  LinkArrives
CHECK_DEADLOCK FALSE
