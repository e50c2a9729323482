SPECIFICATION FairSpec
CONSTANTS
  g1 = g1
  g2 = g2
  u1 = u1
  u2 = u2
  Gigs = {g1, g2}
  Users = {u1, u2}
  MaxFaults = 1
INVARIANTS
  TypeOK
  CountWithinFaults
  SearchableIsCounted
  NewestSortsLast
PROPERTIES
  ListsAsCatalog
  ListedEventually
  RetriedUntilKnown
CHECK_DEADLOCK FALSE
