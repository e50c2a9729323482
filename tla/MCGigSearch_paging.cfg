SPECIFICATION SearchSpec
CONSTANTS
  g1 = g1
  g2 = g2
  g3 = g3
  Gigs = {g1, g2, g3}
  Prices = {1, 2}
  Sizes = {0, 1}
  DEFAULT_SIZE = 2
  MaxPages = 4
SYMMETRY Symmetry
INVARIANTS
  SearchTypeOK
  NothingTwice
  NothingMissed
PROPERTIES
  ReturnTrip
CHECK_DEADLOCK FALSE
