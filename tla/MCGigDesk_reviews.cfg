SPECIFICATION Spec
CONSTANTS
  g1 = g1
  g2 = g2
  r1 = r1
  r2 = r2
  r3 = r3
  e1 = e1
  u1 = u1
  Gigs = {g1, g2}
  Reviews = {r1, r2, r3}
  Edits = {e1}
  Rating <- FiveFiveFour
  Owner = u1
  MaxFaults = 1
INVARIANTS
  TypeOK
  RatingsAreEarned
  IndexIsCurrent
CHECK_DEADLOCK FALSE
