SPECIFICATION Spec
CONSTANTS
  w1 = w1
  w2 = w2
  w3 = w3
  r1 = r1
  n1 = n1
  n2 = n2
  s1 = s1
  s2 = s2
  Writers = {w1, w2, w3}
  Readers = {r1}
  Names = {n1, n2}
  Subnames = {s1, s2}
  MaxFaults = 1
SYMMETRY Symmetry
INVARIANTS
  TypeOK
  SubcategoryListed
  ReadsAreFresh
CHECK_DEADLOCK FALSE
