SPECIFICATION FairSpec
CONSTANTS
  c1 = c1
  c2 = c2
  c3 = c3
  Calls = {c1, c2}
  FirstLink = FirstLink
  MaxFaults = 0
PROPERTIES
  ResetLinkWorks
CHECK_DEADLOCK FALSE
