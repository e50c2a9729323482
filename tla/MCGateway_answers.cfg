SPECIFICATION FairSpec
CONSTANTS
  q1 = q1
  q2 = q2
  a1 = a1
  w1 = w1
  w2 = w2
  Requests = {q1, q2}
  Accounts = {a1}
  Words = {w1, w2}
  Nobody = Nobody
  Garbled = Garbled
  NoWord = NoWord
ACTION_CONSTRAINT RivalOnly
INVARIANTS
  TypeOK
  StatusIsTruthful
  LoginIsJudged
PROPERTIES
  AnsweredUnlessGigDied
CHECK_DEADLOCK FALSE
