SPECIFICATION Spec
CONSTANTS
  q1 = q1
  q2 = q2
  a1 = a1
  w1 = w1
  w2 = w2
  Requests = {q1}
  Accounts = {a1}
  Words = {w1}
  Nobody = Nobody
  Garbled = Garbled
  NoWord = NoWord
INVARIANT GigIsCreated
CHECK_DEADLOCK FALSE
