CONSTANTS
  q1 = q1
  q2 = q2
  q3 = q3
  i1 = i1
  i2 = i2
  s2 = s2
  s1 = s1
  ZeroAddress = ZeroAddress
  StatementIds = {i1}
  Suppliers = {s1}
  Amounts = {1}
  Requests = {q1}
  MaxCrashes = 0
SPECIFICATION Spec
CHECK_DEADLOCK FALSE
INVARIANTS
  FailureIsReverted
