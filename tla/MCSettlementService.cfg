CONSTANTS
  q1 = q1
  q2 = q2
  q3 = q3
  i1 = i1
  i2 = i2
  s1 = s1
  s2 = s2
  ZeroAddress = ZeroAddress
  StatementIds = {i1, i2}
  Suppliers = {s1, s2}
  Amounts = {0, 1}
  Requests = {q1, q2, q3}
  MaxCrashes = 1
SPECIFICATION Spec
SYMMETRY MCSymmetry
CHECK_DEADLOCK FALSE
INVARIANTS
  TypeOK
  NothingHidden
  ChainFollowsBooks
  BooksFollowChain
  SuccessIsOnChain
