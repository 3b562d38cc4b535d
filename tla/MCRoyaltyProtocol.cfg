CONSTANTS
  owner = owner
  escrow = escrow
  settlement = settlement
  b1 = b1
  s1 = s1
  s2 = s2
  ZeroAddress = ZeroAddress
  Owner = owner
  Escrow = escrow
  Settlement = settlement
  Accounts <- MCAccounts
  Brands = {b1}
  Suppliers = {s1, s2}
  Receipts = {r1, r2}
  StatementIds = {i1, i2}
  Amounts = {1, 2}
  Windows = {}
  DEFAULT_DISPUTE_WINDOW = 1
  MAX_DISPUTE_WINDOW = 1
  Funders = {}
  RescueTargets = {owner}
  InitialBalances <- MCBalances
  MaxTime = 2
  MaxRescued = 1
SPECIFICATION Spec
SYMMETRY MCSymmetry
CHECK_DEADLOCK FALSE
INVARIANTS
  SolventWhenCovered
  DrawnMoneyArrives
