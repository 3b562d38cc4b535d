CONSTANTS
  owner = owner
  settlement = settlement
  s1 = s1
  ZeroAddress = ZeroAddress
  Owner = owner
  Settlement = settlement
  Accounts <- MCAccounts
  Suppliers = {s1}
  StatementIds = {i1}
  Amounts = {1}
  Windows = {}
  DEFAULT_DISPUTE_WINDOW = 2
  MAX_DISPUTE_WINDOW = 3
  Funders = {}
  RescueTargets = {}
  InitialBalances <- MCBalances
  MaxTime = 5
  MaxRescued = 0
SPECIFICATION TimedSpec
CHECK_DEADLOCK FALSE
INVARIANTS
  SupplierHadTheWindow
