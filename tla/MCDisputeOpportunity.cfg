CONSTANTS
  owner = owner
  settlement = settlement
  s1 = s1
  ZeroAddress = ZeroAddress
  Owner = owner
  Settlement = settlement
  Accounts <- MCAccounts
  Suppliers = {s1}
  StatementIds = {i1, i2}
  Amounts = {1}
  Windows = {1, 3, 4}
  DEFAULT_DISPUTE_WINDOW = 2
  MAX_DISPUTE_WINDOW = 3
  Funders = {}
  RescueTargets = {}
  InitialBalances <- MCBalances
  MaxTime = 5
  MaxRescued = 0
SPECIFICATION FairTimedSpec
CHECK_DEADLOCK FALSE
INVARIANTS
  WindowMinusPauses
PROPERTIES
  EveryStatementSettles
