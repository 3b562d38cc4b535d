CONSTANTS
  owner = owner
  settlement = settlement
  s1 = s1
  s2 = s2
  ZeroAddress = ZeroAddress
  Owner = owner
  Settlement = settlement
  Accounts <- MCAccounts
  Suppliers = {s1, s2}
  StatementIds = {i1, i2}
  Amounts = {1, 2}
  Windows = {0, 1, 3, 4}
  DEFAULT_DISPUTE_WINDOW = 2
  MAX_DISPUTE_WINDOW = 3
  Funders = {owner}
  RescueTargets = {s1}
  FunderBalance = 2
  InitialBalances <- MCBalances
  MaxTime = 4
  MaxRescued = 1
SPECIFICATION Spec
CHECK_DEADLOCK FALSE
INVARIANTS
  TypeOK
  CreditedOnce
  WindowWaited
  DisputeOrFinalize
  NotHeldOpen
PROPERTIES
  ImplementsLedger
