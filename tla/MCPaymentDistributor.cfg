CONSTANTS
  owner = owner
  distributor = distributor
  payer = payer
  s1 = s1
  g1 = g1
  g2 = g2
  t1 = t1
  t2 = t2
  ZeroAddress = ZeroAddress
  Owner = owner
  Distributor = distributor
  Accounts <- MCAccounts
  Payers = {payer}
  Suppliers = {s1}
  Gateways = {g1, g2}
  Treasuries = {t1, t2}
  Amounts = {0, 199, 399}
  RescueAmounts = {2}
  Fees = {60, 940}
  BPS_DENOMINATOR = 10000
  MAX_TOTAL_FEE_BPS = 1000
  DEFAULT_PROTOCOL_FEE_BPS = 200
  DEFAULT_GATEWAY_FEE_BPS = 50
  InitialTreasury = t1
  RescueTargets = {owner}
  InitialBalances <- MCBalances
  MaxRescued = 2
SPECIFICATION Spec
CHECK_DEADLOCK FALSE
INVARIANTS
  TypeOK
  FeesBacked
  GatewayGetsItsFees
  SupplierShareProtected
