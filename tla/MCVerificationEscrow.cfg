CONSTANTS
  owner = owner
  escrow = escrow
  b1 = b1
  b2 = b2
  s1 = s1
  s2 = s2
  st1 = st1
  ZeroAddress = ZeroAddress
  Owner = owner
  Escrow = escrow
  Accounts <- MCAccounts
  Brands = {b1, b2}
  Suppliers = {s1, s2}
  Settlements = {st1}
  Receipts = {r1, r2, r3}
  Amounts = {0, 1, 2}
  RescueTargets = {owner, b1}
  MaxRescued = 2
  InitialBalances <- MCBalances
SPECIFICATION Spec
SYMMETRY MCSymmetry
CHECK_DEADLOCK FALSE
INVARIANTS
  TypeOK
  Backed
  EachReceiptBilledOnce
  BrandMoneyConserved
  PendingMatchesBills
