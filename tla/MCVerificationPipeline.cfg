CONSTANTS
  q1 = q1
  q2 = q2
  early = early
  forged = forged
  byHand = byHand
  noEvent = noEvent
  Requests <- MCRequests
  Packages <- MCPackages
  Malformed = {}
  Genuine <- MCGenuine
  CreatedAt <- MCCreatedAt
  NonceWindow = 1
  MaxTime = 2
  Events <- MCRequests
  Consumers <- MCConsumers
  NoEvent = noEvent
  Prefetch = 1
  RowIds <- MCRowIds
  Receipts <- MCRequests
  Periods <- MCPeriods
  MonthLength = 1
  MaxStatements = 1
  ManualIds <- MCManualIds
  PostedDates = {1}
  MaxFaults = 1

SPECIFICATION Spec

CONSTRAINTS
  MCOneDisturbance
  MCApart

SYMMETRY MCSymmetry

CHECK_DEADLOCK FALSE

INVARIANTS
  TypeOK
  ReplayOnlyOfFutureDated
  ReceiptAttestsProof
  NothingElseIsLost
  ChargedOnce
  ReportsAgree

PROPERTIES
  ImplementsDelivery
