CONSTANTS
  x1 = x1
  x2 = x2
  e1 = e1
  e2 = e2
  recycled = recycled
  noEvent = noEvent
  Events <- MCEvents
  Consumers <- MCConsumers
  NoEvent = noEvent
  Prefetch = 1
  Predicates = {recycled}
  AccessGroups <- MCGroups
  Shipped <- MCShipped
  Configs <- MCConfigs
  MaxRuns = 1
  Roles <- MCRoles
  Products <- MCProducts
  ProductOf <- MCProductOf
  PredicateOf <- MCPredicateOf
  Receipts <- MCEvents
  Tokens <- MCTokens
  MaxPosted = 1
  MaxFaults = 1

SPECIFICATION Spec

CONSTRAINTS
  MCFirstEvent
  MCFewDisturbances

CHECK_DEADLOCK FALSE

INVARIANTS
  TypeOK
  NewestShownUnlessRedelivered
  ViewWithinRights

PROPERTIES
  ImplementsDelivery
  EventuallySettled
