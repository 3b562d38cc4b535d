CONSTANTS
  certificate = certificate
  c1 = c1
  c2 = c2
  s1 = s1
  s2 = s2
  Documents = {certificate}
  Claims = {c1, c2}
  Typed = {c1}
  Provable = {c1}
  TREE_DEPTH = 8
  Slots = {s1, s2}
  MaxActions = 6
  MaxStamp = 1
  MaxCommitments = 1
  MaxKeys = 2

SYMMETRY MCSymmetry

SPECIFICATION AgentSpec

CHECK_DEADLOCK FALSE

INVARIANTS
  AgentTypeOK
  ShownIsStored
  CommittedWasVerified
  ProofsHold
