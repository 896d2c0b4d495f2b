SPECIFICATION Spec
CONSTANTS
  a = a
  b = b
  Loop <- TwoLoops
  Version = {"v1", "v2"}
  Initial <- Deployed
  MaxOps = 1
INVARIANT
  RollbackKeepsEnabled
CHECK_DEADLOCK FALSE
