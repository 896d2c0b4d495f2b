SPECIFICATION FairSpec
CONSTANTS
  a = a
  b = b
  Loop <- TwoLoops
  Version = {"v1", "v2"}
  Initial <- Deployed
  MaxOps = 1
PROPERTIES
  ImplementsAtomicDeploy
  OperationEnds
CHECK_DEADLOCK FALSE
