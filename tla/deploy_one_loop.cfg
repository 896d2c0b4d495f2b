SPECIFICATION Spec
CONSTANTS
  a = a
  b = b
  Loop <- OneLoop
  Version = {"v1", "v2"}
  Initial <- Neighbours
  MaxOps = 3
INVARIANTS
  TypeOK
  RollbackRestoresFiles
  RemovedIsDisarmed
PROPERTIES
  InstalledMeansDeployed
  ForeignUnitsSurvive
  SymlinksNeverWritten
CHECK_DEADLOCK FALSE
