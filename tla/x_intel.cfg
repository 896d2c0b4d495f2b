CONSTANTS
  query1 = query1
  query2 = query2
  snapshot = snapshot
  Source = {query1, query2, snapshot}
  PhaseOf <- Phases
  Last = 2
  PageSize = 1
  MaxRuns = 2
SPECIFICATION FairSpec
INVARIANTS
  TypeOK
  Accounted
  DigestIsBacked
  NeverReportedTwice
  PhasesIndependent
PROPERTIES
  LedgerGrows
  RunEnds
CHECK_DEADLOCK FALSE
