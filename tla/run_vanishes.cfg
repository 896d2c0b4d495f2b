SPECIFICATION Spec
CONSTANTS
  r1 = r1
  r2 = r2
  r3 = r3
  r4 = r4
  r5 = r5
  Run <- TwoRuns
  LoopOf <- OneLoop
  File = {"report"}
  Declared <- Report
  Existing = {"report"}
  Leftover <- NoRuns
  Budgeted <- TwoRuns
  KeepLast = 1
  Faults = FALSE
INVARIANTS
  AttemptsInHistory
CHECK_DEADLOCK FALSE
