SPECIFICATION LateSpec
CONSTANTS
  r1 = r1
  r2 = r2
  r3 = r3
  r4 = r4
  r5 = r5
  Run <- FiveRuns
  LoopOf <- OneLoop
  File = {"report"}
  Declared <- Nothing
  Existing = {"report"}
  Leftover <- Past
  Budgeted <- OneRun
  KeepLast = 4
  Faults = FALSE
INVARIANTS
  RetentionHolds
  AttemptsInHistory
  AgentHasBundle
PROPERTIES
  AttemptsEnd
CHECK_DEADLOCK FALSE
