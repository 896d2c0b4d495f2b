CONSTANTS
  r1 = r1
  r2 = r2
  Run = {r1, r2}
  s1 = s1
  s2 = s2
  Stamp = {s1, s2}
  Last = 2
  PageSize = 1
  TopPapers = 1
  NoRun = NoRun
SPECIFICATION Spec
SYMMETRY Symmetric
INVARIANTS
  TypeOK
  SeenIsSaved
  SeenIsAccounted
  NeverReportedTwice
  LatestInHistory
CHECK_DEADLOCK FALSE
