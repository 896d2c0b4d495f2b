CONSTANTS
  a = a
  b = b
  f = f
  g = g
  Loop = {a, b}
  File = {f, g}
  Spelling = {"plain", "dotted"}
  Fleets <- AllFleets
  MaxEdits = 1
  MaxTicks = 1
SPECIFICATION FairSpec
INVARIANTS
  TypeOK
  NoFeedback
  OneWriter
PROPERTIES
  CascadeEnds
CHECK_DEADLOCK FALSE
