SPECIFICATION Spec
CONSTANTS
  Loop = {"x-intel", "slack"}
  Vendor = {"codex", "claude"}
  Binary = {"codex", "claude", "nv-tools", "loopctl"}
  Path = {"narrow", "wide"}
  Var = {"PATH", "LOOPCRAFT_VENDOR", "BEARER", "OAUTH", "CHANNEL", "PROXY"}
  Values <- TheValues
  Needs <- TwoNeeds
  Hosts <- TheHosts
  MaxEdits = 2
INVARIANTS
  TypeOK
  GateHolds
  AuthAgrees
PROPERTIES
  ShellIsIrrelevant
CHECK_DEADLOCK FALSE
