CONSTANTS
  Absent = Absent
  Dir = {"root", "sub", "alias", "out"}
  Root = "root"
  Inside = {"root", "sub", "alias"}
  Trees <- SomeTrees
  Sources <- SomeSources
  Text = {"good", "snap", "broken"}
  Valid = {"good", "snap"}
  Refers = {"snap"}
  FromEnv = "env"
  Overrides <- RootOrNot
  MaxEdits = 2
SPECIFICATION Spec
INVARIANTS
  BundleIsEffective
  ConfigUsable
CHECK_DEADLOCK FALSE
