---------------------------- MODULE MCUnitDeploy ----------------------------
(***************************************************************************)
(* Values of UnitDeploy's constants for TLC.                               *)
(***************************************************************************)
EXTENDS UnitDeploy

CONSTANTS a, b

OneLoop == {a}
TwoLoops == {a, b}

\* Someone else's service under loopcraft's name, and a linked path unit.
Neighbours == [u \in Unit |->
  CASE u = <<a, "service">> -> "foreign"
    [] u = <<a, "path">> -> "link"
    [] OTHER -> "absent"]

\* Loop a has been deployed on a timer, b not at all.
Deployed == [u \in Unit |->
  CASE u \in {<<a, "service">>, <<a, "timer">>} -> "v1"
    [] OTHER -> "absent"]
=============================================================================
