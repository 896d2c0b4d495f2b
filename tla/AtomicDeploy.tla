---------------------------- MODULE AtomicDeploy ----------------------------
(***************************************************************************)
(* What an operator is promised by `loopctl apply --install` and `loopctl  *)
(* remove`, seen between operations: the unit directory, the triggers that *)
(* are armed, and how the last operation reported it ended.  UnitDeploy    *)
(* implements it.                                                          *)
(***************************************************************************)
CONSTANTS
  Unit,      \* unit files
  Trigger,   \* the units among them that start loops
  Plans,     \* the deployments that can be rendered: functions on Unit
  Content,   \* what a unit file can hold
  Removable,   \* the contents that carry the managed marker
  Symlink    \* the contents that are symbolic links

VARIABLES files, armed, report

vars == <<files, armed, report>>

Targets(p) == {u \in Unit : p[u] # "absent"}
Overlay(p) == [u \in Unit |-> IF u \in Targets(p) THEN p[u] ELSE files[u]]

Begin == report' = "none" /\ UNCHANGED <<files, armed>>

\* An install that reports success has deployed its whole plan and nothing else.
Commit(p) ==
  /\ \A u \in Targets(p) : files[u] \notin Symlink
  /\ files' = Overlay(p)
  /\ armed' = armed \cup (Targets(p) \cap Trigger)
  /\ report' = "installed"

\* An install that reports a clean rollback has the files as they were.  It can
\* have disarmed triggers of its plan and armed one, the one that failed.
Abort(p) ==
  /\ files' = files
  /\ armed \ armed' \subseteq Targets(p)
  /\ \E failing \in {{}} \cup {{t} : t \in Targets(p)} :
       armed' \ armed \subseteq failing
  /\ armed' \subseteq Trigger
  /\ report' = "rolledBack"

\* Nothing was installed: only staged, or there is no systemctl.
Decline == report' \in {"staged", "failed"} /\ UNCHANGED <<files, armed>>

\* A removal that reports success has deleted units that were managed, and
\* every trigger among them is disarmed.
Remove(units) ==
  /\ \A u \in units : files[u] \in Removable
  /\ files' = [u \in Unit |-> IF u \in units THEN "absent" ELSE files[u]]
  /\ armed' = armed \ units
  /\ report' = "removed"

\* Only these reports admit that the host is left in between.  Even then no
\* symlink has been written through.
Damage ==
  /\ report' \in {"partial", "incomplete", "crashed"}
  /\ files' \in [Unit -> Content]
  /\ \A u \in Unit : files[u] \in Symlink => files'[u] \in {files[u], "absent"}
  /\ armed' \subseteq Trigger

\* Damage is stated as a relation; the disjunction is only ever evaluated on
\* steps of an implementation.
Next ==
  \/ Begin \/ Decline \/ Damage
  \/ \E p \in Plans : Commit(p) \/ Abort(p)
  \/ \E units \in SUBSET Unit : Remove(units)

Init ==
  /\ files \in [Unit -> Content]
  /\ armed \subseteq Trigger
  /\ report = "none"

Spec == Init /\ [][Next]_vars
=============================================================================
