-------------------------- MODULE MCFleetTriggers --------------------------
(***************************************************************************)
(* Fleets of two loops over two files that can be spelled in two ways.     *)
(***************************************************************************)
EXTENDS FleetTriggers

CONSTANTS a, b, f, g

AtMostOne(S) == {T \in SUBSET S : Cardinality(T) <= 1}

\* Every pair of manifests with one input and one output at most.
Small == [cadence : {"cron", "on-artifact"}, inputs : AtMostOne(Path), outputs : AtMostOne(Path),
          dependsOn : {{}, {a}}]
Event == [cadence |-> "event", inputs |-> {}, outputs |-> {}, dependsOn |-> {}]
\* One file twice among the outputs.
Twice == [cadence |-> "cron", inputs |-> {}, outputs |-> [file : {f}, spelling : Spelling],
          dependsOn |-> {}]
AllFleets == UNION {[S -> Small \cup {Event, Twice}] : S \in (SUBSET Loop) \ {{}}}
=============================================================================
