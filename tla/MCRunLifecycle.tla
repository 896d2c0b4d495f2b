--------------------------- MODULE MCRunLifecycle ---------------------------
(***************************************************************************)
(* Values of RunLifecycle's constants for TLC, and for the pruning runs a  *)
(* later moment to start from.                                             *)
(***************************************************************************)
EXTENDS RunLifecycle, TLC

CONSTANTS r1, r2, r3, r4, r5

TwoRuns == {r1, r2}
FiveRuns == {r1, r2, r3, r4, r5}
OneRun == {r1}
NoRuns == {}
Past == {r4, r5}

OneLoop == [r \in Run |-> "loop"]

\* Every run of the loop rewrites its report.
Report == [r \in Run |-> {"report"}]
Nothing == [r \in Run |-> {}]
Symmetric == Permutations({r1, r2})

-----------------------------------------------------------------------------
\* The two runs that are about to prune when the third starts.
Late == {r2, r3}

\* A state that Init leads to: the agents of the two have exited with an error
\* and their records are written; the third run is staged, and its worktree
\* the oldest of the three.
LateInit ==
  /\ files = Existing
  /\ dirs = Run
  /\ newer = {<<r2, r3>>, <<r4, r5>>} \cup (Late \X {r1}) \cup ((Late \cup {r1}) \X Past)
  /\ entries = [r \in Run |-> IF r \in Late THEN Entry ELSE Bundle]
  /\ pc = [r \in Run |-> CASE r \in Late -> "scan" [] r \in Past -> "dead" [] r = r1 -> "prepare"]
  /\ agent = [r \in Run |-> IF r \in Late THEN "exited" ELSE "none"]
  /\ pre = Always({}) /\ changed = Always({})
  /\ gaps = Always(NoGaps) /\ draft = Always(NoRecord)
  /\ ledger = [r \in Run |-> IF r \in Late
                 THEN [status |-> "failed", phase |-> "ran", outputs |-> {}]
                 ELSE NoRecord]
  /\ listed = Always({}) /\ condemned = Always({}) /\ byAge = Always({})
  /\ victim = Always({}) /\ doomed = Always({})
  /\ wrote = Always({}) /\ disturbed = Always({})
  /\ how = [r \in Run |-> IF r \in Late THEN "recorded" ELSE "open"]
  /\ warned = {}

LateSpec == LateInit /\ [][Next]_vars /\ Fairness
=============================================================================
