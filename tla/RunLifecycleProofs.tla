------------------------- MODULE RunLifecycleProofs -------------------------
(***************************************************************************)
(* Proofs about RunLifecycle, for any number of overlapping runs of any    *)
(* loops, whatever they declare, however they fail and whatever is pruned. *)
(***************************************************************************)
EXTENDS RunLifecycle, FiniteSetTheorems, WellFoundedInduction, TLAPS

\* A step of rmtree.
Removes(r, v) == Open(r, v) \/ Rmdir(r, v) \/ \E e \in Entry : Unlink(r, v, e)

-----------------------------------------------------------------------------
(***************************************************************************)
(* Type correctness.                                                       *)
(***************************************************************************)
LEMMA InitType == Init => TypeOK
BY RunAssumption, DeclaredAssumption
   DEF Init, TypeOK, Entry, Bundle, StrictOrders, Always, NoGaps, Record, NoRecord, Phase, Over

LEMMA StepType ==
  ASSUME TypeOK, [Next]_vars
  PROVE  TypeOK'
<1> USE DEF TypeOK, Record, NoRecord, scratch, runner, pruner, history
<1>1. ASSUME NEW r \in Run, Invoke(r) PROVE TypeOK'
  <2>1. CASE Goto(r, "mkdir") /\ UNCHANGED draft
    BY <1>1, <2>1 DEF Invoke, Goto, Phase, Staging
  <2>2. CASE RecordFailure(r, "preflight")
    BY <1>1, <2>2 DEF Invoke, Goto, RecordFailure, Failure, Phase, Recording
  <2> QED
    BY <1>1, <2>1, <2>2 DEF Invoke
<1>2. ASSUME NEW r \in Run, MakeWorktree(r) PROVE TypeOK'
  BY <1>2
     DEF MakeWorktree, Goto, Touch, Phase, Staging, Running, Collecting, Tracing,
         Recording, Pruning, Over
<1>3. ASSUME NEW r \in Run, StageSkill(r) PROVE TypeOK'
  BY <1>3
     DEF StageSkill, Goto, Touch, Add, Entry, Bundle, Phase, Staging, Running, Collecting, Tracing,
         Recording, Pruning, Over
<1>4. ASSUME NEW r \in Run, StageConfig(r) PROVE TypeOK'
  BY <1>4
     DEF StageConfig, Goto, Touch, Add, Entry, Bundle, Phase, Staging, Running,
         Collecting, Tracing, Recording, Pruning, Over
<1>5. ASSUME NEW r \in Run, StagingFails(r) PROVE TypeOK'
  BY <1>5
     DEF StagingFails, Goto, RecordFailure, Failure, Phase, Staging, Running,
         Collecting, Tracing, Recording, Pruning, Over
<1>6. ASSUME NEW r \in Run, Prepare(r) PROVE TypeOK'
  BY <1>6, DeclaredAssumption
     DEF Prepare, Goto, Touch, Snapshot, Phase, Staging, Running, Collecting,
         Tracing, Recording, Pruning, Over
<1>7. ASSUME NEW r \in Run, Spawn(r) PROVE TypeOK'
  BY <1>7
     DEF Spawn, Goto, Phase, Staging, Running, Collecting, Tracing, Recording,
         Pruning, Over
<1>8. ASSUME NEW r \in Run, SpawnFails(r) PROVE TypeOK'
  BY <1>8
     DEF SpawnFails, Goto, Failure, Phase, Staging, Running, Collecting, Tracing,
         Recording, Pruning, Over
<1>9. ASSUME NEW r \in Run, NEW f \in File, AgentWrites(r, f) PROVE TypeOK'
  BY <1>9, DeclaredAssumption
     DEF AgentWrites, Touched
<1>10. ASSUME NEW r \in Run, NEW f \in File, AgentDeletes(r, f) PROVE TypeOK'
  BY <1>10
     DEF AgentDeletes, Touched
<1>11. ASSUME NEW r \in Run, AgentExits(r) PROVE TypeOK'
  BY <1>11
     DEF AgentExits, Goto, Phase, Staging, Running, Collecting, Tracing, Recording,
         Pruning, Over
<1>12. ASSUME NEW r \in Run, OutputUndecodable(r) PROVE TypeOK'
  BY <1>12
     DEF OutputUndecodable, Goto, Phase, Staging, Running, Collecting, Tracing,
         Recording, Pruning, Over
<1>13. ASSUME NEW r \in Run, TimesOut(r) PROVE TypeOK'
  BY <1>13
     DEF TimesOut, Goto, Expires, Phase, Staging, Running, Collecting, Tracing,
         Recording, Pruning, Over
<1>14. ASSUME NEW r \in Run, WriteLog(r) PROVE TypeOK'
  BY <1>14
     DEF WriteLog, Goto, Touch, Add, Entry, Phase, Staging, Running, Collecting, Tracing,
         Recording, Pruning, Over
<1>15. ASSUME NEW r \in Run, FindMissing(r) PROVE TypeOK'
  BY <1>15, DeclaredAssumption
     DEF FindMissing, Goto, Phase, Staging, Running, Collecting, Tracing, Recording,
         Pruning, Over
<1>16. ASSUME NEW r \in Run, FindStale(r) PROVE TypeOK'
  BY <1>16
     DEF FindStale, Goto, Phase, Staging, Running, Collecting, Tracing, Recording,
         Pruning, Over
<1>17. ASSUME NEW r \in Run, FindProduced(r) PROVE TypeOK'
  BY <1>17, DeclaredAssumption
     DEF FindProduced, Goto, NoGap, Phase, Staging, Running, Collecting, Tracing,
         Recording, Pruning, Over
<1>18. ASSUME NEW r \in Run, RunnerRaises(r) PROVE TypeOK'
  BY <1>18
     DEF RunnerRaises, Goto, Phase, Staging, Running, Collecting, Tracing,
         Recording, Pruning, Over
<1>19. ASSUME NEW r \in Run, TraceDir(r) PROVE TypeOK'
  BY <1>19
     DEF TraceDir, Goto, Touch, Phase, Staging, Running, Collecting, Tracing,
         Recording, Pruning, Over
<1>20. ASSUME NEW r \in Run, WriteTrace(r) PROVE TypeOK'
  <2>1. dirs' \subseteq Run /\ newer' \subseteq dirs' \X dirs' /\ entries' \in [Run -> SUBSET Entry]
    <3>1. CASE UNCHANGED <<dirs, newer, entries>>
      BY <3>1
    <3>2. CASE Touch(r) /\ Add(r, "log")
      BY <3>2 DEF Touch, Add, Entry
    <3> QED
      BY <1>20, <3>1, <3>2 DEF WriteTrace
  <2> QED
    BY <1>20, <2>1
       DEF WriteTrace, Goto, RecordFailure, Failure, Phase, Staging, Running,
           Collecting, Tracing, Recording, Pruning, Over
<1>21. ASSUME NEW r \in Run, TraceFails(r) PROVE TypeOK'
  BY <1>21
     DEF TraceFails, Goto, Leave, BeforeWorktree, Forget, NoGaps, Phase, Staging,
         Running, Collecting, Tracing, Recording, Pruning, Over
<1>22. ASSUME NEW r \in Run, Interrupt(r) PROVE TypeOK'
  BY <1>22
     DEF Interrupt, Goto, Leave, BeforeWorktree, Forget, NoGaps, Survivor, Phase,
         Staging, Running, Collecting, Tracing, Recording, Pruning, Over
<1>23. ASSUME NEW r \in Run, WriteRecord(r) PROVE TypeOK'
  BY <1>23
     DEF WriteRecord, Goto, WriteTemporary, Phase, Staging, Running, Collecting,
         Tracing, Recording, Pruning, Over
<1>24. ASSUME NEW r \in Run, ReplaceRecord(r) PROVE TypeOK'
  BY <1>24
     DEF ReplaceRecord, Goto, Leave, BeforeWorktree, Forget, NoGaps, Phase, Staging,
         Running, Collecting, Tracing, Recording, Pruning, Over
<1>25. ASSUME NEW r \in Run, RecordFails(r) PROVE TypeOK'
  BY <1>25
     DEF RecordFails, Goto, Leave, BeforeWorktree, Forget, NoGaps, Phase, Staging,
         Running, Collecting, Tracing, Recording, Pruning, Over
<1>26. ASSUME NEW r \in Run, Scan(r) PROVE TypeOK'
  BY <1>26
     DEF Scan, Goto, Siblings, Phase, Staging, Running, Collecting, Tracing,
         Recording, Pruning, Over
<1>27. ASSUME NEW r \in Run, Sort(r) PROVE TypeOK'
  BY <1>27
     DEF Sort, Goto, Excess, Phase, Staging, Running, Collecting, Tracing,
         Recording, Pruning, Over
<1>28. ASSUME NEW r \in Run, NEW v \in Run, Removes(r, v) PROVE TypeOK'
  <2>1. CASE Open(r, v)
    BY <2>1 DEF Open, Newest, Goto, Phase, Pruning
  <2>2. ASSUME NEW e \in Entry, Unlink(r, v, e) PROVE TypeOK'
    <3>1. dirs' \subseteq Run /\ newer' \subseteq dirs' \X dirs'
      BY <2>2 DEF Unlink, Touch
    <3>2. entries' \in [Run -> SUBSET Entry]
      <4>1. entries' = entries \/ entries' = [entries EXCEPT ![v] = @ \ {e}]
        BY <2>2 DEF Unlink
      <4>2. entries \in [Run -> SUBSET Entry]
        OBVIOUS
      <4> HIDE DEF TypeOK
      <4> QED
        BY <4>1, <4>2
    <3>3. doomed' \in [Run -> SUBSET Entry]
      BY <2>2 DEF Unlink
    <3> QED
      BY <2>2, <3>1, <3>2, <3>3 DEF Unlink
  <2>3. CASE Rmdir(r, v)
    BY <2>3 DEF Rmdir, Goto, Phase, Pruning
  <2> QED
    BY <1>28, <2>1, <2>2, <2>3 DEF Removes
<1>29. ASSUME NEW r \in Run, PruneStops(r) PROVE TypeOK'
  BY <1>29
     DEF PruneStops, Goto, StopPruning, Phase, Staging, Running, Collecting,
         Tracing, Recording, Pruning, Over
<1>30. ASSUME NEW r \in Run, PruneDone(r) PROVE TypeOK'
  BY <1>30
     DEF PruneDone, Goto, Phase, Staging, Running, Collecting, Tracing, Recording,
         Pruning, Over
<1>31. ASSUME NEW r \in Run, Killed(r) PROVE TypeOK'
  <2>1. /\ pc' \in [Run -> Phase] /\ listed' \in [Run -> SUBSET Run]
        /\ condemned' \in [Run -> SUBSET Run] /\ byAge' \in [Run -> SUBSET (Run \X Run)]
        /\ doomed' \in [Run -> SUBSET Entry]
    BY <1>31 DEF Killed, StopPruning, Goto, Phase, Over
  <2>2. /\ pre' \in [Run -> SUBSET File] /\ changed' \in [Run -> SUBSET File]
        /\ gaps' \in [Run -> [missing : SUBSET File, stale : SUBSET File]]
        /\ draft' \in [Run -> Record \cup {NoRecord}]
    BY <1>31 DEF Killed, Forget, NoGaps
  <2>3. agent' \in [Run -> {"none", "running", "exited", "killed", "orphan"}]
    <3>1. PICK a \in Survivor(r) : agent' = [agent EXCEPT ![r] = a]
      BY <1>31 DEF Killed
    <3>2. agent \in [Run -> {"none", "running", "exited", "killed", "orphan"}]
      OBVIOUS
    <3>3. a \in {"none", "running", "exited", "killed", "orphan"}
      <4> HIDE DEF TypeOK
      <4> QED BY <3>2 DEF Survivor
    <3> QED
      <4> HIDE DEF TypeOK
      <4> QED BY <3>1, <3>2, <3>3
  <2> QED
    BY <1>31, <2>1, <2>2, <2>3 DEF Killed
<1>32. CASE UNCHANGED vars
  BY <1>32 DEF vars
<1> QED
  BY <1>1, <1>2, <1>3, <1>4, <1>5, <1>6, <1>7, <1>8, <1>9, <1>10, <1>11, <1>12,
     <1>13, <1>14, <1>15, <1>16, <1>17, <1>18, <1>19, <1>20, <1>21, <1>22, <1>23,
     <1>24, <1>25, <1>26, <1>27, <1>28, <1>29, <1>30, <1>31, <1>32
     DEF Next, Step, Advance, Removes

-----------------------------------------------------------------------------
(***************************************************************************)
(* What every phase of a run knows.  All of it is about outputs that no    *)
(* other agent has touched since the snapshot: those change only by the    *)
(* run's own agent, and no longer once it has exited.                      *)
(***************************************************************************)
Fresh == {"idle", "prepare"} \cup Staging
Undisturbed(q) == Declared[q] \ disturbed[q]

\* A record that may be written, of an agent that exited or of none.
Innocent(rec) == rec.outputs = {} /\ rec.status # "done"
Sound(q, rec) ==
  IF rec.phase = "ran"
  THEN /\ agent[q] = "exited"
       /\ rec.outputs \ disturbed[q] = wrote[q] \ disturbed[q]
       /\ rec.status = "done" => Declared[q] \subseteq wrote[q] \cup disturbed[q]
  ELSE Innocent(rec)

AgentInv(q) ==
  /\ pc[q] \in Fresh \cup {"spawn"} => agent[q] = "none" /\ wrote[q] = {}
  /\ pc[q] \in Fresh => disturbed[q] = {}
  /\ wrote[q] \subseteq Declared[q]
  /\ pc[q] = "log" => IF draft[q].phase = "ran" THEN agent[q] = "exited" ELSE Innocent(draft[q])
  /\ pc[q] \in Collecting => draft[q].phase = "ran" /\ agent[q] = "exited"

WindowInv(q) ==
  pc[q] \in Window => \A f \in Undisturbed(q) :
    IF f \in wrote[q] THEN f \in files /\ f \in changed[q]
                      ELSE f \in files => f \in pre[q] /\ f \notin changed[q]

GapInv(q) ==
  /\ pc[q] \in {"stale", "produced"} =>
       \A f \in Undisturbed(q) : f \in gaps[q].missing <=> f \notin files
  /\ pc[q] = "produced" =>
       \A f \in Undisturbed(q) : f \in gaps[q].stale <=> f \in files /\ f \notin wrote[q]

LedgerInv(q) ==
  /\ pc[q] = "log" => draft[q] \in Record
  /\ pc[q] \in Recording => draft[q] \in Record /\ Sound(q, draft[q])
  /\ \/ ledger[q] = NoRecord
     \/ pc[q] \in Pruning \cup Over /\ ledger[q] \in Record /\ Sound(q, ledger[q])

RunInv(q) == AgentInv(q) /\ WindowInv(q) /\ GapInv(q) /\ LedgerInv(q)

LEMMA StepAgent ==
  ASSUME TypeOK, NEW q \in Run, AgentInv(q), [Next]_vars
  PROVE  AgentInv(q)'
<1> USE DEF TypeOK, AgentInv, Innocent, Fresh, Window, Staging, Running, Collecting,
           Tracing, Recording, Pruning, Over, scratch, runner, pruner, history
<1>1. ASSUME NEW r \in Run, Invoke(r) PROVE AgentInv(q)'
  BY <1>1
     DEF Invoke, Goto, RecordFailure, Failure
<1>2. ASSUME NEW r \in Run, MakeWorktree(r) PROVE AgentInv(q)'
  BY <1>2
     DEF MakeWorktree, Goto, Touch
<1>3. ASSUME NEW r \in Run, StageSkill(r) PROVE AgentInv(q)'
  BY <1>3
     DEF StageSkill, Goto, Touch, Add
<1>4. ASSUME NEW r \in Run, StageConfig(r) PROVE AgentInv(q)'
  BY <1>4
     DEF StageConfig, Goto, Touch, Add
<1>5. ASSUME NEW r \in Run, StagingFails(r) PROVE AgentInv(q)'
  BY <1>5
     DEF StagingFails, Goto, RecordFailure, Failure
<1>6. ASSUME NEW r \in Run, Prepare(r) PROVE AgentInv(q)'
  BY <1>6
     DEF Prepare, Goto, Touch, Snapshot
<1>7. ASSUME NEW r \in Run, Spawn(r) PROVE AgentInv(q)'
  BY <1>7
     DEF Spawn, Goto
<1>8. ASSUME NEW r \in Run, SpawnFails(r) PROVE AgentInv(q)'
  BY <1>8
     DEF SpawnFails, Goto, Failure
<1>9. ASSUME NEW r \in Run, NEW f \in File, AgentWrites(r, f) PROVE AgentInv(q)'
  BY <1>9
     DEF AgentWrites, Touched
<1>10. ASSUME NEW r \in Run, NEW f \in File, AgentDeletes(r, f) PROVE AgentInv(q)'
  BY <1>10
     DEF AgentDeletes, Touched
<1>11. ASSUME NEW r \in Run, AgentExits(r) PROVE AgentInv(q)'
  BY <1>11
     DEF AgentExits, Goto
<1>12. ASSUME NEW r \in Run, OutputUndecodable(r) PROVE AgentInv(q)'
  BY <1>12
     DEF OutputUndecodable, Goto
<1>13. ASSUME NEW r \in Run, TimesOut(r) PROVE AgentInv(q)'
  BY <1>13
     DEF TimesOut, Goto, Expires
<1>14. ASSUME NEW r \in Run, WriteLog(r) PROVE AgentInv(q)'
  BY <1>14
     DEF WriteLog, Goto, Touch
<1>15. ASSUME NEW r \in Run, FindMissing(r) PROVE AgentInv(q)'
  BY <1>15
     DEF FindMissing, Goto
<1>16. ASSUME NEW r \in Run, FindStale(r) PROVE AgentInv(q)'
  BY <1>16
     DEF FindStale, Goto
<1>17. ASSUME NEW r \in Run, FindProduced(r) PROVE AgentInv(q)'
  BY <1>17
     DEF FindProduced, Goto, NoGap
<1>18. ASSUME NEW r \in Run, RunnerRaises(r) PROVE AgentInv(q)'
  BY <1>18
     DEF RunnerRaises, Goto
<1>19. ASSUME NEW r \in Run, TraceDir(r) PROVE AgentInv(q)'
  BY <1>19
     DEF TraceDir, Goto, Touch
<1>20. ASSUME NEW r \in Run, WriteTrace(r) PROVE AgentInv(q)'
  BY <1>20
     DEF WriteTrace, Goto, Touch, RecordFailure, Failure
<1>21. ASSUME NEW r \in Run, TraceFails(r) PROVE AgentInv(q)'
  BY <1>21
     DEF TraceFails, Goto, Leave, BeforeWorktree, Forget, NoGaps
<1>22. ASSUME NEW r \in Run, Interrupt(r) PROVE AgentInv(q)'
  BY <1>22
     DEF Interrupt, Goto, Leave, BeforeWorktree, Forget, NoGaps, Survivor
<1>23. ASSUME NEW r \in Run, WriteRecord(r) PROVE AgentInv(q)'
  BY <1>23
     DEF WriteRecord, Goto, WriteTemporary
<1>24. ASSUME NEW r \in Run, ReplaceRecord(r) PROVE AgentInv(q)'
  BY <1>24
     DEF ReplaceRecord, Goto, Leave, BeforeWorktree, Forget, NoGaps
<1>25. ASSUME NEW r \in Run, RecordFails(r) PROVE AgentInv(q)'
  BY <1>25
     DEF RecordFails, Goto, Leave, BeforeWorktree, Forget, NoGaps
<1>26. ASSUME NEW r \in Run, Scan(r) PROVE AgentInv(q)'
  BY <1>26
     DEF Scan, Goto, Siblings
<1>27. ASSUME NEW r \in Run, Sort(r) PROVE AgentInv(q)'
  BY <1>27
     DEF Sort, Goto, Excess
<1>28. ASSUME NEW r \in Run, NEW v \in Run, Removes(r, v) PROVE AgentInv(q)'
  BY <1>28
     DEF Removes, Open, Unlink, Rmdir, Goto, Touch
<1>29. ASSUME NEW r \in Run, PruneStops(r) PROVE AgentInv(q)'
  BY <1>29
     DEF PruneStops, Goto, StopPruning
<1>30. ASSUME NEW r \in Run, PruneDone(r) PROVE AgentInv(q)'
  BY <1>30
     DEF PruneDone, Goto
<1>31. ASSUME NEW r \in Run, Killed(r) PROVE AgentInv(q)'
  BY <1>31
     DEF Killed, Goto, StopPruning, Forget, Survivor, NoGaps
<1>32. CASE UNCHANGED vars
  BY <1>32 DEF vars
<1> QED
  BY <1>1, <1>2, <1>3, <1>4, <1>5, <1>6, <1>7, <1>8, <1>9, <1>10, <1>11, <1>12,
     <1>13, <1>14, <1>15, <1>16, <1>17, <1>18, <1>19, <1>20, <1>21, <1>22, <1>23,
     <1>24, <1>25, <1>26, <1>27, <1>28, <1>29, <1>30, <1>31, <1>32
     DEF Next, Step, Advance, Removes

LEMMA StepWindow ==
  ASSUME TypeOK, NEW q \in Run, AgentInv(q), WindowInv(q), [Next]_vars
  PROVE  WindowInv(q)'
<1> USE DEF TypeOK, AgentInv, WindowInv, Undisturbed, Fresh, Window, Staging, Running, Collecting,
           Tracing, Recording, Pruning, Over, scratch, runner, pruner, history
<1>1. ASSUME NEW r \in Run, Invoke(r) PROVE WindowInv(q)'
  BY <1>1
     DEF Invoke, Goto, RecordFailure, Failure
<1>2. ASSUME NEW r \in Run, MakeWorktree(r) PROVE WindowInv(q)'
  BY <1>2
     DEF MakeWorktree, Goto, Touch
<1>3. ASSUME NEW r \in Run, StageSkill(r) PROVE WindowInv(q)'
  BY <1>3
     DEF StageSkill, Goto, Touch, Add
<1>4. ASSUME NEW r \in Run, StageConfig(r) PROVE WindowInv(q)'
  BY <1>4
     DEF StageConfig, Goto, Touch, Add
<1>5. ASSUME NEW r \in Run, StagingFails(r) PROVE WindowInv(q)'
  BY <1>5
     DEF StagingFails, Goto, RecordFailure, Failure
<1>6. ASSUME NEW r \in Run, Prepare(r) PROVE WindowInv(q)'
  BY <1>6
     DEF Prepare, Goto, Touch, Snapshot
<1>7. ASSUME NEW r \in Run, Spawn(r) PROVE WindowInv(q)'
  BY <1>7
     DEF Spawn, Goto
<1>8. ASSUME NEW r \in Run, SpawnFails(r) PROVE WindowInv(q)'
  BY <1>8
     DEF SpawnFails, Goto, Failure
<1>9. ASSUME NEW r \in Run, NEW f \in File, AgentWrites(r, f) PROVE WindowInv(q)'
  BY <1>9
     DEF AgentWrites, Touched
<1>10. ASSUME NEW r \in Run, NEW f \in File, AgentDeletes(r, f) PROVE WindowInv(q)'
  BY <1>10
     DEF AgentDeletes, Touched
<1>11. ASSUME NEW r \in Run, AgentExits(r) PROVE WindowInv(q)'
  BY <1>11
     DEF AgentExits, Goto
<1>12. ASSUME NEW r \in Run, OutputUndecodable(r) PROVE WindowInv(q)'
  BY <1>12
     DEF OutputUndecodable, Goto
<1>13. ASSUME NEW r \in Run, TimesOut(r) PROVE WindowInv(q)'
  BY <1>13
     DEF TimesOut, Goto, Expires
<1>14. ASSUME NEW r \in Run, WriteLog(r) PROVE WindowInv(q)'
  BY <1>14
     DEF WriteLog, Goto, Touch
<1>15. ASSUME NEW r \in Run, FindMissing(r) PROVE WindowInv(q)'
  BY <1>15
     DEF FindMissing, Goto
<1>16. ASSUME NEW r \in Run, FindStale(r) PROVE WindowInv(q)'
  BY <1>16
     DEF FindStale, Goto
<1>17. ASSUME NEW r \in Run, FindProduced(r) PROVE WindowInv(q)'
  BY <1>17
     DEF FindProduced, Goto, NoGap
<1>18. ASSUME NEW r \in Run, RunnerRaises(r) PROVE WindowInv(q)'
  BY <1>18
     DEF RunnerRaises, Goto
<1>19. ASSUME NEW r \in Run, TraceDir(r) PROVE WindowInv(q)'
  BY <1>19
     DEF TraceDir, Goto, Touch
<1>20. ASSUME NEW r \in Run, WriteTrace(r) PROVE WindowInv(q)'
  BY <1>20
     DEF WriteTrace, Goto, Touch, RecordFailure, Failure
<1>21. ASSUME NEW r \in Run, TraceFails(r) PROVE WindowInv(q)'
  BY <1>21
     DEF TraceFails, Goto, Leave, BeforeWorktree, Forget, NoGaps
<1>22. ASSUME NEW r \in Run, Interrupt(r) PROVE WindowInv(q)'
  BY <1>22
     DEF Interrupt, Goto, Leave, BeforeWorktree, Forget, NoGaps, Survivor
<1>23. ASSUME NEW r \in Run, WriteRecord(r) PROVE WindowInv(q)'
  BY <1>23
     DEF WriteRecord, Goto, WriteTemporary
<1>24. ASSUME NEW r \in Run, ReplaceRecord(r) PROVE WindowInv(q)'
  BY <1>24
     DEF ReplaceRecord, Goto, Leave, BeforeWorktree, Forget, NoGaps
<1>25. ASSUME NEW r \in Run, RecordFails(r) PROVE WindowInv(q)'
  BY <1>25
     DEF RecordFails, Goto, Leave, BeforeWorktree, Forget, NoGaps
<1>26. ASSUME NEW r \in Run, Scan(r) PROVE WindowInv(q)'
  BY <1>26
     DEF Scan, Goto, Siblings
<1>27. ASSUME NEW r \in Run, Sort(r) PROVE WindowInv(q)'
  BY <1>27
     DEF Sort, Goto, Excess
<1>28. ASSUME NEW r \in Run, NEW v \in Run, Removes(r, v) PROVE WindowInv(q)'
  BY <1>28
     DEF Removes, Open, Unlink, Rmdir, Goto, Touch
<1>29. ASSUME NEW r \in Run, PruneStops(r) PROVE WindowInv(q)'
  BY <1>29
     DEF PruneStops, Goto, StopPruning
<1>30. ASSUME NEW r \in Run, PruneDone(r) PROVE WindowInv(q)'
  BY <1>30
     DEF PruneDone, Goto
<1>31. ASSUME NEW r \in Run, Killed(r) PROVE WindowInv(q)'
  BY <1>31
     DEF Killed, Goto, StopPruning, Forget, Survivor, NoGaps
<1>32. CASE UNCHANGED vars
  BY <1>32 DEF vars
<1> QED
  BY <1>1, <1>2, <1>3, <1>4, <1>5, <1>6, <1>7, <1>8, <1>9, <1>10, <1>11, <1>12,
     <1>13, <1>14, <1>15, <1>16, <1>17, <1>18, <1>19, <1>20, <1>21, <1>22, <1>23,
     <1>24, <1>25, <1>26, <1>27, <1>28, <1>29, <1>30, <1>31, <1>32
     DEF Next, Step, Advance, Removes

LEMMA StepGap ==
  ASSUME TypeOK, NEW q \in Run, AgentInv(q), WindowInv(q), GapInv(q), [Next]_vars
  PROVE  GapInv(q)'
<1> USE DEF TypeOK, AgentInv, WindowInv, GapInv, Undisturbed, Fresh, Window, Staging, Running,
           Collecting, Tracing, Recording, Pruning, Over, scratch, runner, pruner, history
<1>1. ASSUME NEW r \in Run, Invoke(r) PROVE GapInv(q)'
  BY <1>1
     DEF Invoke, Goto, RecordFailure, Failure
<1>2. ASSUME NEW r \in Run, MakeWorktree(r) PROVE GapInv(q)'
  BY <1>2
     DEF MakeWorktree, Goto, Touch
<1>3. ASSUME NEW r \in Run, StageSkill(r) PROVE GapInv(q)'
  BY <1>3
     DEF StageSkill, Goto, Touch, Add
<1>4. ASSUME NEW r \in Run, StageConfig(r) PROVE GapInv(q)'
  BY <1>4
     DEF StageConfig, Goto, Touch, Add
<1>5. ASSUME NEW r \in Run, StagingFails(r) PROVE GapInv(q)'
  BY <1>5
     DEF StagingFails, Goto, RecordFailure, Failure
<1>6. ASSUME NEW r \in Run, Prepare(r) PROVE GapInv(q)'
  BY <1>6
     DEF Prepare, Goto, Touch, Snapshot
<1>7. ASSUME NEW r \in Run, Spawn(r) PROVE GapInv(q)'
  BY <1>7
     DEF Spawn, Goto
<1>8. ASSUME NEW r \in Run, SpawnFails(r) PROVE GapInv(q)'
  BY <1>8
     DEF SpawnFails, Goto, Failure
<1>9. ASSUME NEW r \in Run, NEW f \in File, AgentWrites(r, f) PROVE GapInv(q)'
  BY <1>9
     DEF AgentWrites, Touched
<1>10. ASSUME NEW r \in Run, NEW f \in File, AgentDeletes(r, f) PROVE GapInv(q)'
  BY <1>10
     DEF AgentDeletes, Touched
<1>11. ASSUME NEW r \in Run, AgentExits(r) PROVE GapInv(q)'
  BY <1>11
     DEF AgentExits, Goto
<1>12. ASSUME NEW r \in Run, OutputUndecodable(r) PROVE GapInv(q)'
  BY <1>12
     DEF OutputUndecodable, Goto
<1>13. ASSUME NEW r \in Run, TimesOut(r) PROVE GapInv(q)'
  BY <1>13
     DEF TimesOut, Goto, Expires
<1>14. ASSUME NEW r \in Run, WriteLog(r) PROVE GapInv(q)'
  BY <1>14
     DEF WriteLog, Goto, Touch
<1>15. ASSUME NEW r \in Run, FindMissing(r) PROVE GapInv(q)'
  BY <1>15
     DEF FindMissing, Goto
<1>16. ASSUME NEW r \in Run, FindStale(r) PROVE GapInv(q)'
  BY <1>16
     DEF FindStale, Goto
<1>17. ASSUME NEW r \in Run, FindProduced(r) PROVE GapInv(q)'
  BY <1>17
     DEF FindProduced, Goto, NoGap
<1>18. ASSUME NEW r \in Run, RunnerRaises(r) PROVE GapInv(q)'
  BY <1>18
     DEF RunnerRaises, Goto
<1>19. ASSUME NEW r \in Run, TraceDir(r) PROVE GapInv(q)'
  BY <1>19
     DEF TraceDir, Goto, Touch
<1>20. ASSUME NEW r \in Run, WriteTrace(r) PROVE GapInv(q)'
  BY <1>20
     DEF WriteTrace, Goto, Touch, RecordFailure, Failure
<1>21. ASSUME NEW r \in Run, TraceFails(r) PROVE GapInv(q)'
  BY <1>21
     DEF TraceFails, Goto, Leave, BeforeWorktree, Forget, NoGaps
<1>22. ASSUME NEW r \in Run, Interrupt(r) PROVE GapInv(q)'
  BY <1>22
     DEF Interrupt, Goto, Leave, BeforeWorktree, Forget, NoGaps, Survivor
<1>23. ASSUME NEW r \in Run, WriteRecord(r) PROVE GapInv(q)'
  BY <1>23
     DEF WriteRecord, Goto, WriteTemporary
<1>24. ASSUME NEW r \in Run, ReplaceRecord(r) PROVE GapInv(q)'
  BY <1>24
     DEF ReplaceRecord, Goto, Leave, BeforeWorktree, Forget, NoGaps
<1>25. ASSUME NEW r \in Run, RecordFails(r) PROVE GapInv(q)'
  BY <1>25
     DEF RecordFails, Goto, Leave, BeforeWorktree, Forget, NoGaps
<1>26. ASSUME NEW r \in Run, Scan(r) PROVE GapInv(q)'
  BY <1>26
     DEF Scan, Goto, Siblings
<1>27. ASSUME NEW r \in Run, Sort(r) PROVE GapInv(q)'
  BY <1>27
     DEF Sort, Goto, Excess
<1>28. ASSUME NEW r \in Run, NEW v \in Run, Removes(r, v) PROVE GapInv(q)'
  BY <1>28
     DEF Removes, Open, Unlink, Rmdir, Goto, Touch
<1>29. ASSUME NEW r \in Run, PruneStops(r) PROVE GapInv(q)'
  BY <1>29
     DEF PruneStops, Goto, StopPruning
<1>30. ASSUME NEW r \in Run, PruneDone(r) PROVE GapInv(q)'
  BY <1>30
     DEF PruneDone, Goto
<1>31. ASSUME NEW r \in Run, Killed(r) PROVE GapInv(q)'
  BY <1>31
     DEF Killed, Goto, StopPruning, Forget, Survivor, NoGaps
<1>32. CASE UNCHANGED vars
  BY <1>32 DEF vars
<1> QED
  BY <1>1, <1>2, <1>3, <1>4, <1>5, <1>6, <1>7, <1>8, <1>9, <1>10, <1>11, <1>12,
     <1>13, <1>14, <1>15, <1>16, <1>17, <1>18, <1>19, <1>20, <1>21, <1>22, <1>23,
     <1>24, <1>25, <1>26, <1>27, <1>28, <1>29, <1>30, <1>31, <1>32
     DEF Next, Step, Advance, Removes

LEMMA StepLedger ==
  ASSUME TypeOK, NEW q \in Run, AgentInv(q), WindowInv(q), GapInv(q), LedgerInv(q), [Next]_vars
  PROVE  LedgerInv(q)'
<1> USE DEF TypeOK, AgentInv, GapInv, LedgerInv, Sound, Innocent, Undisturbed, Record,
           NoRecord, Fresh, Window, Staging, Running, Collecting,
           Tracing, Recording, Pruning, Over, scratch, runner, pruner, history
<1>1. ASSUME NEW r \in Run, Invoke(r) PROVE LedgerInv(q)'
  BY <1>1
     DEF Invoke, Goto, RecordFailure, Failure
<1>2. ASSUME NEW r \in Run, MakeWorktree(r) PROVE LedgerInv(q)'
  BY <1>2
     DEF MakeWorktree, Goto, Touch
<1>3. ASSUME NEW r \in Run, StageSkill(r) PROVE LedgerInv(q)'
  BY <1>3
     DEF StageSkill, Goto, Touch, Add
<1>4. ASSUME NEW r \in Run, StageConfig(r) PROVE LedgerInv(q)'
  BY <1>4
     DEF StageConfig, Goto, Touch, Add
<1>5. ASSUME NEW r \in Run, StagingFails(r) PROVE LedgerInv(q)'
  BY <1>5
     DEF StagingFails, Goto, RecordFailure, Failure
<1>6. ASSUME NEW r \in Run, Prepare(r) PROVE LedgerInv(q)'
  BY <1>6
     DEF Prepare, Goto, Touch, Snapshot
<1>7. ASSUME NEW r \in Run, Spawn(r) PROVE LedgerInv(q)'
  BY <1>7
     DEF Spawn, Goto
<1>8. ASSUME NEW r \in Run, SpawnFails(r) PROVE LedgerInv(q)'
  BY <1>8
     DEF SpawnFails, Goto, Failure
<1>9. ASSUME NEW r \in Run, NEW f \in File, AgentWrites(r, f) PROVE LedgerInv(q)'
  BY <1>9
     DEF AgentWrites, Touched
<1>10. ASSUME NEW r \in Run, NEW f \in File, AgentDeletes(r, f) PROVE LedgerInv(q)'
  BY <1>10
     DEF AgentDeletes, Touched
<1>11. ASSUME NEW r \in Run, AgentExits(r) PROVE LedgerInv(q)'
  BY <1>11
     DEF AgentExits, Goto
<1>12. ASSUME NEW r \in Run, OutputUndecodable(r) PROVE LedgerInv(q)'
  BY <1>12
     DEF OutputUndecodable, Goto
<1>13. ASSUME NEW r \in Run, TimesOut(r) PROVE LedgerInv(q)'
  BY <1>13
     DEF TimesOut, Goto, Expires
<1>14. ASSUME NEW r \in Run, WriteLog(r) PROVE LedgerInv(q)'
  BY <1>14
     DEF WriteLog, Goto, Touch
<1>15. ASSUME NEW r \in Run, FindMissing(r) PROVE LedgerInv(q)'
  BY <1>15
     DEF FindMissing, Goto
<1>16. ASSUME NEW r \in Run, FindStale(r) PROVE LedgerInv(q)'
  BY <1>16
     DEF FindStale, Goto
<1>17. ASSUME NEW r \in Run, FindProduced(r) PROVE LedgerInv(q)'
  <2>1. CASE r # q
    BY <1>17, <2>1 DEF FindProduced, Goto, Pruning, Over, Recording
  <2>2. CASE r = q
    <3> DEFINE claimed == (Declared[q] \cap files) \ gaps[q].stale
    <3>1. pc[q] = "produced" /\ agent[q] = "exited" /\ ledger[q] = NoRecord
      BY <1>17, <2>2 DEF FindProduced, Collecting, Pruning, Over
    <3>2. draft'[q].phase = "ran" /\ draft'[q].outputs = claimed
      BY <1>17, <2>2 DEF FindProduced
    <3>3. claimed \ disturbed[q] = wrote[q] \ disturbed[q]
      <4>1. \A f \in Undisturbed(q) : f \in claimed <=> f \in wrote[q]
        BY <3>1, WindowInv(q) DEF WindowInv, Window, Running, Collecting
      <4> QED
        BY <4>1, DeclaredAssumption
    <3>4. ASSUME draft'[q].status = "done" PROVE Declared[q] \subseteq wrote[q] \cup disturbed[q]
      BY <1>17, <2>2, <3>1, <3>4 DEF FindProduced, NoGap
    <3>5. draft'[q] \in Record
      BY <1>17, <2>2, DeclaredAssumption DEF FindProduced
    <3> QED
      BY <1>17, <2>2, <3>1, <3>2, <3>3, <3>4, <3>5 DEF FindProduced, Goto, Recording
  <2> QED
    BY <2>1, <2>2
<1>18. ASSUME NEW r \in Run, RunnerRaises(r) PROVE LedgerInv(q)'
  BY <1>18
     DEF RunnerRaises, Goto
<1>19. ASSUME NEW r \in Run, TraceDir(r) PROVE LedgerInv(q)'
  BY <1>19
     DEF TraceDir, Goto, Touch
<1>20. ASSUME NEW r \in Run, WriteTrace(r) PROVE LedgerInv(q)'
  BY <1>20
     DEF WriteTrace, Goto, Touch, RecordFailure, Failure
<1>21. ASSUME NEW r \in Run, TraceFails(r) PROVE LedgerInv(q)'
  BY <1>21
     DEF TraceFails, Goto, Leave, BeforeWorktree, Forget, NoGaps
<1>22. ASSUME NEW r \in Run, Interrupt(r) PROVE LedgerInv(q)'
  BY <1>22
     DEF Interrupt, Goto, Leave, BeforeWorktree, Forget, NoGaps, Survivor
<1>23. ASSUME NEW r \in Run, WriteRecord(r) PROVE LedgerInv(q)'
  BY <1>23
     DEF WriteRecord, Goto, WriteTemporary
<1>24. ASSUME NEW r \in Run, ReplaceRecord(r) PROVE LedgerInv(q)'
  <2>1. CASE r # q
    BY <1>24, <2>1 DEF ReplaceRecord, Goto, Leave, BeforeWorktree, Forget, NoGaps
  <2>2. CASE r = q
    <3>1. /\ pc[q] = "replace" /\ pc'[q] \in {"done", "scan"}
          /\ ledger'[q] = draft[q] /\ UNCHANGED <<agent, wrote, disturbed>>
      BY <1>24, <2>2 DEF ReplaceRecord, Goto, Leave
    <3>2. ledger'[q] \in Record /\ Sound(q, draft[q])
      BY <3>1
    <3> QED
      BY <3>1, <3>2
  <2> QED
    BY <2>1, <2>2
<1>25. ASSUME NEW r \in Run, RecordFails(r) PROVE LedgerInv(q)'
  BY <1>25
     DEF RecordFails, Goto, Leave, BeforeWorktree, Forget, NoGaps
<1>26. ASSUME NEW r \in Run, Scan(r) PROVE LedgerInv(q)'
  BY <1>26
     DEF Scan, Goto, Siblings
<1>27. ASSUME NEW r \in Run, Sort(r) PROVE LedgerInv(q)'
  BY <1>27
     DEF Sort, Goto, Excess
<1>28. ASSUME NEW r \in Run, NEW v \in Run, Removes(r, v) PROVE LedgerInv(q)'
  <2>1. CASE Open(r, v)
    BY <2>1 DEF Open, Goto
  <2>2. ASSUME NEW e \in Entry, Unlink(r, v, e) PROVE LedgerInv(q)'
    BY <2>2 DEF Unlink
  <2>3. CASE Rmdir(r, v)
    BY <2>3 DEF Rmdir, Goto
  <2> QED
    BY <1>28, <2>1, <2>2, <2>3 DEF Removes
<1>29. ASSUME NEW r \in Run, PruneStops(r) PROVE LedgerInv(q)'
  BY <1>29
     DEF PruneStops, Goto, StopPruning
<1>30. ASSUME NEW r \in Run, PruneDone(r) PROVE LedgerInv(q)'
  BY <1>30
     DEF PruneDone, Goto
<1>31. ASSUME NEW r \in Run, Killed(r) PROVE LedgerInv(q)'
  BY <1>31
     DEF Killed, Goto, StopPruning, Forget, Survivor, NoGaps
<1>32. CASE UNCHANGED vars
  BY <1>32 DEF vars
<1> QED
  BY <1>1, <1>2, <1>3, <1>4, <1>5, <1>6, <1>7, <1>8, <1>9, <1>10, <1>11, <1>12,
     <1>13, <1>14, <1>15, <1>16, <1>17, <1>18, <1>19, <1>20, <1>21, <1>22, <1>23,
     <1>24, <1>25, <1>26, <1>27, <1>28, <1>29, <1>30, <1>31, <1>32
     DEF Next, Step, Advance, Removes

-----------------------------------------------------------------------------
(***************************************************************************)
(* The theorems.                                                           *)
(***************************************************************************)
Inv == TypeOK /\ \A q \in Run : RunInv(q)

LEMMA InitInv == Init => Inv
<1> SUFFICES ASSUME Init, NEW q \in Run PROVE RunInv(q)
  BY InitType DEF Inv
<1>1. AgentInv(q) /\ WindowInv(q) /\ GapInv(q)
  BY DEF Init, Always, AgentInv, WindowInv, GapInv, Window, Running, Collecting
<1>2. LedgerInv(q)
  BY DEF Init, Always, LedgerInv, Recording
<1> QED
  BY <1>1, <1>2 DEF RunInv

LEMMA StepInv == Inv /\ [Next]_vars => Inv'
<1> SUFFICES ASSUME Inv, [Next]_vars PROVE Inv'
  OBVIOUS
<1>1. ASSUME NEW q \in Run PROVE RunInv(q)'
  BY StepAgent, StepWindow, StepGap, StepLedger DEF Inv, RunInv
<1> QED
  BY <1>1, StepType DEF Inv

\* The inductive invariant: what every phase of every run knows of the outputs
\* no other agent touched.
THEOREM Invariance == Spec => []Inv
BY InitInv, StepInv, PTL DEF Spec

\* The state is well formed: no reader ever meets a torn record, and the order
\* of the worktrees only speaks of those that exist.
THEOREM TypeCorrect == Spec => []TypeOK
BY Invariance, PTL DEF Inv

\* However runs overlap and fail, a record is exact about every output that no
\* other agent touched while its run was under way.
THEOREM ProvenanceSafe == Spec => []ExactProvenance
<1>1. Inv => ExactProvenance
  BY DEF Inv, RunInv, LedgerInv, Sound, Innocent, ExactProvenance, Recorded, Record, NoRecord
<1> QED
  BY <1>1, Invariance, PTL

\* A run recorded as done had an agent that exited and wrote what was declared.
THEOREM DoneSafe == Spec => []DoneIsEarned
<1>1. Inv => DoneIsEarned
  BY DEF Inv, RunInv, LedgerInv, Sound, Innocent, DoneIsEarned, Recorded, Record, NoRecord
<1> QED
  BY <1>1, Invariance, PTL

\* Only the rename of a finished file changes what a reader finds.
LEMMA WritesOfLedger ==
  ASSUME Next
  PROVE  ledger' = ledger \/ \E r \in Run : ReplaceRecord(r)
BY DEF Next, Step, Advance, WriteTemporary, Touched, Touch, Invoke, MakeWorktree,
       StageSkill, StageConfig, StagingFails, Prepare, Spawn, SpawnFails,
       AgentWrites, AgentDeletes, AgentExits, OutputUndecodable, TimesOut, WriteLog,
       FindMissing, FindStale, FindProduced, RunnerRaises, TraceDir, WriteTrace,
       TraceFails, Interrupt, WriteRecord, RecordFails, Scan, Sort, Open, Unlink,
       Rmdir, PruneStops, PruneDone, Killed

\* A record appears at once and for good (Store.record_run).
THEOREM RecordsSafe == Spec => RecordsAreFinal
<1>1. ASSUME Inv, Next PROVE RecordedOnce
  <2> SUFFICES ASSUME NEW q \in Run, ledger'[q] # ledger[q]
               PROVE  ledger[q] = NoRecord /\ ledger'[q] \in Record
    BY DEF RecordedOnce
  <2>1. PICK r \in Run : ReplaceRecord(r)
    BY <1>1, WritesOfLedger
  <2>2. r = q /\ pc[q] = "replace" /\ ledger'[q] = draft[q]
    BY <1>1, <2>1 DEF ReplaceRecord, Inv, TypeOK
  <2> QED
    BY <1>1, <2>2 DEF Inv, RunInv, LedgerInv, Recording, Pruning, Over
<1>2. Inv /\ [Next]_vars => [RecordedOnce]_vars
  BY <1>1
<1> QED
  BY <1>2, Invariance, PTL DEF Spec, RecordsAreFinal

-----------------------------------------------------------------------------
(***************************************************************************)
(* Retention.  As long as a loop has too many worktrees, some run of it is *)
(* still to prune, has listed all there are, or condemned enough of them.  *)
(***************************************************************************)
\* The runs of the loop of s this specification makes.
Fellow(s) == {r \in Run \ Leftover : LoopOf[r] = LoopOf[s]}

\* It dies or warns, it has a worktree and is to prune, or was never to have one.
Lost(r) == pc[r] = "dead" \/ r \in warned
Owing(r) ==
  /\ pc[r] \in Staging \cup Running \cup Tracing \cup Recording \cup {"scan"}
  /\ ~BeforeWorktree(r)
Refused(r) ==
  /\ pc[r] \in {"idle", "done"} \cup Recording
  /\ Recorded(r) => ledger[r].phase = "preflight"

Listing(r, s) == pc[r] = "sort" /\ Siblings(s) \subseteq listed[r]
Cutting(r, s) == pc[r] \in {"prune", "unlink"} /\ Cardinality(Siblings(s) \ condemned[r]) <= KeepLast

Counts(r, s) == Lost(r) \/ Owing(r) \/ Listing(r, s) \/ Cutting(r, s)

Few(s) == Cardinality(Siblings(s)) <= KeepLast
Pending(s) ==
  \/ Few(s)
  \/ \E r \in Fellow(s) : Counts(r, s)
  \/ \A r \in Fellow(s) : Refused(r)

OrderInv == newer \in StrictOrders(dirs)
DraftInv == \A r \in Run : BeforeWorktree(r) => pc[r] \in Recording
LeftoverInv == \A r \in Leftover : pc[r] = "dead"
\* A run takes one worktree apart at a time, and is remembered by the last it left half removed.
VictimInv ==
  \A r \in Run :
    /\ victim[r] # {} => pc[r] \in {"unlink"} \cup Over /\ r \notin Leftover
    /\ pc[r] = "unlink" => victim[r] # {}
    /\ \A a, b \in victim[r] : a = b
PlaceInv == OrderInv /\ DraftInv /\ LeftoverInv /\ VictimInv
RetentionInv == Inv /\ PlaceInv /\ \A s \in Run : Pending(s)

\* The steps of a run, in so far as they matter to what is kept.
Elsewhere(p) ==
  \A r \in Run \ {p} :
    /\ pc'[r] = pc[r] /\ draft'[r] = draft[r] /\ ledger'[r] = ledger[r]
    /\ listed'[r] = listed[r] /\ condemned'[r] = condemned[r]
    /\ victim'[r] = victim[r] /\ doomed'[r] \subseteq doomed[r]
    /\ r \in warned <=> r \in warned'
Still == UNCHANGED <<dirs, newer>>
Rests(p) == Still /\ UNCHANGED <<pc, draft, ledger, listed, condemned, victim, warned>>
Works(p) ==
  /\ Still \/ Touch(p)
  /\ pc[p] \notin Pruning \cup Over /\ Owing(p)' /\ UNCHANGED victim
IsRefused(p) ==
  /\ Still /\ UNCHANGED <<victim, warned>> /\ ~Owing(p)
  /\ pc[p] \in {"idle"} \cup Recording /\ pc'[p] \in {"done"} \cup Recording
  /\ pc'[p] \in Recording <=> BeforeWorktree(p)'
  /\ ledger'[p] = ledger[p] \/ ledger'[p].phase = "preflight"
Dies(p) ==
  /\ Still /\ UNCHANGED victim
  /\ pc[p] \notin {"idle"} \cup Over /\ pc'[p] = "dead" /\ ~BeforeWorktree(p)'
Warns(p) ==
  /\ Still /\ UNCHANGED <<draft, victim>>
  /\ pc[p] \in Pruning /\ pc'[p] = "done" /\ p \in warned'

\* What a step of rmtree does to the worktrees and to the run that takes it.
LEMMA Removing ==
  ASSUME TypeOK, NEW p \in Run, NEW v \in Run, Removes(p, v)
  PROVE  /\ pc[p] \in {"prune", "unlink"} /\ pc'[p] \in {"prune", "unlink"}
         /\ UNCHANGED <<draft, ledger, warned>>
         /\ dirs' \subseteq dirs /\ condemned'[p] \subseteq condemned[p]
         /\ \A x \in condemned[p] : x \in condemned'[p] \/ x \notin dirs'
         /\ \/ Still
            \/ Touch(v) /\ v \in victim[p] /\ UNCHANGED <<pc, victim>>
            \/ Rmdir(p, v)
<1> USE DEF TypeOK, Still, scratch, runner, pruner, history
<1>1. CASE Open(p, v)
  BY <1>1 DEF Open, Goto
<1>2. ASSUME NEW e \in Entry, Unlink(p, v, e)
      PROVE  /\ pc[p] = "unlink" /\ UNCHANGED <<pc, draft, ledger, warned, condemned, victim, dirs>>
             /\ Still \/ (Touch(v) /\ v \in victim[p])
  <2>1. CASE v \in dirs /\ e \in entries[v]
    <3>1. Touch(v) /\ v \in victim[p]
      BY <1>2, <2>1 DEF Unlink
    <3>2. dirs' = dirs
      BY <2>1, <3>1 DEF Touch
    <3> QED
      BY <1>2, <3>1, <3>2 DEF Unlink
  <2>2. CASE ~(v \in dirs /\ e \in entries[v])
    BY <1>2, <2>2 DEF Unlink
  <2> QED
    BY <2>1, <2>2
<1>3. CASE Rmdir(p, v)
  BY <1>3 DEF Rmdir, Goto
<1> QED
  BY <1>1, <1>2, <1>3 DEF Removes

\* Every step is of one of these kinds, and leaves the other runs' part alone.
LEMMA StepKinds ==
  ASSUME Inv, DraftInv, NEW p \in Run, Step(p)
  PROVE  /\ Elsewhere(p)
         /\ \/ Rests(p) \/ Works(p) \/ IsRefused(p) \/ Dies(p) \/ Warns(p)
            \/ Scan(p) \/ Sort(p) \/ PruneDone(p) \/ \E v \in Run : Removes(p, v)
<1> DEFINE Kind == \/ Rests(p) \/ Works(p) \/ IsRefused(p) \/ Dies(p) \/ Warns(p)
                   \/ Scan(p) \/ Sort(p) \/ PruneDone(p) \/ \E v \in Run : Removes(p, v)
<1> SUFFICES Elsewhere(p) /\ Kind
  OBVIOUS
<1>0. TypeOK /\ (pc[p] \notin Recording => ~BeforeWorktree(p))
  BY DEF Inv, DraftInv
<1> USE <1>0 DEF TypeOK, Elsewhere, Works, IsRefused, Owing, BeforeWorktree, Still, Touch, Goto,
                 scratch, runner, pruner, history,
                 Staging, Running, Collecting, Tracing, Recording, Pruning, Over
<1>1. ASSUME Invoke(p) PROVE Elsewhere(p) /\ (Works(p) \/ IsRefused(p))
  BY <1>1 DEF Invoke, RecordFailure, Failure
<1>2. ASSUME MakeWorktree(p) PROVE Elsewhere(p) /\ Works(p)
  BY <1>2 DEF MakeWorktree
<1>3. ASSUME StageSkill(p) PROVE Elsewhere(p) /\ Works(p)
  BY <1>3 DEF StageSkill, Add
<1>4. ASSUME StageConfig(p) PROVE Elsewhere(p) /\ Works(p)
  BY <1>4 DEF StageConfig, Add
<1>5. ASSUME Prepare(p) PROVE Elsewhere(p) /\ Works(p)
  BY <1>5 DEF Prepare
<1>6. ASSUME Spawn(p) PROVE Elsewhere(p) /\ Works(p)
  BY <1>6 DEF Spawn
<1>7. ASSUME SpawnFails(p) PROVE Elsewhere(p) /\ Works(p)
  BY <1>7 DEF SpawnFails, Failure
<1>8. ASSUME AgentExits(p) PROVE Elsewhere(p) /\ Works(p)
  BY <1>8 DEF AgentExits
<1>9. ASSUME OutputUndecodable(p) PROVE Elsewhere(p) /\ Works(p)
  BY <1>9 DEF OutputUndecodable
<1>10. ASSUME TimesOut(p) PROVE Elsewhere(p) /\ Works(p)
  BY <1>10 DEF TimesOut, Expires
<1>11. ASSUME WriteLog(p) PROVE Elsewhere(p) /\ Works(p)
  BY <1>11 DEF WriteLog
<1>12. ASSUME FindMissing(p) PROVE Elsewhere(p) /\ Works(p)
  BY <1>12 DEF FindMissing
<1>13. ASSUME FindStale(p) PROVE Elsewhere(p) /\ Works(p)
  BY <1>13 DEF FindStale
<1>14. ASSUME FindProduced(p) PROVE Elsewhere(p) /\ Works(p)
  BY <1>14 DEF FindProduced
<1>15. ASSUME RunnerRaises(p) PROVE Elsewhere(p) /\ Works(p)
  BY <1>15 DEF RunnerRaises
<1>16. ASSUME TraceDir(p) PROVE Elsewhere(p) /\ Works(p)
  BY <1>16 DEF TraceDir
<1>17. ASSUME WriteTrace(p) PROVE Elsewhere(p) /\ Works(p)
  BY <1>17 DEF WriteTrace, RecordFailure, Failure
<1>18. ASSUME StagingFails(p) PROVE Elsewhere(p) /\ Works(p)
  BY <1>18 DEF StagingFails, RecordFailure, Failure
<1>19. ASSUME TraceFails(p) PROVE Elsewhere(p) /\ Works(p)
  BY <1>19 DEF TraceFails, Leave, Forget, NoRecord
<1>20. ASSUME Interrupt(p) PROVE Elsewhere(p) /\ (Works(p) \/ IsRefused(p))
  BY <1>20 DEF Interrupt, Leave, Forget, NoRecord
<1>21. ASSUME RecordFails(p) PROVE Elsewhere(p) /\ (Works(p) \/ IsRefused(p))
  BY <1>21 DEF RecordFails, Leave, Forget, NoRecord
<1>22. ASSUME WriteRecord(p) PROVE Elsewhere(p) /\ (Works(p) \/ IsRefused(p))
  BY <1>22 DEF WriteRecord, WriteTemporary
<1>23. ASSUME ReplaceRecord(p) PROVE Elsewhere(p) /\ (Works(p) \/ IsRefused(p))
  BY <1>23 DEF ReplaceRecord, Leave, Forget, NoRecord
<1>24. ASSUME NEW f \in File, AgentWrites(p, f) \/ AgentDeletes(p, f) PROVE Elsewhere(p) /\ Rests(p)
  BY <1>24 DEF AgentWrites, AgentDeletes, Touched, Rests
<1>25. ASSUME Killed(p) PROVE Elsewhere(p) /\ Dies(p)
  BY <1>25 DEF Killed, StopPruning, Forget, NoRecord, Dies
<1>26. ASSUME PruneStops(p) PROVE Elsewhere(p) /\ Warns(p)
  BY <1>26 DEF PruneStops, Obstructed, StopPruning, Warns
<1>27. ASSUME Scan(p) PROVE Elsewhere(p) /\ Scan(p)
  BY <1>27 DEF Scan
<1>28. ASSUME Sort(p) PROVE Elsewhere(p) /\ Sort(p)
  BY <1>28 DEF Sort
<1>29. ASSUME PruneDone(p) PROVE Elsewhere(p) /\ PruneDone(p)
  BY <1>29 DEF PruneDone
<1>30. ASSUME NEW v \in Run, Removes(p, v) PROVE Elsewhere(p) /\ Removes(p, v)
  <2>1. ASSUME Open(p, v) PROVE Elsewhere(p)
    BY <2>1 DEF Open
  <2>2. ASSUME NEW e \in Entry, Unlink(p, v, e) PROVE Elsewhere(p)
    BY <2>2 DEF Unlink
  <2>3. ASSUME Rmdir(p, v) PROVE Elsewhere(p)
    BY <2>3 DEF Rmdir
  <2> QED
    BY <1>30, <2>1, <2>2, <2>3 DEF Removes
<1> QED
  BY <1>1, <1>2, <1>3, <1>4, <1>5, <1>6, <1>7, <1>8, <1>9, <1>10, <1>11, <1>12, <1>13, <1>14,
     <1>15, <1>16, <1>17, <1>18, <1>19, <1>20, <1>21, <1>22, <1>23, <1>24, <1>25, <1>26, <1>27,
     <1>28, <1>29, <1>30 DEF Step, Advance, Removes

\* Worktrees stay totally ordered by age.
LEMMA OrderStep ==
  ASSUME TypeOK, OrderInv, NEW p \in Run,
         \/ Still
         \/ Touch(p)
         \/ \E r, v \in Run : Rmdir(r, v)
  PROVE  OrderInv'
<1>1. CASE Still
  BY <1>1 DEF Still, OrderInv
<1>2. CASE Touch(p)
  BY <1>2 DEF Touch, OrderInv, StrictOrders, TypeOK
<1>3. ASSUME NEW r \in Run, NEW v \in Run, Rmdir(r, v) PROVE OrderInv'
  <2>1. \A x, y : <<x, y>> \in newer' <=> <<x, y>> \in newer /\ x # v /\ y # v
    BY <1>3 DEF Rmdir
  <2>2. newer' \subseteq newer /\ dirs' = dirs \ {v}
    BY <1>3 DEF Rmdir
  <2>3. newer' \in SUBSET (dirs' \X dirs')
    BY <1>3, <2>2 DEF Rmdir, OrderInv, StrictOrders
  <2> QED
    BY <2>1, <2>2, <2>3 DEF OrderInv, StrictOrders
<1> QED
  BY <1>1, <1>2, <1>3

\* A record that says preflight is of a run still to record it; leftovers stay dead.
LEMMA PlaceStep ==
  ASSUME Inv, PlaceInv, NEW p \in Run, Step(p)
  PROVE  PlaceInv'
<1>1. TypeOK /\ OrderInv /\ DraftInv /\ LeftoverInv /\ VictimInv
  BY DEF PlaceInv, Inv
<1>2. Elsewhere(p)
  BY <1>1, StepKinds
<1>3. /\ pc'[p] \in Recording \/ ~BeforeWorktree(p)'
      /\ pc[p] # "dead" \/ pc'[p] = "dead"
      /\ Still \/ (\E r \in Run : Touch(r)) \/ \E r, v \in Run : Rmdir(r, v)
  <2>1. CASE Rests(p)
    BY <1>1, <2>1 DEF Rests, Still, DraftInv, BeforeWorktree
  <2>2. CASE Works(p)
    BY <2>2 DEF Works, Owing, Over
  <2>3. CASE IsRefused(p)
    BY <2>3 DEF IsRefused, Recording
  <2>4. CASE Dies(p)
    BY <2>4 DEF Dies
  <2>5. CASE Warns(p)
    BY <1>1, <2>5 DEF Warns, Pruning, Recording, DraftInv, BeforeWorktree
  <2>6. CASE Scan(p) \/ Sort(p) \/ PruneDone(p)
    BY <1>1, <2>6 DEF Scan, Sort, PruneDone, Recording, DraftInv, BeforeWorktree, Still, runner,
       scratch
  <2>7. ASSUME NEW v \in Run, Removes(p, v)
        PROVE  /\ ~BeforeWorktree(p)' /\ pc[p] # "dead"
               /\ Still \/ Touch(v) \/ Rmdir(p, v)
    BY <1>1, <2>7, Removing DEF Recording, DraftInv, BeforeWorktree
  <2> QED
    BY <1>1, <2>1, <2>2, <2>3, <2>4, <2>5, <2>6, <2>7, StepKinds
<1>4. OrderInv'
  BY <1>1, <1>3, OrderStep
<1>5. DraftInv'
  BY <1>1, <1>2, <1>3 DEF DraftInv, Elsewhere, BeforeWorktree
<1>6. LeftoverInv'
  BY <1>1, <1>2, <1>3, RunAssumption DEF LeftoverInv, Elsewhere
<1>7. VictimInv'
  <2>1. \A r \in Run \ {p} : pc'[r] = pc[r] /\ victim'[r] = victim[r]
    BY <1>2 DEF Elsewhere
  <2>2. /\ victim'[p] # {} => pc'[p] \in {"unlink"} \cup Over /\ p \notin Leftover
        /\ pc'[p] = "unlink" => victim'[p] # {}
        /\ \A a, b \in victim'[p] : a = b
    <3> USE <1>1 DEF VictimInv
    <3>1. CASE Rests(p)
      BY <3>1 DEF Rests
    <3>2. CASE Works(p)
      BY <3>2 DEF Works, Owing, Pruning, Over, Staging, Running, Collecting, Tracing, Recording
    <3>3. CASE IsRefused(p)
      BY <3>3 DEF IsRefused, Over, Recording
    <3>4. CASE Dies(p) \/ Warns(p)
      BY <3>4 DEF Dies, Warns, Over
    <3>5. CASE Scan(p) \/ Sort(p) \/ PruneDone(p)
      BY <1>1, <3>5 DEF Scan, Sort, PruneDone, Goto, Over, TypeOK, pruner
    <3>6. ASSUME NEW v \in Run, Open(p, v)
          PROVE  pc'[p] = "unlink" /\ victim'[p] = {v} /\ p \notin Leftover
      BY <1>1, <3>6 DEF Open, Goto, TypeOK, LeftoverInv
    <3>7. ASSUME NEW v \in Run, NEW e \in Entry, Unlink(p, v, e) PROVE UNCHANGED <<pc, victim>>
      BY <3>7 DEF Unlink
    <3>8. ASSUME NEW v \in Run, Rmdir(p, v) PROVE pc'[p] = "prune" /\ victim'[p] = {}
      BY <1>1, <3>8 DEF Rmdir, Goto, TypeOK
    <3> QED
      BY <1>1, <3>1, <3>2, <3>3, <3>4, <3>5, <3>6, <3>7, <3>8, StepKinds DEF Removes
  <2> QED
    BY <1>1, <2>1, <2>2 DEF VictimInv
<1> QED
  BY <1>4, <1>5, <1>6, <1>7 DEF PlaceInv

\* Of worktrees in a total order, no more than KeepLast have fewer than that before them.
LEMMA KeptBound ==
  ASSUME OrderInv, NEW S \in SUBSET dirs, IsFiniteSet(S)
  PROVE  Cardinality(S \ Excess(S)) <= KeepLast
<1> DEFINE rank == [q \in S \ Excess(S) |-> Cardinality(Newer(q, S))]
<1>1. ASSUME NEW q \in S \ Excess(S)
      PROVE  rank[q] \in 0..KeepLast - 1
  <2>1. IsFiniteSet(Newer(q, S))
    BY FS_Subset DEF Newer
  <2>2. Cardinality(Newer(q, S)) \in Nat /\ ~(Cardinality(Newer(q, S)) >= KeepLast)
    BY <2>1, FS_CardinalityType DEF Excess
  <2> QED
    BY <2>2, KeepLastAssumption
<1>2. ASSUME NEW p \in S, NEW q \in S, <<p, q>> \in newer
      PROVE  Cardinality(Newer(p, S)) # Cardinality(Newer(q, S))
  <2>1. Newer(p, S) \subseteq Newer(q, S)
    BY <1>2 DEF Newer, OrderInv, StrictOrders
  <2>2. p \in Newer(q, S) /\ p \notin Newer(p, S)
    BY <1>2 DEF Newer, OrderInv, StrictOrders
  <2>3. IsFiniteSet(Newer(q, S))
    BY FS_Subset DEF Newer
  <2> QED
    BY <2>1, <2>2, <2>3, FS_Subset
<1>3. ASSUME NEW p \in S \ Excess(S), NEW q \in S \ Excess(S), rank[p] = rank[q]
      PROVE  p = q
  <2>1. Cardinality(Newer(p, S)) = Cardinality(Newer(q, S))
    BY <1>3
  <2>2. <<p, q>> \notin newer /\ <<q, p>> \notin newer
    BY <1>2, <2>1
  <2> QED
    BY <2>2 DEF OrderInv, StrictOrders
<1>4. rank \in Injection(S \ Excess(S), 0..KeepLast - 1)
  BY <1>1, <1>3 DEF Injection, IsInjective
<1>5. Cardinality(S \ Excess(S)) <= Cardinality(0..KeepLast - 1)
  BY <1>4, FS_Injection, FS_Interval, KeepLastAssumption
<1>6. Cardinality(0..KeepLast - 1) = KeepLast
  BY FS_Interval, KeepLastAssumption
<1> QED
  BY <1>5, <1>6

\* A worktree less undoes nothing that is pending.
LEMMA FewerAreKept ==
  ASSUME TypeOK, NEW s \in Run, Siblings(s)' \subseteq Siblings(s)
  PROVE  /\ Few(s) => Few(s)'
         /\ \A r \in Run :
              pc'[r] = pc[r] /\ condemned'[r] = condemned[r] /\ Cutting(r, s) => Cutting(r, s)'
<1>1. ASSUME NEW C
      PROVE  /\ Cardinality(Siblings(s)' \ C) \in Nat /\ Cardinality(Siblings(s) \ C) \in Nat
             /\ Cardinality(Siblings(s)' \ C) <= Cardinality(Siblings(s) \ C)
  <2>1. IsFiniteSet(Siblings(s) \ C)
    BY RunAssumption, FS_Subset DEF TypeOK, Siblings
  <2> QED
    BY <2>1, FS_Subset, FS_CardinalityType
<1>2. Few(s) => Few(s)'
  <2>1. Siblings(s) \ {} = Siblings(s) /\ Siblings(s)' \ {} = Siblings(s)'
    OBVIOUS
  <2>2. /\ Cardinality(Siblings(s)') \in Nat /\ Cardinality(Siblings(s)) \in Nat
        /\ Cardinality(Siblings(s)') <= Cardinality(Siblings(s))
    BY <1>1, <2>1
  <2> QED
    BY <2>2, KeepLastAssumption DEF Few
<1>3. ASSUME NEW r \in Run, pc'[r] = pc[r], condemned'[r] = condemned[r], Cutting(r, s)
      PROVE  Cutting(r, s)'
  <2>1. /\ Cardinality(Siblings(s)' \ condemned[r]) \in Nat
        /\ Cardinality(Siblings(s) \ condemned[r]) \in Nat
        /\ Cardinality(Siblings(s)' \ condemned[r]) <= Cardinality(Siblings(s) \ condemned[r])
    BY <1>1
  <2>2. Cardinality(Siblings(s)' \ condemned[r]) <= KeepLast
    BY <1>3, <2>1, KeepLastAssumption DEF Cutting
  <2> QED
    BY <1>3, <2>2 DEF Cutting
<1> QED
  BY <1>2, <1>3

\* What the loop waits for stays with the run that does it, and passes on as it moves.
LEMMA PendingKept ==
  ASSUME TypeOK, NEW p \in Run, Elsewhere(p), NEW s \in Run, Pending(s),
         Siblings(s)' \subseteq Siblings(s),
         p \in Fellow(s) /\ Counts(p, s) => Counts(p, s)' \/ Few(s)',
         p \in Fellow(s) /\ Refused(p) => Refused(p)'
  PROVE  Pending(s)'
<1>1. Fellow(s)' = Fellow(s) /\ Fellow(s) \subseteq Run
  BY DEF Fellow
<1>2. CASE Few(s)
  BY <1>2, FewerAreKept DEF Pending
<1>3. ASSUME NEW r \in Fellow(s), Counts(r, s) PROVE Pending(s)'
  <2>1. CASE r = p
    <3>1. p \in Fellow(s) /\ Counts(p, s)
      BY <1>3, <2>1
    <3>2. Counts(p, s)' \/ Few(s)'
      BY <3>1
    <3> QED
      BY <1>1, <3>1, <3>2 DEF Pending
  <2>2. CASE r # p
    <3>1. r \in Run \ {p}
      BY <1>1, <2>2
    <3>2. Lost(r) => Lost(r)'
      BY <3>1 DEF Lost, Elsewhere
    <3>3. Owing(r) => Owing(r)'
      BY <3>1 DEF Owing, Elsewhere, BeforeWorktree
    <3>4. Listing(r, s) => Listing(r, s)'
      BY <3>1 DEF Listing, Elsewhere
    <3>5. Cutting(r, s) => Cutting(r, s)'
      BY <3>1, FewerAreKept DEF Elsewhere
    <3>6. Counts(r, s)'
      BY <1>3, <3>2, <3>3, <3>4, <3>5 DEF Counts
    <3> QED
      BY <1>1, <3>6 DEF Pending
  <2> QED
    BY <2>1, <2>2
<1>4. ASSUME \A r \in Fellow(s) : Refused(r) PROVE Pending(s)'
  <2>1. ASSUME NEW r \in Fellow(s) PROVE Refused(r)'
    <3>1. CASE r = p
      <4>1. p \in Fellow(s) /\ Refused(p)
        BY <1>4, <3>1
      <4>2. Refused(p)'
        BY <4>1
      <4> QED
        BY <3>1, <4>2
    <3>2. CASE r # p
      BY <1>1, <1>4, <3>2 DEF Elsewhere, Refused, Recorded
    <3> QED
      BY <3>1, <3>2
  <2> QED
    BY <1>1, <2>1 DEF Pending
<1> QED
  BY <1>2, <1>3, <1>4 DEF Pending

\* Too many worktrees of a loop keep a run of it at work, from its start to its last removal.
LEMMA PendingStep ==
  ASSUME Inv, PlaceInv, NEW p \in Run, Step(p), NEW s \in Run, Pending(s)
  PROVE  Pending(s)'
<1>0. TypeOK /\ OrderInv /\ DraftInv /\ LeftoverInv
  BY DEF PlaceInv, Inv
<1>1. Elsewhere(p)
  BY <1>0, StepKinds
<1>2. Fellow(s)' = Fellow(s)
  BY DEF Fellow
<1>3. Still => Siblings(s)' = Siblings(s)
  BY DEF Still, Siblings
<1>4. CASE Rests(p)
  <2>1. Counts(p, s) => Counts(p, s)'
    BY <1>3, <1>4 DEF Rests, Counts, Lost, Owing, Listing, Cutting, BeforeWorktree
  <2>2. Refused(p) => Refused(p)'
    BY <1>4 DEF Rests, Refused, Recorded
  <2> QED
    BY <1>0, <1>1, <1>3, <1>4, <2>1, <2>2, PendingKept DEF Rests
<1>5. CASE Works(p)
  <2>1. CASE LoopOf[p] = LoopOf[s]
    <3>1. p \in Fellow(s)
      BY <1>0, <1>5, <2>1 DEF Works, Fellow, LeftoverInv, Over
    <3> QED
      BY <1>2, <1>5, <3>1 DEF Works, Counts, Pending
  <2>2. CASE LoopOf[p] # LoopOf[s]
    <3>1. p \notin Fellow(s)
      BY <2>2 DEF Fellow
    <3>2. Siblings(s)' \subseteq Siblings(s)
      BY <1>3, <1>5, <2>2 DEF Works, Touch, Siblings
    <3> QED
      BY <1>0, <1>1, <3>1, <3>2, PendingKept
  <2> QED
    BY <2>1, <2>2
<1>6. CASE IsRefused(p)
  <2>1. Counts(p, s) => Counts(p, s)'
    BY <1>6 DEF IsRefused, Counts, Lost, Listing, Cutting, Recording
  <2>2. Refused(p) => Refused(p)'
    BY <1>6 DEF IsRefused, Refused, Recorded
  <2> QED
    BY <1>0, <1>1, <1>3, <1>6, <2>1, <2>2, PendingKept DEF IsRefused
<1>7. CASE Dies(p) \/ Warns(p)
  <2>1. Counts(p, s)'
    BY <1>7 DEF Dies, Warns, Counts, Lost
  <2>2. Refused(p) => p \notin Fellow(s) \/ pc[p] \in Recording
    BY <1>7 DEF Dies, Warns, Refused, Over, Pruning, Recording
  <2>3. CASE p \in Fellow(s)
    BY <1>2, <2>1, <2>3 DEF Pending
  <2>4. CASE p \notin Fellow(s)
    BY <1>0, <1>1, <1>3, <1>7, <2>4, PendingKept DEF Dies, Warns
  <2> QED
    BY <2>3, <2>4
<1>8. CASE Scan(p)
  <2>1. Still
    BY <1>8 DEF Scan, Still, scratch
  <2>2. CASE p \in Fellow(s)
    <3>1. Listing(p, s)'
      <4>1. pc'[p] = "sort" /\ listed'[p] = Siblings(p)
        BY <1>0, <1>8 DEF Scan, Goto, TypeOK
      <4>2. Siblings(p) = Siblings(s)
        BY <2>2 DEF Siblings, Fellow
      <4> QED
        BY <1>3, <2>1, <4>1, <4>2 DEF Listing
    <3> QED
      BY <1>2, <2>2, <3>1 DEF Pending, Counts
  <2>3. CASE p \notin Fellow(s)
    BY <1>0, <1>1, <1>3, <2>1, <2>3, PendingKept
  <2> QED
    BY <2>2, <2>3
<1>9. CASE Sort(p)
  <2>1. Still /\ pc[p] = "sort" /\ UNCHANGED warned
    BY <1>9 DEF Sort, Still, scratch
  <2>2. ~Refused(p)
    BY <2>1 DEF Refused, Recording
  <2>3. ASSUME Listing(p, s) PROVE Cutting(p, s)'
    <3>1. pc'[p] = "prune" /\ condemned'[p] = Excess(listed[p]) /\ listed[p] \subseteq dirs
      BY <1>0, <1>9 DEF Sort, Goto, TypeOK
    <3>2. IsFiniteSet(listed[p])
      BY <1>0, RunAssumption, FS_Subset DEF TypeOK
    <3>3. Cardinality(listed[p] \ Excess(listed[p])) <= KeepLast
      BY <1>0, <3>1, <3>2, KeptBound
    <3>4. Siblings(s)' \ condemned'[p] \subseteq listed[p] \ Excess(listed[p])
      BY <1>3, <2>1, <2>3, <3>1 DEF Listing
    <3>5. IsFiniteSet(listed[p] \ Excess(listed[p]))
      BY <3>2, FS_Subset
    <3>6. /\ Cardinality(Siblings(s)' \ condemned'[p]) <= Cardinality(listed[p] \ Excess(listed[p]))
          /\ Cardinality(Siblings(s)' \ condemned'[p]) \in Nat
          /\ Cardinality(listed[p] \ Excess(listed[p])) \in Nat
      BY <3>4, <3>5, FS_Subset, FS_CardinalityType
    <3>7. Cardinality(Siblings(s)' \ condemned'[p]) <= KeepLast
      BY <3>3, <3>6, KeepLastAssumption
    <3> QED
      BY <3>1, <3>7 DEF Cutting
  <2>4. Counts(p, s) => Counts(p, s)'
    BY <2>1, <2>3 DEF Counts, Lost, Owing, Cutting, Staging, Running, Collecting, Tracing,
       Recording
  <2> QED
    BY <1>0, <1>1, <1>3, <2>1, <2>2, <2>4, PendingKept
<1>10. CASE PruneDone(p)
  <2>1. Still /\ pc[p] = "prune" /\ UNCHANGED warned /\ condemned[p] = {}
    BY <1>10 DEF PruneDone, Still, scratch, pruner
  <2>2. ~Refused(p)
    BY <2>1 DEF Refused, Recording
  <2>3. Cutting(p, s) => Few(s)'
    BY <1>3, <2>1 DEF Cutting, Few
  <2>4. Counts(p, s) => Counts(p, s)' \/ Few(s)'
    BY <2>1, <2>3 DEF Counts, Lost, Owing, Listing, Staging, Running, Collecting, Tracing,
       Recording
  <2> QED
    BY <1>0, <1>1, <1>3, <2>1, <2>2, <2>4, PendingKept
<1>11. ASSUME NEW v \in Run, Removes(p, v) PROVE Pending(s)'
  <2>1. /\ pc[p] \in {"prune", "unlink"} /\ pc'[p] \in {"prune", "unlink"} /\ UNCHANGED warned
        /\ dirs' \subseteq dirs /\ \A x \in condemned[p] : x \in condemned'[p] \/ x \notin dirs'
    BY <1>0, <1>11, Removing
  <2>2. ~Refused(p)
    BY <2>1 DEF Refused, Recording
  <2>3. Siblings(s)' \subseteq Siblings(s) /\ Siblings(s)' \subseteq dirs'
    BY <2>1 DEF Siblings
  <2>4. ASSUME Cutting(p, s) PROVE Cutting(p, s)'
    <3>1. Siblings(s)' \ condemned'[p] \subseteq Siblings(s) \ condemned[p]
      BY <2>1, <2>3
    <3>2. IsFiniteSet(Siblings(s) \ condemned[p])
      BY <1>0, RunAssumption, FS_Subset DEF TypeOK, Siblings
    <3>3. /\ Cardinality(Siblings(s)' \ condemned'[p]) <= Cardinality(Siblings(s) \ condemned[p])
          /\ Cardinality(Siblings(s)' \ condemned'[p]) \in Nat
          /\ Cardinality(Siblings(s) \ condemned[p]) \in Nat
      BY <3>1, <3>2, FS_Subset, FS_CardinalityType
    <3>4. Cardinality(Siblings(s)' \ condemned'[p]) <= KeepLast
      BY <2>4, <3>3, KeepLastAssumption DEF Cutting
    <3> QED
      BY <2>1, <2>4, <3>4 DEF Cutting
  <2>5. Counts(p, s) => Counts(p, s)'
    BY <2>1, <2>4 DEF Counts, Lost, Owing, Listing, Staging, Running, Collecting, Tracing,
       Recording
  <2> QED
    BY <1>0, <1>1, <2>2, <2>3, <2>5, PendingKept
<1> QED
  BY <1>0, <1>4, <1>5, <1>6, <1>7, <1>8, <1>9, <1>10, <1>11, StepKinds

LEMMA InitRetention == Init => RetentionInv
<1> SUFFICES ASSUME Init PROVE RetentionInv
  OBVIOUS
<1>1. PlaceInv
  <2>1. OrderInv
    BY DEF Init, OrderInv
  <2>2. DraftInv
    BY DEF Init, DraftInv, BeforeWorktree, Always, NoRecord
  <2>3. LeftoverInv
    BY RunAssumption DEF Init, LeftoverInv
  <2>4. VictimInv
    BY DEF Init, VictimInv, Always
  <2> QED
    BY <2>1, <2>2, <2>3, <2>4 DEF PlaceInv
<1>2. ASSUME NEW s \in Run PROVE Pending(s)
  <2>1. \A r \in Fellow(s) : Refused(r)
    BY DEF Init, Fellow, Refused, Recorded, Always, NoRecord, Record
  <2> QED
    BY <2>1 DEF Pending
<1> QED
  BY <1>1, <1>2, InitInv DEF RetentionInv

LEMMA StepRetention == RetentionInv /\ [Next]_vars => RetentionInv'
<1> SUFFICES ASSUME RetentionInv, [Next]_vars PROVE RetentionInv'
  OBVIOUS
<1>1. Inv'
  BY StepInv DEF RetentionInv
<1>2. CASE Next
  <2>1. PICK p \in Run : Step(p)
    BY <1>2 DEF Next
  <2> QED
    BY <1>1, <2>1, PlaceStep, PendingStep DEF RetentionInv
<1>3. CASE UNCHANGED vars
  <2>1. PlaceInv'
    BY <1>3 DEF vars, scratch, runner, pruner, RetentionInv, PlaceInv, OrderInv, DraftInv, LeftoverInv,
                VictimInv, BeforeWorktree
  <2>2. ASSUME NEW s \in Run PROVE Pending(s)'
    BY <1>3 DEF vars, scratch, runner, pruner, RetentionInv, Pending, Few, Fellow, Counts, Lost,
                Owing, Listing, Cutting, Siblings, Refused, Recorded, BeforeWorktree
  <2> QED
    BY <1>1, <2>1, <2>2 DEF RetentionInv
<1> QED
  BY <1>2, <1>3

\* However the prunings of a loop interleave, once its runs are over, none was killed and no
\* pruning gave up, no more than KeepLast of its worktrees are left.
THEOREM RetentionSafe == Spec => []RetentionHolds
<1>1. RetentionInv => RetentionHolds
  <2> SUFFICES ASSUME RetentionInv, NEW s \in Run,
                      pc[s] = "done", Recorded(s), ledger[s].phase # "preflight",
                      \A r \in Run \ Leftover : LoopOf[r] = LoopOf[s] =>
                        pc[r] \in {"idle", "done"} /\ r \notin warned
               PROVE  Cardinality({r \in Run : LoopOf[r] = LoopOf[s]} \cap dirs) <= KeepLast
    BY DEF RetentionHolds
  <2>1. \A r \in Fellow(s) : pc[r] \in {"idle", "done"} /\ r \notin warned
    BY DEF Fellow
  <2>2. \A r \in Fellow(s) : ~Counts(r, s)
    BY <2>1 DEF Counts, Lost, Owing, Listing, Cutting, Staging, Running, Collecting, Tracing,
       Recording
  <2>3. s \in Fellow(s) /\ ~Refused(s)
    BY DEF RetentionInv, PlaceInv, LeftoverInv, Fellow, Refused
  <2>4. Few(s)
    BY <2>2, <2>3 DEF RetentionInv, Pending
  <2>5. Siblings(s) = {r \in Run : LoopOf[r] = LoopOf[s]} \cap dirs
    BY DEF Siblings, RetentionInv, Inv, TypeOK
  <2> QED
    BY <2>4, <2>5 DEF Few
<1> QED
  BY <1>1, InitRetention, StepRetention, PTL DEF Spec

-----------------------------------------------------------------------------
(***************************************************************************)
(* A worktree that is taken apart becomes the newest of its loop, so a     *)
(* pruning that sorts then keeps it and cuts another in its place.  Each   *)
(* run leaves at most one like that.  Where KeepLast has room for them and *)
(* for the runs of the loop, pruning meets only leftovers and runs that    *)
(* came to prune themselves: no other loses its bundle, and with no fault  *)
(* none its record.                                                        *)
(***************************************************************************)
Room == \A s \in Run : 2 * Cardinality(Fellow(s)) <= KeepLast + 2

\* The run needs its worktree no more.
Retired(q) == q \in Leftover \/ pc[q] \in Pruning \cup Over

\* A leftover younger than a run of this specification is one that some run took apart.
AgeInv ==
  \A a, b \in Run :
    <<a, b>> \in newer /\ a \in Leftover /\ b \notin Leftover => \E p \in Run : a \in victim[p]
SpareInv ==
  \A r \in Run : \A q \in condemned[r] \cup victim[r] : Retired(q) /\ LoopOf[q] = LoopOf[r]
ListedInv == \A r \in Run : \A p \in listed[r] : LoopOf[p] = LoopOf[r]

\* What a run stages before it spawns its agent is there while the agent runs.
HoldsInv(q) ==
  /\ pc[q] \in (Staging \ {"mkdir"}) \cup Running \cup Tracing => q \in dirs
  /\ pc[q] = "stageConfig" => "skill" \in entries[q]
  /\ pc[q] \in {"prepare", "spawn", "running"} => Bundle \subseteq entries[q]
  /\ agent[q] = "running" => pc[q] = "running"
HistoryInv(q) == pc[q] \in Pruning \cup {"done"} => Recorded(q) \/ how[q] = "interrupted"

RoomInv == /\ Inv /\ PlaceInv /\ AgeInv /\ ListedInv /\ SpareInv
           /\ \A q \in Run : HoldsInv(q) /\ (~Faults => HistoryInv(q))

\* The half removed leftovers of a loop are fewer than its runs by the one that sorts and any
\* other that is not yet to prune.
LEMMA FewHalfRemoved ==
  ASSUME VictimInv, SpareInv, NEW q \in Run, ~Retired(q), NEW r \in Fellow(q), pc[r] = "sort",
         NEW B \in SUBSET Run, \A b \in B : LoopOf[b] = LoopOf[q] /\ \E p \in Run : b \in victim[p]
  PROVE  /\ IsFiniteSet(B) /\ Cardinality(B) \in Nat
         /\ Cardinality(B) <= Cardinality(Fellow(q)) - 2
<1> DEFINE T == (Fellow(q) \ {q}) \ {r}
           of == [b \in B |-> CHOOSE p \in Run : b \in victim[p]]
<1>1. IsFiniteSet(B) /\ IsFiniteSet(Fellow(q)) /\ IsFiniteSet(Fellow(q) \ {q}) /\ IsFiniteSet(T)
  BY RunAssumption, FS_Subset DEF Fellow
<1>2. ASSUME NEW b \in B PROVE of[b] \in Run /\ b \in victim[of[b]]
  <2>1. \E p \in Run : b \in victim[p]
    OBVIOUS
  <2> QED
    BY <2>1
<1>3. ASSUME NEW b \in B PROVE of[b] \in T
  <2> DEFINE p == of[b]
  <2>1. p \in Run /\ b \in victim[p]
    BY <1>2
  <2> HIDE DEF p
  <2>2. pc[p] \in {"unlink"} \cup Over /\ p \notin Leftover
    BY <2>1 DEF VictimInv
  <2>3. LoopOf[p] = LoopOf[q]
    BY <2>1 DEF SpareInv
  <2>4. p # q /\ p # r
    BY <2>2 DEF Retired, Pruning, Over
  <2>5. p \in T
    BY <2>1, <2>2, <2>3, <2>4 DEF Fellow
  <2> QED
    BY <2>5 DEF p
<1>4. ASSUME NEW b \in B, NEW c \in B, of[b] = of[c] PROVE b = c
  <2>1. of[b] \in Run /\ b \in victim[of[b]] /\ c \in victim[of[b]]
    BY <1>2, <1>4
  <2> HIDE DEF of
  <2> QED
    BY <2>1 DEF VictimInv
<1>5. of \in Injection(B, T)
  <2>1. of \in [B -> T]
    BY <1>3
  <2> QED
    BY <1>4, <2>1 DEF Injection, IsInjective
<1>6. Cardinality(B) <= Cardinality(T)
  <2> HIDE DEF of, T
  <2> QED
    BY <1>1, <1>5, FS_Injection
<1>7. q \in Fellow(q) /\ r \in Fellow(q) \ {q}
  BY DEF Fellow, Retired, Pruning, Over
<1>8. /\ Cardinality(Fellow(q) \ {q}) = Cardinality(Fellow(q)) - 1
      /\ Cardinality(T) = Cardinality(Fellow(q) \ {q}) - 1
  BY <1>1, <1>7, FS_RemoveElement, Zenon
<1>9. Cardinality(B) \in Nat /\ Cardinality(Fellow(q)) \in Nat
  BY <1>1, FS_CardinalityType
<1> HIDE DEF T
<1> QED
  BY <1>1, <1>6, <1>8, <1>9

\* A run that is not yet to prune is never among those cut.
LEMMA NeverInExcess ==
  ASSUME Room, TypeOK, OrderInv, LeftoverInv, VictimInv, AgeInv, SpareInv, ListedInv,
         NEW q \in Run, ~Retired(q), NEW r \in Run, pc[r] = "sort",
         listed[r] \subseteq dirs, q \in listed[r]
  PROVE  q \notin Excess(listed[r])
<1> DEFINE A == Fellow(q) \ {q}
           B == {b \in Leftover : LoopOf[b] = LoopOf[q] /\ \E p \in Run : b \in victim[p]}
           N == Newer(q, listed[r])
<1>1. /\ r \in Fellow(q) /\ q \in Fellow(q) /\ q \notin Leftover
      /\ \A p \in listed[r] : p \in Run /\ LoopOf[p] = LoopOf[q]
  BY DEF LeftoverInv, ListedInv, Fellow, Retired, TypeOK
<1>2. /\ IsFiniteSet(B) /\ Cardinality(B) \in Nat
      /\ Cardinality(B) <= Cardinality(Fellow(q)) - 2
  <2>1. B \in SUBSET Run /\ \A b \in B : LoopOf[b] = LoopOf[q] /\ \E p \in Run : b \in victim[p]
    BY RunAssumption
  <2> HIDE DEF B
  <2> QED
    BY <1>1, <2>1, FewHalfRemoved
<1>3. N \subseteq A \cup B
  <2> SUFFICES ASSUME NEW p \in N PROVE p \in A \cup B
    OBVIOUS
  <2>1. p \in Run /\ LoopOf[p] = LoopOf[q] /\ <<p, q>> \in newer
    BY <1>1 DEF Newer
  <2>2. p # q
    BY <2>1 DEF OrderInv, StrictOrders, TypeOK
  <2>3. CASE p \in Leftover
    <3>1. \E o \in Run : p \in victim[o]
      BY <1>1, <2>1, <2>3 DEF AgeInv
    <3> QED
      BY <2>1, <2>3, <3>1
  <2>4. CASE p \notin Leftover
    BY <2>1, <2>2, <2>4 DEF Fellow
  <2> QED
    BY <2>3, <2>4
<1>4. IsFiniteSet(Fellow(q))
  BY RunAssumption, FS_Subset DEF Fellow
<1>5. IsFiniteSet(A) /\ Cardinality(A) = Cardinality(Fellow(q)) - 1
  BY <1>1, <1>4, FS_RemoveElement, Zenon
<1>6. /\ Cardinality(Fellow(q)) \in Nat /\ Cardinality(A) \in Nat
      /\ Cardinality(A \cap B) \in Nat /\ IsFiniteSet(A \cup B) /\ Cardinality(A \cup B) \in Nat
      /\ Cardinality(A \cup B) = Cardinality(A) + Cardinality(B) - Cardinality(A \cap B)
  <2> HIDE DEF A, B
  <2>1. IsFiniteSet(A \cap B) /\ IsFiniteSet(A \cup B)
    BY <1>2, <1>5, FS_Subset, FS_Union
  <2> QED
    BY <1>2, <1>4, <1>5, <2>1, FS_Union, FS_CardinalityType
<1>7. Cardinality(N) <= Cardinality(A \cup B) /\ Cardinality(N) \in Nat
  <2> HIDE DEF A, B, N
  <2> QED
    BY <1>3, <1>6, FS_Subset, FS_CardinalityType
<1>8. 2 * Cardinality(Fellow(q)) <= KeepLast + 2
  BY DEF Room
<1>9. ~(Cardinality(N) >= KeepLast)
  <2> HIDE DEF A, B, N
  <2> QED
    BY <1>2, <1>5, <1>6, <1>7, <1>8, KeepLastAssumption
<1> QED
  BY <1>9 DEF Excess

\* Only the sort condemns, and what it lists is of its loop.
LEMMA Condemns ==
  ASSUME TypeOK, ListedInv, NEW r \in Run, Step(r)
  PROVE  /\ condemned'[r] \subseteq condemned[r] \/ Sort(r)
         /\ \A p \in listed'[r] : LoopOf[p] = LoopOf[r]
<1> DEFINE NoMore == condemned'[r] \subseteq condemned[r] /\ listed'[r] \subseteq listed[r]
<1> USE DEF TypeOK, runner, scratch, pruner, history
<1>1. ASSUME Invoke(r) PROVE NoMore
  BY <1>1 DEF Invoke, Goto, RecordFailure, Failure
<1>2. ASSUME MakeWorktree(r) PROVE NoMore
  BY <1>2 DEF MakeWorktree, Goto, Touch
<1>3. ASSUME StageSkill(r) PROVE NoMore
  BY <1>3 DEF StageSkill, Goto, Touch, Add
<1>4. ASSUME StageConfig(r) PROVE NoMore
  BY <1>4 DEF StageConfig, Goto, Touch, Add
<1>5. ASSUME StagingFails(r) PROVE NoMore
  BY <1>5 DEF StagingFails, Goto, RecordFailure, Failure
<1>6. ASSUME Prepare(r) PROVE NoMore
  BY <1>6 DEF Prepare, Goto, Touch
<1>7. ASSUME Spawn(r) PROVE NoMore
  BY <1>7 DEF Spawn, Goto
<1>8. ASSUME SpawnFails(r) PROVE NoMore
  BY <1>8 DEF SpawnFails, Goto, Failure
<1>9. ASSUME AgentExits(r) PROVE NoMore
  BY <1>9 DEF AgentExits, Goto
<1>10. ASSUME OutputUndecodable(r) PROVE NoMore
  BY <1>10 DEF OutputUndecodable, Goto
<1>11. ASSUME TimesOut(r) PROVE NoMore
  BY <1>11 DEF TimesOut, Goto, Expires
<1>12. ASSUME WriteLog(r) PROVE NoMore
  BY <1>12 DEF WriteLog, Goto, Touch
<1>13. ASSUME FindMissing(r) PROVE NoMore
  BY <1>13 DEF FindMissing, Goto
<1>14. ASSUME FindStale(r) PROVE NoMore
  BY <1>14 DEF FindStale, Goto
<1>15. ASSUME FindProduced(r) PROVE NoMore
  BY <1>15 DEF FindProduced, Goto
<1>16. ASSUME RunnerRaises(r) PROVE NoMore
  BY <1>16 DEF RunnerRaises, Goto
<1>17. ASSUME TraceDir(r) PROVE NoMore
  BY <1>17 DEF TraceDir, Goto, Touch
<1>18. ASSUME WriteTrace(r) PROVE NoMore
  BY <1>18 DEF WriteTrace, Goto, Touch, RecordFailure, Failure
<1>19. ASSUME TraceFails(r) PROVE NoMore
  BY <1>19 DEF TraceFails, Goto, Leave
<1>20. ASSUME Interrupt(r) PROVE NoMore
  BY <1>20 DEF Interrupt, Goto, Leave, Survivor
<1>21. ASSUME WriteRecord(r) PROVE NoMore
  BY <1>21 DEF WriteRecord, Goto, WriteTemporary
<1>22. ASSUME ReplaceRecord(r) PROVE NoMore
  BY <1>22 DEF ReplaceRecord, Goto, Leave
<1>23. ASSUME RecordFails(r) PROVE NoMore
  BY <1>23 DEF RecordFails, Goto, Leave
<1>24. ASSUME Scan(r) PROVE condemned'[r] = condemned[r] /\ listed'[r] = Siblings(r)
  BY <1>24 DEF Scan, Goto
<1>25. ASSUME Sort(r) PROVE listed'[r] = {}
  BY <1>25 DEF Sort, Goto
<1>26. ASSUME PruneStops(r) PROVE NoMore
  BY <1>26 DEF PruneStops, Obstructed, Goto, StopPruning
<1>27. ASSUME PruneDone(r) PROVE NoMore
  BY <1>27 DEF PruneDone, Goto
<1>28. ASSUME Killed(r) PROVE NoMore
  BY <1>28 DEF Killed, Goto, StopPruning, Forget, Survivor
<1>29. ASSUME NEW f \in File, AgentWrites(r, f) \/ AgentDeletes(r, f) PROVE NoMore
  BY <1>29 DEF AgentWrites, AgentDeletes, Touched
<1>30. ASSUME NEW v \in Run, Removes(r, v) PROVE NoMore
  BY <1>30 DEF Removes, Open, Unlink, Rmdir
<1> QED BY <1>1, <1>2, <1>3, <1>4, <1>5, <1>6, <1>7, <1>8, <1>9, <1>10, <1>11, <1>12, <1>13,
  <1>14, <1>15, <1>16, <1>17, <1>18, <1>19, <1>20, <1>21, <1>22, <1>23, <1>24, <1>25, <1>26,
  <1>27, <1>28, <1>29, <1>30 DEF Step, Advance, Removes, Siblings, ListedInv

\* Nothing starts to take a worktree apart that was not condemned.
LEMMA VictimsAreCondemned ==
  ASSUME Inv, DraftInv, NEW r \in Run, Step(r)
  PROVE  victim'[r] \subseteq victim[r] \cup condemned[r]
<1>1. TypeOK
  BY DEF Inv
<1>2. CASE \/ Rests(r) \/ Works(r) \/ IsRefused(r) \/ Dies(r) \/ Warns(r)
           \/ Scan(r) \/ Sort(r) \/ PruneDone(r)
  BY <1>2 DEF Rests, Works, IsRefused, Dies, Warns, Scan, Sort, PruneDone, pruner
<1>3. ASSUME NEW v \in Run, Removes(r, v) PROVE victim'[r] \subseteq victim[r] \cup condemned[r]
  BY <1>1, <1>3 DEF Removes, Open, Newest, Unlink, Rmdir, TypeOK
<1> QED
  BY <1>2, <1>3, StepKinds

\* Who needs its worktree no more never will.
LEMMA RetiredStays ==
  ASSUME Inv, DraftInv, NEW r \in Run, Step(r), NEW q \in Run, Retired(q)
  PROVE  Retired(q)'
<1> USE DEF Retired, Pruning, Over
<1>1. TypeOK
  BY DEF Inv
<1>2. CASE q # r
  BY <1>2, StepKinds DEF Elsewhere
<1>3. CASE q = r
  <2>1. CASE Rests(r) \/ Dies(r) \/ Warns(r)
    BY <1>3, <2>1 DEF Rests, Dies, Warns
  <2>2. CASE Works(r)
    BY <1>3, <2>2 DEF Works, LeftoverInv
  <2>3. CASE IsRefused(r)
    BY <1>3, <2>3 DEF IsRefused, Recording
  <2>4. CASE Scan(r) \/ Sort(r) \/ PruneDone(r)
    BY <1>1, <1>3, <2>4 DEF Scan, Sort, PruneDone, Goto, TypeOK
  <2>5. ASSUME NEW v \in Run, Removes(r, v) PROVE pc'[r] \in {"prune", "unlink"}
    BY <1>1, <2>5, Removing
  <2> QED
    BY <1>3, <2>1, <2>2, <2>3, <2>4, <2>5, StepKinds
<1> QED
  BY <1>2, <1>3

\* Pruning meets only worktrees that are needed no more.
LEMMA SpareStep ==
  ASSUME Room, Inv, PlaceInv, AgeInv, ListedInv, SpareInv, NEW r \in Run, Step(r)
  PROVE  AgeInv' /\ ListedInv' /\ SpareInv'
<1>1. TypeOK /\ TypeOK' /\ OrderInv /\ LeftoverInv /\ DraftInv /\ VictimInv
  BY StepType DEF Inv, PlaceInv, Next
<1>2. Elsewhere(r)
  BY <1>1, StepKinds
<1>3. ListedInv'
  BY <1>1, <1>2, Condemns DEF ListedInv, Elsewhere
<1>4. SpareInv'
  <2>1. \A q \in condemned'[r] : Retired(q) /\ LoopOf[q] = LoopOf[r]
    <3>1. CASE condemned'[r] \subseteq condemned[r]
      BY <3>1 DEF SpareInv
    <3>2. CASE Sort(r)
      <4>1. condemned'[r] = Excess(listed[r]) /\ listed[r] \subseteq dirs /\ pc[r] = "sort"
        BY <1>1, <3>2 DEF Sort, TypeOK
      <4>2. ASSUME NEW q \in Excess(listed[r]) PROVE Retired(q) /\ LoopOf[q] = LoopOf[r]
        <5>1. q \in listed[r] /\ q \in Run
          BY <1>1, <4>1, <4>2 DEF Excess, TypeOK
        <5>2. LoopOf[q] = LoopOf[r]
          BY <5>1 DEF ListedInv
        <5>3. ~Retired(q) => q \notin Excess(listed[r])
          BY <1>1, <4>1, <5>1, NeverInExcess
        <5> QED
          BY <4>2, <5>2, <5>3
      <4> QED
        BY <4>1, <4>2
    <3> QED
      BY <1>1, <3>1, <3>2, Condemns
  <2>2. \A q \in victim'[r] : Retired(q) /\ LoopOf[q] = LoopOf[r]
    BY <1>1, VictimsAreCondemned DEF SpareInv
  <2>3. \A p \in Run : \A q \in condemned'[p] \cup victim'[p] : Retired(q) /\ LoopOf[q] = LoopOf[p]
    BY <1>2, <2>1, <2>2 DEF SpareInv, Elsewhere
  <2>4. \A q \in Run : Retired(q) => Retired(q)'
    BY <1>1, RetiredStays
  <2>5. \A p \in Run : condemned'[p] \cup victim'[p] \subseteq Run
    BY <1>1 DEF TypeOK
  <2> QED
    BY <2>3, <2>4, <2>5 DEF SpareInv
<1>5. \/ Still /\ \A p \in Run : victim[p] \subseteq victim'[p]
      \/ Touch(r) /\ r \notin Leftover /\ UNCHANGED victim
      \/ \E v \in Run : Touch(v) /\ v \in victim[r] /\ UNCHANGED victim
      \/ \E v \in Run : Rmdir(r, v)
  <2>1. CASE Rests(r) \/ IsRefused(r) \/ Dies(r) \/ Warns(r)
    BY <2>1 DEF Rests, IsRefused, Dies, Warns
  <2>2. CASE Works(r)
    BY <1>1, <2>2 DEF Works, LeftoverInv, Over
  <2>3. CASE Scan(r) \/ Sort(r) \/ PruneDone(r)
    BY <2>3 DEF Scan, Sort, PruneDone, Still, scratch, pruner
  <2>4. ASSUME NEW v \in Run, Open(r, v)
        PROVE  Still /\ \A p \in Run : victim[p] \subseteq victim'[p]
    <3>1. victim[r] = {}
      BY <1>1, <2>4 DEF Open, VictimInv, Over
    <3> QED
      BY <1>1, <2>4, <3>1 DEF Open, Still, scratch, TypeOK
  <2>5. ASSUME NEW v \in Run, NEW e \in Entry, Unlink(r, v, e)
        PROVE  (Still \/ (Touch(v) /\ v \in victim[r])) /\ UNCHANGED victim
    BY <2>5 DEF Unlink, Still, scratch
  <2> QED
    BY <1>1, <2>1, <2>2, <2>3, <2>4, <2>5, StepKinds DEF Removes
<1>6. ASSUME Still, \A p \in Run : victim[p] \subseteq victim'[p] PROVE AgeInv'
  <2>1. ASSUME NEW a \in Run, NEW b \in Run, <<a, b>> \in newer, a \in Leftover, b \notin Leftover
        PROVE  \E p \in Run : a \in victim'[p]
    <3>1. PICK p \in Run : a \in victim[p]
      BY <2>1 DEF AgeInv
    <3> QED
      BY <1>6, <3>1
  <2>2. newer' = newer
    BY <1>6 DEF Still
  <2> QED
    BY <2>1, <2>2 DEF AgeInv
<1>7. ASSUME Touch(r), r \notin Leftover, UNCHANGED victim PROVE AgeInv'
  <2>1. \A a, b \in Run : <<a, b>> \in newer' => a = r \/ <<a, b>> \in newer
    BY <1>7 DEF Touch
  <2>2. victim' = victim
    BY <1>7
  <2>3. \A a, b \in Run : <<a, b>> \in newer' /\ a \in Leftover => <<a, b>> \in newer
    BY <1>7, <2>1
  <2> QED
    BY <2>2, <2>3 DEF AgeInv
<1>8. ASSUME NEW v \in Run, Touch(v), v \in victim[r], UNCHANGED victim PROVE AgeInv'
  <2>1. \A a, b \in Run : <<a, b>> \in newer' => a = v \/ <<a, b>> \in newer
    BY <1>8 DEF Touch
  <2> QED
    BY <1>8, <2>1 DEF AgeInv
<1>9. ASSUME NEW v \in Run, Rmdir(r, v) PROVE AgeInv'
  <2>1. \A a, b \in Run : <<a, b>> \in newer' => <<a, b>> \in newer /\ a # v
    BY <1>9 DEF Rmdir
  <2>2. \A a \in victim[r] : a = v
    BY <1>1, <1>9 DEF Rmdir, VictimInv
  <2>3. \A p \in Run \ {r} : victim'[p] = victim[p]
    BY <1>2 DEF Elsewhere
  <2>4. ASSUME NEW a \in Run, a # v, \E p \in Run : a \in victim[p]
        PROVE  \E p \in Run : a \in victim'[p]
    BY <2>2, <2>3, <2>4
  <2> QED
    BY <2>1, <2>4 DEF AgeInv
<1> QED
  BY <1>3, <1>4, <1>5, <1>6, <1>7, <1>8, <1>9

\* What is staged stays until the agent is over: no pruning meets it.
LEMMA HoldsStep ==
  ASSUME Inv, LeftoverInv, SpareInv, NEW q \in Run, HoldsInv(q), NEW r \in Run, Step(r)
  PROVE  HoldsInv(q)'
<1>0. TypeOK
  BY DEF Inv
<1> USE <1>0 DEF TypeOK, HoldsInv, LeftoverInv, SpareInv, Bundle, runner, scratch, pruner, history,
   Staging, Running, Collecting, Tracing, Recording, Pruning, Over
<1>1. ASSUME Invoke(r) PROVE HoldsInv(q)'
  BY <1>1 DEF Invoke, Goto, RecordFailure, Failure
<1>2. ASSUME MakeWorktree(r) PROVE HoldsInv(q)'
  BY <1>2 DEF MakeWorktree, Goto, Touch
<1>3. ASSUME StageSkill(r) PROVE HoldsInv(q)'
  BY <1>3 DEF StageSkill, Goto, Touch, Add
<1>4. ASSUME StageConfig(r) PROVE HoldsInv(q)'
  BY <1>4 DEF StageConfig, Goto, Touch, Add
<1>5. ASSUME StagingFails(r) PROVE HoldsInv(q)'
  BY <1>5 DEF StagingFails, Goto, RecordFailure, Failure
<1>6. ASSUME Prepare(r) PROVE HoldsInv(q)'
  BY <1>6 DEF Prepare, Goto, Touch
<1>7. ASSUME Spawn(r) PROVE HoldsInv(q)'
  BY <1>7 DEF Spawn, Goto
<1>8. ASSUME SpawnFails(r) PROVE HoldsInv(q)'
  BY <1>8 DEF SpawnFails, Goto, Failure
<1>9. ASSUME AgentExits(r) PROVE HoldsInv(q)'
  BY <1>9 DEF AgentExits, Goto
<1>10. ASSUME OutputUndecodable(r) PROVE HoldsInv(q)'
  BY <1>10 DEF OutputUndecodable, Goto
<1>11. ASSUME TimesOut(r) PROVE HoldsInv(q)'
  BY <1>11 DEF TimesOut, Goto, Expires
<1>12. ASSUME WriteLog(r) PROVE HoldsInv(q)'
  <2>1. CASE q = r
    BY <1>12, <2>1 DEF WriteLog, Goto, Touch
  <2>2. CASE q # r
    BY <1>12, <2>2 DEF WriteLog, Goto, Touch, Add
  <2> QED
    BY <2>1, <2>2
<1>13. ASSUME FindMissing(r) PROVE HoldsInv(q)'
  BY <1>13 DEF FindMissing, Goto
<1>14. ASSUME FindStale(r) PROVE HoldsInv(q)'
  BY <1>14 DEF FindStale, Goto
<1>15. ASSUME FindProduced(r) PROVE HoldsInv(q)'
  BY <1>15 DEF FindProduced, Goto
<1>16. ASSUME RunnerRaises(r) PROVE HoldsInv(q)'
  BY <1>16 DEF RunnerRaises, Goto
<1>17. ASSUME TraceDir(r) PROVE HoldsInv(q)'
  BY <1>17 DEF TraceDir, Goto, Touch
<1>18. ASSUME WriteTrace(r) PROVE HoldsInv(q)'
  <2>1. CASE q = r
    BY <1>18, <2>1 DEF WriteTrace, Goto, Touch, RecordFailure, Failure
  <2>2. CASE q # r
    <3>1. pc'[q] = pc[q] /\ entries'[q] = entries[q] /\ UNCHANGED agent /\ dirs \subseteq dirs'
      BY <1>18, <2>2 DEF WriteTrace, Goto, Touch, Add, RecordFailure
    <3> QED
      BY <3>1
  <2> QED
    BY <2>1, <2>2
<1>19. ASSUME TraceFails(r) PROVE HoldsInv(q)'
  BY <1>19 DEF TraceFails, Goto, Leave
<1>20. ASSUME Interrupt(r) PROVE HoldsInv(q)'
  BY <1>20 DEF Interrupt, Goto, Leave, Survivor
<1>21. ASSUME WriteRecord(r) PROVE HoldsInv(q)'
  BY <1>21 DEF WriteRecord, Goto, WriteTemporary
<1>22. ASSUME ReplaceRecord(r) PROVE HoldsInv(q)'
  BY <1>22 DEF ReplaceRecord, Goto, Leave
<1>23. ASSUME RecordFails(r) PROVE HoldsInv(q)'
  BY <1>23 DEF RecordFails, Goto, Leave
<1>24. ASSUME Scan(r) PROVE HoldsInv(q)'
  BY <1>24 DEF Scan, Goto
<1>25. ASSUME Sort(r) PROVE HoldsInv(q)'
  BY <1>25 DEF Sort, Goto
<1>26. ASSUME PruneStops(r) PROVE HoldsInv(q)'
  BY <1>26 DEF PruneStops, Obstructed, Goto, StopPruning
<1>27. ASSUME PruneDone(r) PROVE HoldsInv(q)'
  BY <1>27 DEF PruneDone, Goto
<1>28. ASSUME Killed(r) PROVE HoldsInv(q)'
  BY <1>28 DEF Killed, Goto, StopPruning, Forget, Survivor
<1>29. ASSUME NEW f \in File, AgentWrites(r, f) \/ AgentDeletes(r, f) PROVE HoldsInv(q)'
  BY <1>29 DEF AgentWrites, AgentDeletes, Touched
<1>30. ASSUME NEW v \in Run, Removes(r, v) PROVE HoldsInv(q)'
  <2>1. CASE Open(r, v)
    BY <2>1 DEF Open, Goto
  <2>2. ASSUME NEW e \in Entry, Unlink(r, v, e) PROVE HoldsInv(q)'
    <3>1. UNCHANGED <<pc, agent>> /\ dirs \subseteq dirs' /\ v \in victim[r]
      BY <2>2 DEF Unlink, Touch
    <3>2. q # v => entries'[q] = entries[q]
      BY <2>2 DEF Unlink
    <3>3. q = v => pc[q] \in Pruning \cup Over
      BY <3>1 DEF Retired
    <3> QED
      BY <3>1, <3>2, <3>3
  <2>3. CASE Rmdir(r, v)
    <3>1. UNCHANGED <<entries, agent>> /\ v \in victim[r] /\ dirs' = dirs \ {v}
      BY <2>3 DEF Rmdir
    <3>2. q = v => pc[q] \in Pruning \cup Over
      BY <3>1 DEF Retired
    <3>3. pc'[q] = pc[q] \/ (pc[q] = "unlink" /\ pc'[q] = "prune")
      BY <2>3 DEF Rmdir, Goto
    <3> QED
      BY <3>1, <3>2, <3>3
  <2> QED
    BY <1>30, <2>1, <2>2, <2>3 DEF Removes
<1> QED BY <1>1, <1>2, <1>3, <1>4, <1>5, <1>6, <1>7, <1>8, <1>9, <1>10, <1>11, <1>12, <1>13,
  <1>14, <1>15, <1>16, <1>17, <1>18, <1>19, <1>20, <1>21, <1>22, <1>23, <1>24, <1>25, <1>26,
  <1>27, <1>28, <1>29, <1>30 DEF Step, Advance, Removes

\* A run comes to prune with its record in the ledger, or interrupted.
LEMMA HistoryStep ==
  ASSUME Inv, ~Faults, NEW q \in Run, HoldsInv(q), HistoryInv(q), NEW r \in Run, Step(r)
  PROVE  HistoryInv(q)'
<1>0. TypeOK /\ (pc[q] \in Recording => draft[q] \in Record)
  BY DEF Inv, RunInv, LedgerInv
<1> USE <1>0 DEF TypeOK, HoldsInv, HistoryInv, Recorded, runner, scratch, pruner, history,
   Staging, Running, Collecting, Tracing, Recording, Pruning, Over
<1>1. ASSUME Invoke(r) PROVE HistoryInv(q)'
  BY <1>1 DEF Invoke, Goto, RecordFailure, Failure
<1>2. ASSUME MakeWorktree(r) PROVE HistoryInv(q)'
  BY <1>2 DEF MakeWorktree, Goto, Touch
<1>3. ASSUME StageSkill(r) PROVE HistoryInv(q)'
  BY <1>3 DEF StageSkill, Goto, Touch, Add
<1>4. ASSUME StageConfig(r) PROVE HistoryInv(q)'
  BY <1>4 DEF StageConfig, Goto, Touch, Add
<1>5. ASSUME StagingFails(r) PROVE HistoryInv(q)'
  BY <1>5 DEF StagingFails, Goto, RecordFailure, Failure
<1>6. ASSUME Prepare(r) PROVE HistoryInv(q)'
  BY <1>6 DEF Prepare, Goto, Touch
<1>7. ASSUME Spawn(r) PROVE HistoryInv(q)'
  BY <1>7 DEF Spawn, Goto
<1>8. ASSUME SpawnFails(r) PROVE HistoryInv(q)'
  BY <1>8 DEF SpawnFails, Goto, Failure
<1>9. ASSUME AgentExits(r) PROVE HistoryInv(q)'
  BY <1>9 DEF AgentExits, Goto
<1>10. ASSUME OutputUndecodable(r) PROVE HistoryInv(q)'
  BY <1>10 DEF OutputUndecodable, Goto
<1>11. ASSUME TimesOut(r) PROVE HistoryInv(q)'
  BY <1>11 DEF TimesOut, Goto, Expires
<1>12. ASSUME WriteLog(r) PROVE HistoryInv(q)'
  BY <1>12 DEF WriteLog, Goto, Touch
<1>13. ASSUME FindMissing(r) PROVE HistoryInv(q)'
  BY <1>13 DEF FindMissing, Goto
<1>14. ASSUME FindStale(r) PROVE HistoryInv(q)'
  BY <1>14 DEF FindStale, Goto
<1>15. ASSUME FindProduced(r) PROVE HistoryInv(q)'
  BY <1>15 DEF FindProduced, Goto
<1>16. ASSUME RunnerRaises(r) PROVE HistoryInv(q)'
  BY <1>16 DEF RunnerRaises, Goto
<1>17. ASSUME TraceDir(r) PROVE HistoryInv(q)'
  BY <1>17 DEF TraceDir, Goto, Touch
<1>18. ASSUME WriteTrace(r) PROVE HistoryInv(q)'
  BY <1>18 DEF WriteTrace, Goto, Touch, RecordFailure, Failure
<1>19. ASSUME TraceFails(r) PROVE HistoryInv(q)'
  BY <1>19 DEF TraceFails, Goto, Leave
<1>20. ASSUME Interrupt(r) PROVE HistoryInv(q)'
  BY <1>20 DEF Interrupt, Goto, Leave, Survivor
<1>21. ASSUME WriteRecord(r) PROVE HistoryInv(q)'
  BY <1>21 DEF WriteRecord, Goto, WriteTemporary
<1>22. ASSUME ReplaceRecord(r) PROVE HistoryInv(q)'
  BY <1>22 DEF ReplaceRecord, Goto, Leave
<1>23. ASSUME RecordFails(r) PROVE HistoryInv(q)'
  BY <1>23 DEF RecordFails, Goto, Leave
<1>24. ASSUME Scan(r) PROVE HistoryInv(q)'
  BY <1>24 DEF Scan, Goto
<1>25. ASSUME Sort(r) PROVE HistoryInv(q)'
  BY <1>25 DEF Sort, Goto
<1>26. ASSUME PruneStops(r) PROVE HistoryInv(q)'
  BY <1>26 DEF PruneStops, Obstructed, Goto, StopPruning
<1>27. ASSUME PruneDone(r) PROVE HistoryInv(q)'
  BY <1>27 DEF PruneDone, Goto
<1>28. ASSUME Killed(r) PROVE HistoryInv(q)'
  BY <1>28 DEF Killed, Goto, StopPruning, Forget, Survivor
<1>29. ASSUME NEW f \in File, AgentWrites(r, f) \/ AgentDeletes(r, f) PROVE HistoryInv(q)'
  BY <1>29 DEF AgentWrites, AgentDeletes, Touched
<1>30. ASSUME NEW v \in Run, Removes(r, v) PROVE HistoryInv(q)'
  BY <1>30 DEF Removes, Open, Unlink, Rmdir, Goto
<1> QED BY <1>1, <1>2, <1>3, <1>4, <1>5, <1>6, <1>7, <1>8, <1>9, <1>10, <1>11, <1>12, <1>13,
  <1>14, <1>15, <1>16, <1>17, <1>18, <1>19, <1>20, <1>21, <1>22, <1>23, <1>24, <1>25, <1>26,
  <1>27, <1>28, <1>29, <1>30 DEF Step, Advance, Removes

LEMMA InitRoom == Init => RoomInv
<1> SUFFICES ASSUME Init PROVE RoomInv
  OBVIOUS
<1>1. Inv /\ PlaceInv
  BY InitRetention DEF RetentionInv
<1>2. ListedInv /\ SpareInv
  BY DEF Init, ListedInv, SpareInv, Always
<1>3. AgeInv
  BY DEF Init, AgeInv, StrictOrders
<1>4. ASSUME NEW q \in Run PROVE HoldsInv(q) /\ HistoryInv(q)
  BY DEF Init, HoldsInv, HistoryInv, Always, Staging, Running, Collecting, Tracing, Pruning
<1> QED
  BY <1>1, <1>2, <1>3, <1>4 DEF RoomInv

LEMMA StepRoom == Room /\ RoomInv /\ [Next]_vars => RoomInv'
<1> SUFFICES ASSUME Room, RoomInv, [Next]_vars PROVE RoomInv'
  OBVIOUS
<1>1. Inv'
  BY StepInv DEF RoomInv
<1>2. CASE Next
  <2>1. PICK r \in Run : Step(r)
    BY <1>2 DEF Next
  <2>2. PlaceInv' /\ AgeInv' /\ ListedInv' /\ SpareInv'
    BY <2>1, PlaceStep, SpareStep DEF RoomInv
  <2>3. \A q \in Run : HoldsInv(q)' /\ (~Faults => HistoryInv(q)')
    BY <2>1, HoldsStep, HistoryStep DEF RoomInv, PlaceInv
  <2> QED
    BY <1>1, <2>2, <2>3 DEF RoomInv
<1>3. CASE UNCHANGED vars
  <2>1. PlaceInv'
    BY <1>3 DEF vars, scratch, runner, pruner, RoomInv, PlaceInv, OrderInv, DraftInv, LeftoverInv,
                VictimInv, BeforeWorktree
  <2>2. AgeInv' /\ ListedInv' /\ SpareInv'
    BY <1>3 DEF vars, scratch, pruner, RoomInv, AgeInv, ListedInv, SpareInv, Retired
  <2>3. \A q \in Run : HoldsInv(q)' /\ (~Faults => HistoryInv(q)')
    BY <1>3 DEF vars, scratch, runner, RoomInv, HoldsInv, HistoryInv, Recorded
  <2> QED
    BY <1>1, <2>1, <2>2, <2>3 DEF RoomInv
<1> QED
  BY <1>2, <1>3

\* No agent loses a part of its bundle to the pruning of another run, where KeepLast + 2 is at
\* least twice the number of the loop's runs, however many worktrees are half removed.
THEOREM BundleSafe == ASSUME Room PROVE Spec => []AgentHasBundle
<1>1. RoomInv => AgentHasBundle
  BY DEF RoomInv, HoldsInv, AgentHasBundle
<1>2. RoomInv /\ [Next]_vars => RoomInv'
  BY StepRoom
<1> QED
  BY <1>1, <1>2, InitRoom, PTL DEF Spec

\* There too an attempt that was not interrupted is in the history, if no file operation fails.
THEOREM HistorySafe == ASSUME Room, ~Faults PROVE Spec => []AttemptsInHistory
<1>1. RoomInv => AttemptsInHistory
  BY DEF RoomInv, HistoryInv, AttemptsInHistory
<1>2. RoomInv /\ [Next]_vars => RoomInv'
  BY StepRoom
<1> QED
  BY <1>1, <1>2, InitRoom, PTL DEF Spec

-----------------------------------------------------------------------------
(***************************************************************************)
(* An attempt does a bounded amount of work.                               *)
(***************************************************************************)
\* How many points a run may still pass, the present one included.
Ahead(point) ==
  CASE point = "idle" -> 18 [] point = "mkdir" -> 17 [] point = "stageSkill" -> 16
    [] point = "stageConfig" -> 15 [] point = "prepare" -> 14 [] point = "spawn" -> 13
    [] point = "running" -> 12 [] point = "log" -> 11 [] point = "missing" -> 10
    [] point = "stale" -> 9 [] point = "produced" -> 8 [] point = "traceDir" -> 7
    [] point = "trace" -> 6 [] point = "record" -> 5 [] point = "replace" -> 4
    [] point = "scan" -> 3 [] point = "sort" -> 2 [] point \in {"prune", "unlink"} -> 1
    [] OTHER -> 0

\* The steps of pruning: for each worktree to open it, to remove its three entries and itself.
Chores(r) ==
  5 * Cardinality(condemned[r] \ victim[r]) + Cardinality(victim[r]) + Cardinality(doomed[r])

\* A bound on the steps a run has still to take.
Work(r) == Ahead(pc[r]) * (6 * Cardinality(Run) + 4) + Chores(r)

\* What a run does by itself leaves it less to do, and nothing any run or agent does, to
\* worktrees it is about to remove or to its outputs, leaves it more.
WorkShrinks == \A r \in Run : Work(r)' <= Work(r) /\ (Advance(r) => Work(r)' < Work(r))

\* The order a pruning sorted by has no circles.
SortedInv ==
  \A r \in Run : /\ \A x \in Run : <<x, x>> \notin byAge[r]
                 /\ \A x, y, z \in Run :
                      <<x, y>> \in byAge[r] /\ <<y, z>> \in byAge[r] => <<x, z>> \in byAge[r]

\* So there is a worktree to be opened next, or one that is open.
NextIsFound ==
  \A r \in Run : /\ condemned[r] # {} => \E q \in condemned[r] : Newest(r, q)
                 /\ pc[r] = "unlink" => victim[r] # {}

\* An agent's writes move no run; a pruning may take from another what that was to remove.
Idles == UNCHANGED <<pc, condemned, victim, doomed>>
Eases(r) ==
  /\ pc'[r] = pc[r] /\ condemned'[r] = condemned[r] /\ victim'[r] = victim[r]
  /\ doomed'[r] \subseteq doomed[r]
Passes(r) == Ahead(pc'[r]) < Ahead(pc[r])
Opens(r) ==
  /\ Ahead(pc'[r]) = Ahead(pc[r]) /\ condemned'[r] = condemned[r]
  /\ victim[r] = {} /\ \E q \in condemned[r] : victim'[r] = {q}
Unlinks(r) ==
  /\ pc'[r] = pc[r] /\ condemned'[r] = condemned[r] /\ victim'[r] = victim[r]
  /\ \E e \in doomed[r] : doomed'[r] = doomed[r] \ {e}
Closes(r) ==
  /\ Ahead(pc'[r]) = Ahead(pc[r]) /\ doomed[r] = {} /\ doomed'[r] = {}
  /\ \E q \in Run : victim[r] = {q} /\ victim'[r] = {} /\ condemned'[r] = condemned[r] \ {q}
Clears(r) == Opens(r) \/ Unlinks(r) \/ Closes(r)

LEMMA StepAdvances ==
  ASSUME Inv, DraftInv, VictimInv, NEW r \in Run, Step(r)
  PROVE  /\ \A q \in Run \ {r} : Eases(q)
         /\ Idles \/ Passes(r) \/ Clears(r)
<1>1. Elsewhere(r)
  BY StepKinds
<1>2. TypeOK
  BY DEF Inv
<1>3. ASSUME NEW f \in File, AgentWrites(r, f) \/ AgentDeletes(r, f) PROVE Idles
  BY <1>3 DEF AgentWrites, AgentDeletes, Touched, Idles, pruner
<1>4. ASSUME NEW q \in Run, Removes(r, q) PROVE Clears(r)
  <2>1. CASE Open(r, q)
    <3>1. pc[r] = "prune" /\ pc'[r] = "unlink" /\ q \in condemned[r] /\ victim'[r] = {q}
      BY <1>2, <2>1 DEF Open, Newest, Goto, TypeOK
    <3>2. victim[r] = {}
      BY <3>1 DEF VictimInv, Over
    <3>3. Ahead(pc'[r]) = Ahead(pc[r])
      BY <3>1 DEF Ahead
    <3> QED
      BY <2>1, <3>1, <3>2, <3>3 DEF Open, Opens, Clears
  <2>2. ASSUME NEW e \in Entry, Unlink(r, q, e) PROVE Unlinks(r)
    BY <1>2, <2>2 DEF Unlink, Unlinks, TypeOK
  <2>3. CASE Rmdir(r, q)
    <3>1. /\ pc[r] = "unlink" /\ pc'[r] = "prune" /\ q \in victim[r] /\ victim'[r] = {}
          /\ doomed[r] = {} /\ doomed'[r] = {} /\ condemned'[r] = condemned[r] \ {q}
      BY <1>2, <2>3 DEF Rmdir, Goto, TypeOK
    <3>2. victim[r] = {q}
      BY <3>1 DEF VictimInv
    <3>3. Ahead(pc'[r]) = Ahead(pc[r])
      BY <3>1 DEF Ahead
    <3> QED
      BY <3>1, <3>2, <3>3 DEF Closes, Clears
  <2> QED
    BY <1>4, <2>1, <2>2, <2>3 DEF Removes, Clears
<1>5. ASSUME NEW here \in Phase, NEW next \in Phase, pc[r] = here, Goto(r, next),
             Ahead(next) < Ahead(here)
      PROVE  Passes(r)
  BY <1>2, <1>5 DEF Goto, Passes, TypeOK
<1> USE <1>2 DEF TypeOK, Passes, Goto, Ahead, Phase, Staging, Running, Collecting, Tracing,
                 Recording, Pruning, Over
<1>6. ASSUME Invoke(r) PROVE Passes(r)
  BY <1>6 DEF Invoke, RecordFailure
<1>7. ASSUME MakeWorktree(r) \/ StageSkill(r) \/ StageConfig(r) \/ StagingFails(r) PROVE Passes(r)
  BY <1>7 DEF MakeWorktree, StageSkill, StageConfig, StagingFails, RecordFailure
<1>8. ASSUME Prepare(r) \/ Spawn(r) \/ SpawnFails(r) PROVE Passes(r)
  BY <1>8 DEF Prepare, Spawn, SpawnFails
<1>9. ASSUME AgentExits(r) \/ OutputUndecodable(r) \/ TimesOut(r) PROVE Passes(r)
  BY <1>9 DEF AgentExits, OutputUndecodable, TimesOut, Expires
<1>10. ASSUME WriteLog(r) \/ FindMissing(r) \/ FindStale(r) \/ FindProduced(r) PROVE Passes(r)
  BY <1>10 DEF WriteLog, FindMissing, FindStale, FindProduced
<1>11. ASSUME RunnerRaises(r) PROVE Passes(r)
  BY <1>11 DEF RunnerRaises
<1>12. ASSUME TraceDir(r) \/ WriteTrace(r) PROVE Passes(r)
  BY <1>12 DEF TraceDir, WriteTrace, RecordFailure
<1>13. ASSUME TraceFails(r) PROVE Passes(r)
  BY <1>13 DEF TraceFails, Leave
<1>14. ASSUME WriteRecord(r) \/ ReplaceRecord(r) \/ RecordFails(r) PROVE Passes(r)
  BY <1>14 DEF WriteRecord, ReplaceRecord, RecordFails, Leave
<1>15. ASSUME Interrupt(r) PROVE Passes(r)
  BY <1>15 DEF Interrupt, Leave
<1>16. ASSUME Scan(r) \/ Sort(r) \/ PruneDone(r) PROVE Passes(r)
  BY <1>16 DEF Scan, Sort, PruneDone
<1>17. ASSUME PruneStops(r) PROVE Passes(r)
  BY <1>17 DEF PruneStops, Obstructed, StopPruning
<1>18. ASSUME Killed(r) PROVE Passes(r)
  BY <1>18 DEF Killed, StopPruning
<1>19. Idles \/ Passes(r) \/ Clears(r)
  BY <1>3, <1>4, <1>6, <1>7, <1>8, <1>9, <1>10, <1>11, <1>12, <1>13, <1>14, <1>15, <1>16, <1>17,
     <1>18 DEF Step, Advance, Removes
<1> QED
  BY <1>1, <1>19 DEF Elsewhere, Eases

\* No step of a run's own leaves it where it is.
LEMMA AdvanceMoves ==
  ASSUME TypeOK, NEW r \in Run, Advance(r)
  PROVE  pc'[r] # pc[r] \/ doomed'[r] # doomed[r]
<1> USE DEF TypeOK, Goto, Phase, Staging, Running, Collecting, Tracing, Recording, Pruning, Over
<1>1. ASSUME NEW q \in Run, Removes(r, q)
      PROVE  pc'[r] # pc[r] \/ doomed'[r] # doomed[r]
  BY <1>1 DEF Removes, Open, Unlink, Rmdir
<1>2. ASSUME \/ MakeWorktree(r) \/ StageSkill(r) \/ StageConfig(r) \/ Prepare(r) \/ Spawn(r)
             \/ TimesOut(r) \/ WriteLog(r) \/ FindMissing(r) \/ FindStale(r)
      PROVE  pc'[r] # pc[r]
  BY <1>2 DEF MakeWorktree, StageSkill, StageConfig, Prepare, Spawn, TimesOut, Expires, WriteLog,
              FindMissing, FindStale
<1>3. ASSUME \/ FindProduced(r) \/ RunnerRaises(r) \/ TraceDir(r) \/ WriteTrace(r)
             \/ TraceFails(r) \/ SpawnFails(r)
      PROVE  pc'[r] # pc[r]
  BY <1>3 DEF FindProduced, RunnerRaises, TraceDir, WriteTrace, RecordFailure, TraceFails, Leave,
              SpawnFails
<1>4. ASSUME \/ WriteRecord(r) \/ ReplaceRecord(r) \/ Scan(r) \/ Sort(r) \/ PruneStops(r)
             \/ PruneDone(r)
      PROVE  pc'[r] # pc[r]
  BY <1>4 DEF WriteRecord, ReplaceRecord, Leave, Scan, Sort, PruneStops, Obstructed,
              StopPruning, PruneDone
<1> QED
  BY <1>1, <1>2, <1>3, <1>4 DEF Advance, Removes

LEMMA CountRuns ==
  ASSUME NEW S \in SUBSET Run
  PROVE  /\ Cardinality(S) \in Nat /\ Cardinality(Run) \in Nat
         /\ Cardinality(S) <= Cardinality(Run)
         /\ \A q \in S : Cardinality(S \ {q}) < Cardinality(S)
<1>1. IsFiniteSet(S) /\ Cardinality(S) <= Cardinality(Run)
  BY FS_Subset, RunAssumption
<1>2. Cardinality(S) \in Nat /\ Cardinality(Run) \in Nat
  BY <1>1, FS_CardinalityType, RunAssumption
<1>3. ASSUME NEW q \in S PROVE Cardinality(S \ {q}) < Cardinality(S)
  <2>1. Cardinality(S \ {q}) = Cardinality(S) - 1
    BY <1>1, <1>3, FS_RemoveElement, Zenon
  <2> QED
    BY <1>2, <2>1
<1> QED
  BY <1>1, <1>2, <1>3

\* One point less outweighs whatever a pruning has to remove.
LEMMA LaterPoint ==
  ASSUME NEW p \in Nat, NEW q \in Nat, q < p, NEW K \in Nat, NEW x \in Nat, NEW y \in Nat, y < K
  PROVE  q * K + y < p * K + x
<1> DEFINE d == p - q - 1
<1>1. d \in Nat /\ p = (q + 1) + d
  OBVIOUS
<1> HIDE DEF d
<1>2. p * K = (q + 1) * K + d * K
  BY <1>1
<1>3. (q + 1) * K = q * K + K
  OBVIOUS
<1>4. d * K \in Nat /\ q * K \in Nat /\ p * K \in Nat
  BY <1>1
<1> QED
  BY <1>2, <1>3, <1>4

LEMMA AheadType == \A point : Ahead(point) \in Nat
BY DEF Ahead

LEMMA CountEntries ==
  ASSUME NEW S \in SUBSET Entry
  PROVE  /\ IsFiniteSet(S) /\ Cardinality(S) \in Nat /\ Cardinality(S) <= 3
         /\ \A e \in S : Cardinality(S \ {e}) = Cardinality(S) - 1
         /\ \A T \in SUBSET S : Cardinality(T) \in Nat /\ Cardinality(T) <= Cardinality(S)
<1>1. IsFiniteSet(Entry) /\ Cardinality(Entry) <= 3
  <2> DEFINE A == {"log"}
             B == A \cup {"skill"}
             C == B \cup {"config"}
  <2>1. IsFiniteSet(A) /\ Cardinality(A) = 1
    BY FS_Singleton
  <2>2. IsFiniteSet(B) /\ Cardinality(B) \in Nat /\ Cardinality(B) <= 2
    <3> HIDE DEF A
    <3>1. /\ IsFiniteSet(B)
          /\ Cardinality(B) = Cardinality(A) \/ Cardinality(B) = Cardinality(A) + 1
      BY <2>1, FS_AddElement
    <3> HIDE DEF B
    <3> QED
      BY <2>1, <3>1
  <2>3. IsFiniteSet(C) /\ Cardinality(C) <= 3
    <3> HIDE DEF B
    <3>1. /\ IsFiniteSet(C)
          /\ Cardinality(C) = Cardinality(B) \/ Cardinality(C) = Cardinality(B) + 1
      BY <2>2, FS_AddElement
    <3> HIDE DEF C
    <3> QED
      BY <2>2, <3>1
  <2>4. Entry = C
    BY DEF Entry, Bundle
  <2> HIDE DEF C
  <2> QED
    BY <2>3, <2>4
<1>2. IsFiniteSet(S) /\ Cardinality(S) \in Nat /\ Cardinality(S) <= 3
  <2>1. IsFiniteSet(S) /\ Cardinality(S) <= Cardinality(Entry)
    BY <1>1, FS_Subset
  <2> QED
    BY <1>1, <2>1, FS_CardinalityType
<1>3. \A e \in S : Cardinality(S \ {e}) = Cardinality(S) - 1
  BY <1>2, FS_RemoveElement, Zenon
<1>4. \A T \in SUBSET S : Cardinality(T) \in Nat /\ Cardinality(T) <= Cardinality(S)
  BY <1>2, FS_Subset, FS_CardinalityType
<1> QED
  BY <1>2, <1>3, <1>4

\* The chores are bounded, and each step of rmtree is one less.
LEMMA LessChores ==
  ASSUME TypeOK, TypeOK', NEW r \in Run
  PROVE  /\ Chores(r) \in Nat /\ Chores(r) < 6 * Cardinality(Run) + 4
         /\ Chores(r)' \in Nat /\ Chores(r)' < 6 * Cardinality(Run) + 4
         /\ Clears(r) => Chores(r)' < Chores(r)
         /\ Eases(r) => Chores(r)' <= Chores(r)
<1> DEFINE c == Cardinality(condemned[r] \ victim[r])
           v == Cardinality(victim[r])
           d == Cardinality(doomed[r])
           x == Cardinality(condemned'[r] \ victim'[r])
           y == Cardinality(victim'[r])
           z == Cardinality(doomed'[r])
           N == Cardinality(Run)
<1>1. /\ condemned[r] \in SUBSET Run /\ victim[r] \in SUBSET Run /\ doomed[r] \in SUBSET Entry
      /\ condemned'[r] \in SUBSET Run /\ victim'[r] \in SUBSET Run /\ doomed'[r] \in SUBSET Entry
  BY DEF TypeOK
<1>2. /\ c \in Nat /\ c <= N /\ v \in Nat /\ v <= N /\ x \in Nat /\ x <= N /\ y \in Nat /\ y <= N
      /\ N \in Nat
  BY <1>1, CountRuns
<1>3. d \in Nat /\ d <= 3 /\ z \in Nat /\ z <= 3
  BY <1>1, CountEntries
<1>4. Chores(r) = 5 * c + v + d /\ Chores(r)' = 5 * x + y + z
  BY DEF Chores
<1>5. ASSUME Opens(r) PROVE Chores(r)' < Chores(r)
  <2>1. PICK q \in condemned[r] : victim'[r] = {q}
    BY <1>5 DEF Opens
  <2>2. condemned[r] \ victim[r] = condemned[r] /\ condemned'[r] \ victim'[r] = condemned[r] \ {q}
    BY <1>5, <2>1 DEF Opens
  <2>3. Cardinality(condemned[r] \ {q}) < Cardinality(condemned[r])
    BY <1>1, CountRuns
  <2>4. x < c /\ y = 1
    BY <2>1, <2>2, <2>3, FS_Singleton
  <2> HIDE DEF c, v, d, x, y, z
  <2> QED
    BY <1>2, <1>3, <1>4, <2>4
<1>6. ASSUME Unlinks(r) PROVE Chores(r)' < Chores(r)
  <2>1. x = c /\ y = v /\ z = d - 1
    BY <1>1, <1>6, CountEntries DEF Unlinks
  <2> HIDE DEF c, v, d, x, y, z
  <2> QED
    BY <1>2, <1>3, <1>4, <2>1
<1>7. ASSUME Closes(r) PROVE Chores(r)' < Chores(r)
  <2>1. PICK q \in Run : victim[r] = {q} /\ victim'[r] = {} /\ condemned'[r] = condemned[r] \ {q}
    BY <1>7 DEF Closes
  <2>2. condemned'[r] \ victim'[r] = condemned[r] \ victim[r]
    BY <2>1
  <2>3. x = c /\ y = 0 /\ v = 1 /\ z = d
    BY <1>7, <2>1, <2>2, FS_Singleton, FS_EmptySet DEF Closes
  <2> HIDE DEF c, v, d, x, y, z
  <2> QED
    BY <1>2, <1>3, <1>4, <2>3
<1>8. ASSUME Eases(r) PROVE Chores(r)' <= Chores(r)
  <2>1. x = c /\ y = v /\ z <= d
    BY <1>1, <1>8, CountEntries DEF Eases
  <2> HIDE DEF c, v, d, x, y, z
  <2> QED
    BY <1>2, <1>3, <1>4, <2>1
<1>9. /\ Chores(r) \in Nat /\ Chores(r) < 6 * N + 4
      /\ Chores(r)' \in Nat /\ Chores(r)' < 6 * N + 4
  <2> HIDE DEF c, v, d, x, y, z, N
  <2> QED
    BY <1>2, <1>3, <1>4
<1> QED
  BY <1>5, <1>6, <1>7, <1>8, <1>9 DEF Clears

LEMMA LessWork ==
  ASSUME TypeOK, TypeOK', NEW r \in Run
  PROVE  /\ Work(r) \in Nat /\ Work(r)' \in Nat
         /\ Passes(r) \/ Clears(r) => Work(r)' < Work(r)
         /\ Eases(r) => Work(r)' <= Work(r)
<1> DEFINE K == 6 * Cardinality(Run) + 4
           x == Chores(r)
           y == Chores(r)'
           a == Ahead(pc[r])
           b == Ahead(pc'[r])
<1>1. Run \in SUBSET Run /\ Cardinality(Run) \in Nat
  BY CountRuns
<1>2. K \in Nat /\ x \in Nat /\ y \in Nat /\ x < K /\ y < K
  BY <1>1, LessChores
<1>3. a \in Nat /\ b \in Nat
  BY AheadType
<1>4. Work(r) = a * K + x /\ Work(r)' = b * K + y
  BY DEF Work
<1>5. a * K \in Nat /\ b * K \in Nat
  BY <1>2, <1>3
<1>6. ASSUME Passes(r) PROVE Work(r)' < Work(r)
  <2>1. b < a
    BY <1>6 DEF Passes
  <2> HIDE DEF K, x, y, a, b
  <2> QED
    BY <1>2, <1>3, <1>4, <2>1, LaterPoint
<1>7. ASSUME Clears(r) PROVE Work(r)' < Work(r)
  <2>1. b = a
    BY <1>7 DEF Clears, Opens, Unlinks, Closes
  <2>2. y < x
    BY <1>7, LessChores
  <2> HIDE DEF K, x, y, a, b
  <2> QED
    BY <1>2, <1>4, <1>5, <2>1, <2>2
<1>8. ASSUME Eases(r) PROVE Work(r)' <= Work(r)
  <2>1. b = a
    BY <1>8 DEF Eases
  <2>2. y <= x
    BY <1>8, LessChores
  <2> HIDE DEF K, x, y, a, b
  <2> QED
    BY <1>2, <1>4, <1>5, <2>1, <2>2
<1> HIDE DEF K, x, y, a, b
<1>9. Work(r) \in Nat /\ Work(r)' \in Nat
  BY <1>2, <1>4, <1>5
<1> QED
  BY <1>6, <1>7, <1>8, <1>9

LEMMA StepSorted ==
  ASSUME TypeOK, OrderInv, SortedInv, [Next]_vars
  PROVE  SortedInv'
<1> USE DEF TypeOK
<1>1. ASSUME NEW r \in Run, Sort(r) PROVE SortedInv'
  <2>1. \A q \in Run \ {r} : byAge'[q] = byAge[q]
    BY <1>1 DEF Sort
  <2>2. byAge'[r] = newer \cap (Excess(listed[r]) \X Excess(listed[r])) /\ newer \subseteq dirs \X dirs
    BY <1>1 DEF Sort
  <2>3. \A x, y \in Run : <<x, y>> \in byAge'[r] <=>
           <<x, y>> \in newer /\ x \in Excess(listed[r]) /\ y \in Excess(listed[r])
    BY <2>2
  <2>4. \A x \in Run : <<x, x>> \notin newer
    <3>1. \A x, y : <<x, y>> \in newer => x \in dirs /\ y \in dirs
      BY <2>2
    <3>2. \A x \in dirs : <<x, x>> \notin newer
      <4> HIDE DEF TypeOK
      <4> QED
        BY DEF OrderInv, StrictOrders
    <3> HIDE DEF TypeOK
    <3> QED
      BY <3>1, <3>2
  <2>5. \A x, y, z \in Run : <<x, y>> \in newer /\ <<y, z>> \in newer => <<x, z>> \in newer
    <3>1. \A x, y : <<x, y>> \in newer => x \in dirs /\ y \in dirs
      BY <2>2
    <3> QED
      BY <3>1 DEF OrderInv, StrictOrders
  <2>6. /\ \A x \in Run : <<x, x>> \notin byAge'[r]
        /\ \A x, y, z \in Run :
             <<x, y>> \in byAge'[r] /\ <<y, z>> \in byAge'[r] => <<x, z>> \in byAge'[r]
    BY <2>3, <2>4, <2>5
  <2> QED
    BY <2>1, <2>6 DEF SortedInv
<1>2. ASSUME NEW r \in Run, NEW v \in Run, Rmdir(r, v) PROVE SortedInv'
  <2>1. \A q \in Run \ {r} : byAge'[q] = byAge[q]
    BY <1>2 DEF Rmdir
  <2>2. \A x, y : <<x, y>> \in byAge'[r] <=> <<x, y>> \in byAge[r] /\ x # v
    BY <1>2 DEF Rmdir
  <2>3. /\ \A x \in Run : <<x, x>> \notin byAge'[r]
        /\ \A x, y, z \in Run :
             <<x, y>> \in byAge'[r] /\ <<y, z>> \in byAge'[r] => <<x, z>> \in byAge'[r]
    BY <2>2 DEF SortedInv
  <2> QED
    BY <2>1, <2>3 DEF SortedInv
<1>3. ASSUME NEW r \in Run, PruneStops(r) \/ Killed(r) PROVE SortedInv'
  <2>1. \A q \in Run : byAge'[q] = IF q = r THEN {} ELSE byAge[q]
    BY <1>3 DEF PruneStops, Killed, StopPruning
  <2> QED
    BY <2>1 DEF SortedInv
<1>4. ASSUME UNCHANGED byAge PROVE SortedInv'
  BY <1>4 DEF SortedInv
<1>5. ASSUME NEW r \in Run, Step(r)
      PROVE  \/ UNCHANGED byAge \/ Sort(r) \/ PruneStops(r) \/ Killed(r)
             \/ \E v \in Run : Rmdir(r, v)
  BY <1>5 DEF Step, Advance, Touched, Invoke, MakeWorktree, StageSkill, StageConfig, StagingFails,
       Prepare, Spawn, SpawnFails, AgentWrites, AgentDeletes, AgentExits, OutputUndecodable, TimesOut,
       WriteLog, FindMissing, FindStale, FindProduced, RunnerRaises, TraceDir, WriteTrace, TraceFails,
       Interrupt, WriteRecord, ReplaceRecord, RecordFails, Scan, Open, Unlink, PruneDone, pruner
<1> QED
  BY <1>1, <1>2, <1>3, <1>4, <1>5 DEF Next, vars, pruner

\* Of finitely many worktrees, the one with the fewest before it has none before it.
LEMMA SortedHasANewest ==
  ASSUME TypeOK, SortedInv, NEW r \in Run, condemned[r] # {}
  PROVE  \E q \in condemned[r] : Newest(r, q)
<1> DEFINE C == condemned[r]
           Before(q) == {p \in C : <<p, q>> \in byAge[r]}
           T == {Before(q) : q \in C}
<1>1. C \in SUBSET Run /\ IsFiniteSet(C) /\ C # {}
  BY FS_Subset, RunAssumption DEF TypeOK
<1>2. IsWellFoundedOn(StrictSubsetOrdering(C), SUBSET C)
  BY <1>1, FS_StrictSubsetOrderingWellFounded, FS_FiniteSubsetsOfFinite
<1>3. T \subseteq SUBSET C /\ T # {}
  BY <1>1
<1>4. PICK S \in T : \A U \in T : <<U, S>> \notin StrictSubsetOrdering(C)
  <2> HIDE DEF T
  <2> QED
    BY <1>2, <1>3, WFMin
<1>5. PICK q \in C : S = Before(q)
  BY <1>4
<1>6. ASSUME NEW p \in C, <<p, q>> \in byAge[r] PROVE FALSE
  <2>1. p \in Before(q) /\ p \notin Before(p)
    BY <1>1, <1>6 DEF SortedInv
  <2>2. Before(p) \subseteq Before(q)
    BY <1>1, <1>5, <1>6 DEF SortedInv
  <2>3. <<Before(p), Before(q)>> \in StrictSubsetOrdering(C)
    <3> HIDE DEF C
    <3>1. Before(p) \in SUBSET C /\ Before(q) \in SUBSET C
      OBVIOUS
    <3>2. Before(p) # Before(q)
      BY <2>1
    <3> HIDE DEF Before
    <3> QED
      BY <2>2, <3>1, <3>2 DEF StrictSubsetOrdering
  <2> QED
    BY <1>4, <1>5, <2>3
<1> QED
  BY <1>5, <1>6 DEF Newest

\* An attempt (cli.py:361-503, worktree.py:61-84) does a bounded amount of work of its own,
\* however many others run, prune and interfere: each of its steps leaves it less to do, no step
\* of another leaves it more, and a pruning under way finds what to remove next.
THEOREM AttemptIsBounded ==
  Spec => [](\A r \in Run : Work(r) \in Nat) /\ [][WorkShrinks]_vars /\ []NextIsFound
<1> DEFINE WInv == RetentionInv /\ SortedInv
<1>1. Init => WInv
  <2>1. Init => SortedInv
    BY DEF Init, SortedInv, Always
  <2> QED
    BY <2>1, InitRetention
<1>2. WInv /\ [Next]_vars => WInv'
  BY StepRetention, StepSorted DEF RetentionInv, PlaceInv, Inv
<1>3. WInv => \A r \in Run : Work(r) \in Nat
  <2> SUFFICES ASSUME WInv, NEW r \in Run PROVE Work(r) \in Nat
    OBVIOUS
  <2>1. /\ condemned[r] \ victim[r] \in SUBSET Run /\ victim[r] \in SUBSET Run
        /\ doomed[r] \in SUBSET Entry
    BY DEF RetentionInv, Inv, TypeOK
  <2>2. /\ Cardinality(condemned[r] \ victim[r]) \in Nat /\ Cardinality(victim[r]) \in Nat
        /\ Cardinality(doomed[r]) \in Nat /\ Cardinality(Run) \in Nat
    BY <2>1, CountRuns, CountEntries
  <2>3. Ahead(pc[r]) * (6 * Cardinality(Run) + 4) \in Nat
    BY <2>2, AheadType
  <2> QED
    BY <2>2, <2>3 DEF Work, Chores
<1>4. WInv /\ WInv' /\ [Next]_vars => [WorkShrinks]_vars
  <2> SUFFICES ASSUME WInv, WInv', Next PROVE WorkShrinks
    OBVIOUS
  <2>1. Inv /\ DraftInv /\ VictimInv /\ TypeOK /\ TypeOK'
    BY DEF RetentionInv, PlaceInv, Inv
  <2> HIDE DEF WInv
  <2>2. PICK p \in Run : Step(p)
    BY DEF Next
  <2>3. ASSUME NEW r \in Run PROVE Work(r)' <= Work(r) /\ (Advance(r) => Work(r)' < Work(r))
    <3>1. Passes(r) \/ Clears(r) \/ Eases(r)
      BY <2>1, <2>2, StepAdvances DEF Idles, Eases
    <3>2. ASSUME Advance(r) PROVE Passes(r) \/ Clears(r)
      <4>1. Idles \/ Passes(r) \/ Clears(r)
        BY <2>1, <3>2, StepAdvances DEF Step
      <4>2. pc'[r] # pc[r] \/ doomed'[r] # doomed[r]
        BY <2>1, <3>2, AdvanceMoves
      <4> QED
        BY <4>1, <4>2 DEF Idles
    <3> QED
      BY <2>1, <3>1, <3>2, LessWork
  <2> QED
    BY <2>3 DEF WorkShrinks
<1>5. WInv => NextIsFound
  BY SortedHasANewest DEF NextIsFound, RetentionInv, PlaceInv, VictimInv, Inv
<1> QED
  BY <1>1, <1>2, <1>3, <1>4, <1>5, PTL DEF Spec
=============================================================================
