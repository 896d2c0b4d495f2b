---------------------------- MODULE RunLifecycle ----------------------------
(***************************************************************************)
(* `loopctl run`: preflight, stage a scratch worktree, hand the loop to    *)
(* its agent, work out which outputs it produced, record the attempt in    *)
(* the ledger and prune old worktrees (src/src/loopcraft/cli.py            *)
(* _run_execute, runners/base.py, worktree.py, store.py).                  *)
(*                                                                         *)
(* Nothing keeps two runs apart: runs of one loop may overlap, and so may  *)
(* the run and the pruning of another.  A run is a process with its own    *)
(* program counter; a step is what it does between two points where        *)
(* another process can get in.                                             *)
(***************************************************************************)
EXTENDS Naturals, FiniteSets

CONSTANTS
  Run,        \* the attempts that may be made, by run id
  LoopOf,     \* the loop each of them runs
  File,       \* the files loops declare as outputs
  Declared,   \* resolved_outputs: the files each run is to produce
  Existing,   \* the files that exist to begin with
  Leftover,   \* runs of the past, killed before they pruned
  Budgeted,   \* the runs of loops that set budget.max_runtime
  KeepLast,   \* worktree_keep_last
  Faults      \* whether file operations may fail of their own accord

ASSUME RunAssumption == IsFiniteSet(Run) /\ Leftover \subseteq Run /\ Budgeted \subseteq Run
ASSUME DeclaredAssumption == Declared \in [Run -> SUBSET File] /\ Existing \subseteq File
ASSUME KeepLastAssumption == KeepLast \in 0..100
ASSUME FlagAssumption == Faults \in BOOLEAN

Staging == {"mkdir", "stageSkill", "stageConfig"}
Collecting == {"missing", "stale", "produced"}
Running == {"prepare", "spawn", "running", "log"} \cup Collecting
Tracing == {"traceDir", "trace"}
Recording == {"record", "replace"}
Pruning == {"scan", "sort", "prune", "unlink"}
Over == {"done", "dead"}
Phase == {"idle"} \cup Staging \cup Running \cup Tracing \cup Recording
         \cup Pruning \cup Over
\* From the snapshot of the outputs to the verdict on them.
Window == (Running \ {"prepare"})

Record == [status : {"done", "failed", "stalled"},
           phase : {"preflight", "staging", "execution", "ran"},
           outputs : SUBSET File]
NoRecord == [status |-> "none", phase |-> "none", outputs |-> {}]
\* What a reader finds of a file that is being written.
Torn == [status |-> "torn", phase |-> "none", outputs |-> {}]

VARIABLES
  files,      \* the output files that exist
  dirs,       \* the runs whose worktree exists
  newer,      \* <<a, b>>: worktree a was modified after worktree b
  entries,    \* what each worktree holds: the two parts of its bundle, the log
  pc,         \* where each run is
  agent,      \* the state of its agent process
  pre,        \* the outputs there were when it took its snapshot
  changed,    \* the files modified since then, whoever did it
  gaps,       \* the outputs it found missing, and found stale
  draft,      \* the record it is going to write
  ledger,     \* the record a reader finds
  listed,     \* pruning: the worktrees it listed
  condemned,  \* pruning: the worktrees it has still to remove
  byAge,      \* pruning: the order `newer` as it sorted them by it
  victim,     \* pruning: the worktree it is taking apart, or was when it stopped
  doomed,     \* pruning: the entries it has still to remove from it
  wrote,      \* history: the files its agent wrote and did not delete again
  disturbed,  \* history: the outputs other agents touched in its window
  how,        \* history: how the attempt went down in the ledger, if it did
  warned      \* history: runs whose pruning stopped early

runner == <<agent, pre, changed, gaps>>
scratch == <<dirs, newer, entries>>
pruner == <<listed, condemned, byAge, victim, doomed, warned>>
history == <<wrote, disturbed>>
vars == <<files, scratch, pc, runner, draft, ledger, pruner, history, how>>

Bundle == {"skill", "config"}
Entry == Bundle \cup {"log"}

TypeOK ==
  /\ files \subseteq File
  /\ dirs \subseteq Run /\ newer \subseteq dirs \X dirs
  /\ entries \in [Run -> SUBSET Entry]
  /\ pc \in [Run -> Phase]
  /\ agent \in [Run -> {"none", "running", "exited", "killed", "orphan"}]
  /\ pre \in [Run -> SUBSET File] /\ changed \in [Run -> SUBSET File]
  /\ gaps \in [Run -> [missing : SUBSET File, stale : SUBSET File]]
  /\ draft \in [Run -> Record \cup {NoRecord}]
  /\ ledger \in [Run -> Record \cup {NoRecord, Torn}]
  /\ listed \in [Run -> SUBSET Run] /\ condemned \in [Run -> SUBSET Run]
  /\ byAge \in [Run -> SUBSET (Run \X Run)]
  /\ victim \in [Run -> SUBSET Run] /\ doomed \in [Run -> SUBSET Entry]
  /\ wrote \in [Run -> SUBSET File] /\ disturbed \in [Run -> SUBSET File]
  /\ how \in [Run -> {"open", "recorded", "interrupted", "vanished"}]
  /\ warned \subseteq Run

NoGaps == [missing |-> {}, stale |-> {}]
Always(x) == [r \in Run |-> x]

\* The strict total orders on a set.
StrictOrders(S) ==
  {n \in SUBSET (S \X S) :
     /\ \A x, y \in S : x # y => (<<x, y>> \in n) # (<<y, x>> \in n)
     /\ \A x \in S : <<x, x>> \notin n
     /\ \A x, y, z \in S : <<x, y>> \in n /\ <<y, z>> \in n => <<x, z>> \in n}

\* Leftover worktrees differ in age.
Init ==
  /\ files = Existing
  /\ dirs = Leftover
  /\ newer \in StrictOrders(Leftover)
  /\ entries = [r \in Run |-> IF r \in Leftover THEN Bundle ELSE {}]
  /\ pc = [r \in Run |-> IF r \in Leftover THEN "dead" ELSE "idle"]
  /\ agent = Always("none") /\ pre = Always({}) /\ changed = Always({})
  /\ gaps = Always(NoGaps) /\ draft = Always(NoRecord)
  /\ ledger = Always(NoRecord)
  /\ listed = Always({}) /\ condemned = Always({}) /\ byAge = Always({})
  /\ victim = Always({}) /\ doomed = Always({})
  /\ wrote = Always({}) /\ disturbed = Always({})
  /\ how = Always("open") /\ warned = {}

-----------------------------------------------------------------------------
Goto(r, phase) == pc' = [pc EXCEPT ![r] = phase]

\* The worktree of r is made, or an entry of it is made or removed: that, and nothing that is
\* done to an entry, is when it is modified.
Touch(r) ==
  /\ dirs' = dirs \cup {r}
  /\ newer' = {p \in newer : p[1] # r /\ p[2] # r} \cup ({r} \X (dirs \ {r}))

Add(r, entry) == entries' = [entries EXCEPT ![r] = @ \cup {entry}]

\* mutant: a failed attempt is left open
LeftOpen(phase) == [status |-> "running", phase |-> phase, outputs |-> {}]
Failure(phase) == [status |-> "failed", phase |-> phase, outputs |-> {}]

\* _record_run_failure is called: the record is made up, then written.
RecordFailure(r, phase) ==
  /\ draft' = [draft EXCEPT ![r] = Failure(phase)]
  /\ Goto(r, "record")

-----------------------------------------------------------------------------
(***************************************************************************)
(* Invocation, from a timer, a shell or the agent of another run.  The     *)
(* recursion guard turns an agent of the loop itself away before anything  *)
(* is changed (cli.py:265-282): that is no step here.                      *)
(***************************************************************************)
Invoke(r) ==
  /\ pc[r] = "idle"
  /\ \/ Goto(r, "mkdir") /\ UNCHANGED draft
     \/ RecordFailure(r, "preflight")
  /\ UNCHANGED <<files, scratch, runner, ledger, pruner, history, how>>

-----------------------------------------------------------------------------
(***************************************************************************)
(* Staging.  Every copy makes the directories it needs, so a worktree that *)
(* was pruned comes back with only what is staged after that.              *)
(***************************************************************************)
MakeWorktree(r) ==
  /\ pc[r] = "mkdir"
  /\ Touch(r)
  /\ Goto(r, "stageSkill")
  /\ UNCHANGED <<files, entries, runner, draft, ledger, pruner, history, how>>

StageSkill(r) ==
  /\ pc[r] = "stageSkill"
  /\ Touch(r) /\ Add(r, "skill")
  /\ Goto(r, "stageConfig")
  /\ UNCHANGED <<files, runner, draft, ledger, pruner, history, how>>

\* The manifest, the content config with its overrides, the extra assets.
StageConfig(r) ==
  /\ pc[r] = "stageConfig"
  /\ Touch(r) /\ Add(r, "config")
  /\ Goto(r, "prepare")
  /\ UNCHANGED <<files, runner, draft, ledger, pruner, history, how>>

StagingFails(r) ==
  /\ pc[r] \in Staging
  /\ RecordFailure(r, "staging")
  /\ UNCHANGED <<files, scratch, runner, ledger, pruner, history, how>>

-----------------------------------------------------------------------------
(***************************************************************************)
(* BaseRunner.run: snapshot the outputs, run the agent, write the log,     *)
(* then decide what was missing, what was stale and what was produced.     *)
(***************************************************************************)
\* mutant: outputs that were there before are not remembered
NothingBefore(r) == {}
\* pre_mtimes: the modification time of each output, None if it is absent.
Snapshot(r) == Declared[r] \cap files

Prepare(r) ==
  /\ pc[r] = "prepare"
  /\ IF r \in dirs THEN UNCHANGED <<dirs, newer>> ELSE Touch(r)
  /\ pre' = [pre EXCEPT ![r] = Snapshot(r)]
  /\ changed' = [changed EXCEPT ![r] = {}]
  /\ Goto(r, "spawn")
  /\ UNCHANGED <<files, entries, agent, gaps, draft, ledger, pruner, history, how>>

Spawn(r) ==
  /\ pc[r] = "spawn" /\ r \in dirs
  /\ agent' = [agent EXCEPT ![r] = "running"]
  /\ Goto(r, "running")
  /\ UNCHANGED <<files, scratch, pre, changed, gaps, draft, ledger, pruner,
                 history, how>>

\* FileNotFoundError: the vendor's command, or the worktree to run it in.
SpawnFails(r) ==
  /\ pc[r] = "spawn"
  /\ draft' = [draft EXCEPT ![r] = Failure("execution")]
  /\ Goto(r, "log")
  /\ UNCHANGED <<files, scratch, runner, ledger, pruner, history, how>>

\* A file is written or deleted by the agent of r.
Touched(r, f) ==
  /\ changed' = [q \in Run |-> IF pc[q] \in Window THEN changed[q] \cup {f} ELSE changed[q]]
  /\ disturbed' = [q \in Run |-> IF q # r /\ pc[q] \in Window
                                 THEN disturbed[q] \cup {f} ELSE disturbed[q]]
  /\ UNCHANGED <<scratch, pc, agent, pre, gaps, draft, ledger, pruner, how>>

AgentWrites(r, f) ==
  /\ agent[r] \in {"running", "orphan"} /\ f \in Declared[r]
  /\ files' = files \cup {f}
  /\ wrote' = [wrote EXCEPT ![r] = @ \cup {f}]
  /\ Touched(r, f)

AgentDeletes(r, f) ==
  /\ agent[r] \in {"running", "orphan"} /\ f \in Declared[r] \cap files
  /\ files' = files \ {f}
  /\ wrote' = [wrote EXCEPT ![r] = @ \ {f}]
  /\ Touched(r, f)

\* The agent exits, leaving nothing behind that still writes.
AgentExits(r) ==
  /\ pc[r] = "running"
  /\ agent' = [agent EXCEPT ![r] = "exited"]
  /\ \E status \in {"done", "failed"} :     \* exit code zero, or not
       draft' = [draft EXCEPT ![r] = [status |-> status, phase |-> "ran", outputs |-> {}]]
  /\ Goto(r, "log")
  /\ UNCHANGED <<files, scratch, pre, changed, gaps, ledger, pruner, history, how>>

\* Decoding what the agent printed raises UnicodeDecodeError.
OutputUndecodable(r) ==
  /\ pc[r] = "running"
  /\ agent' = [agent EXCEPT ![r] = "exited"]
  /\ Goto(r, "traceDir")
  /\ UNCHANGED <<files, scratch, pre, changed, gaps, draft, ledger, pruner,
                 history, how>>

\* mutant: no timeout
NeverExpires(r) == FALSE
\* budget.max_runtime is over, if there is one.
Expires(r) == pc[r] = "running" /\ r \in Budgeted

\* The agent is killed, but not the processes it started.
TimesOut(r) ==
  /\ Expires(r)
  /\ \E a \in {"killed", "orphan"} : agent' = [agent EXCEPT ![r] = a]
  /\ draft' = [draft EXCEPT ![r] = [status |-> "stalled", phase |-> "execution", outputs |-> {}]]
  /\ Goto(r, "log")
  /\ UNCHANGED <<files, scratch, pre, changed, gaps, ledger, pruner, history, how>>

WriteLog(r) ==
  /\ pc[r] = "log" /\ r \in dirs
  /\ Touch(r) /\ Add(r, "log")
  /\ Goto(r, IF draft[r].phase = "ran" THEN "missing" ELSE "record")
  /\ UNCHANGED <<files, runner, draft, ledger, pruner, history, how>>

FindMissing(r) ==
  /\ pc[r] = "missing"
  /\ gaps' = [gaps EXCEPT ![r] = [missing |-> Declared[r] \ files, stale |-> {}]]
  /\ Goto(r, "stale")
  /\ UNCHANGED <<files, scratch, agent, pre, changed, draft, ledger, pruner,
                 history, how>>

\* Present before and after, with the same modification time.
FindStale(r) ==
  /\ pc[r] = "stale"
  /\ gaps' = [gaps EXCEPT ![r] =
       [missing |-> @.missing, stale |-> (pre[r] \cap files) \ changed[r]]]
  /\ Goto(r, "produced")
  /\ UNCHANGED <<files, scratch, agent, pre, changed, draft, ledger, pruner,
                 history, how>>

\* mutant: a missing output is enough to fail, a stale one is not
OnlyMissing(r) == gaps[r].missing = {}
NoGap(r) == gaps[r].missing = {} /\ gaps[r].stale = {}

FindProduced(r) ==
  /\ pc[r] = "produced"
  /\ draft' = [draft EXCEPT ![r] =
       [status |-> IF @.status = "done" /\ NoGap(r) THEN "done" ELSE "failed",
        phase |-> "ran",
        outputs |-> (Declared[r] \cap files) \ gaps[r].stale]]
  /\ Goto(r, "record")
  /\ UNCHANGED <<files, scratch, runner, ledger, pruner, history, how>>

-----------------------------------------------------------------------------
(***************************************************************************)
(* An exception in the runner: its traceback becomes the run's log.        *)
(***************************************************************************)
RunnerRaises(r) ==
  /\ \/ pc[r] = "log" /\ r \notin dirs
     \/ Faults /\ pc[r] \in Running \ {"running"}
  /\ Goto(r, "traceDir")
  /\ UNCHANGED <<files, scratch, runner, draft, ledger, pruner, history, how>>

TraceDir(r) ==
  /\ pc[r] = "traceDir"
  /\ IF r \in dirs THEN UNCHANGED <<dirs, newer>> ELSE Touch(r)
  /\ Goto(r, "trace")
  /\ UNCHANGED <<files, entries, runner, draft, ledger, pruner, history, how>>

WriteTrace(r) ==
  /\ pc[r] = "trace" /\ r \in dirs
  /\ IF "log" \in entries[r] THEN UNCHANGED scratch ELSE Touch(r) /\ Add(r, "log")
  /\ RecordFailure(r, "execution")
  /\ UNCHANGED <<files, runner, ledger, pruner, history, how>>

\* The local variables of the run are gone.
Forget(r) ==
  /\ pre' = [pre EXCEPT ![r] = {}]
  /\ changed' = [changed EXCEPT ![r] = {}]
  /\ gaps' = [gaps EXCEPT ![r] = NoGaps]
  /\ draft' = [draft EXCEPT ![r] = NoRecord]

BeforeWorktree(r) == draft[r].phase = "preflight"

\* The body is left, by returning or by an exception nothing catches: what
\* remains is the `finally`, which prunes if there is a worktree to speak of.
Leave(r, outcome) ==
  /\ how' = [how EXCEPT ![r] = outcome]
  /\ Goto(r, IF BeforeWorktree(r) THEN "done" ELSE "scan")
  /\ Forget(r)

TraceFails(r) ==
  /\ \/ pc[r] = "trace" /\ r \notin dirs
     \/ Faults /\ pc[r] \in Tracing
  /\ Leave(r, "vanished")
  /\ UNCHANGED <<files, scratch, agent, ledger, pruner, history>>

\* The agent dies with the run or goes on by itself.
Survivor(r) == IF agent[r] = "running" THEN {"killed", "orphan"} ELSE {agent[r]}

\* KeyboardInterrupt; waiting for an agent, run() kills it on the way out.
Interrupt(r) ==
  /\ pc[r] \in Staging \cup Running \cup Tracing \cup Recording
  /\ Leave(r, "interrupted")
  /\ \E a \in Survivor(r) : agent' = [agent EXCEPT ![r] = a]
  /\ UNCHANGED <<files, scratch, ledger, pruner, history>>

-----------------------------------------------------------------------------
(***************************************************************************)
(* Store.record_run: a temporary file no reader looks at, then a rename.   *)
(***************************************************************************)
\* mutant: the record is written in place
WriteInPlace(r) == ledger' = [ledger EXCEPT ![r] = Torn]
WriteTemporary(r) == UNCHANGED ledger

WriteRecord(r) ==
  /\ pc[r] = "record"
  /\ WriteTemporary(r)
  /\ Goto(r, "replace")
  /\ UNCHANGED <<files, scratch, runner, draft, pruner, history, how>>

ReplaceRecord(r) ==
  /\ pc[r] = "replace"
  /\ ledger' = [ledger EXCEPT ![r] = draft[r]]
  /\ Leave(r, "recorded")
  /\ UNCHANGED <<files, scratch, agent, pruner, history>>

RecordFails(r) ==
  /\ Faults /\ pc[r] \in Recording
  /\ Leave(r, "vanished")
  /\ UNCHANGED <<files, scratch, agent, ledger, pruner, history>>

-----------------------------------------------------------------------------
(***************************************************************************)
(* prune_loop_worktrees: list the loop's worktrees, sort them by age,      *)
(* remove all but the newest, each entry by entry.  An OSError ends the    *)
(* pruning with a warning.                                                 *)
(***************************************************************************)
StopPruning(r, phase) ==
  /\ listed' = [listed EXCEPT ![r] = {}]
  /\ condemned' = [condemned EXCEPT ![r] = {}]
  /\ byAge' = [byAge EXCEPT ![r] = {}]
  /\ doomed' = [doomed EXCEPT ![r] = {}]
  /\ Goto(r, phase)

Siblings(r) == {q \in dirs : LoopOf[q] = LoopOf[r]}

Scan(r) ==
  /\ pc[r] = "scan"
  /\ listed' = [listed EXCEPT ![r] = Siblings(r)]
  /\ Goto(r, "sort")
  /\ UNCHANGED <<files, scratch, runner, draft, ledger, condemned, byAge, victim, doomed,
                 warned, history, how>>

Newer(q, S) == {p \in S : <<p, q>> \in newer}
\* mutant: one too few is kept
KeepOneFewer(S) == {q \in S : Cardinality(Newer(q, S)) + 1 >= KeepLast}
\* mutant: one too many is kept
KeepOneMore(S) == {q \in S : Cardinality(Newer(q, S)) > KeepLast}
\* children[keep_last:], sorted newest first
Excess(S) == {q \in S : Cardinality(Newer(q, S)) >= KeepLast}

\* The sort looks at every worktree it listed: one may be gone.
Sort(r) ==
  /\ pc[r] = "sort" /\ listed[r] \subseteq dirs
  /\ condemned' = [condemned EXCEPT ![r] = Excess(listed[r])]
  /\ byAge' = [byAge EXCEPT ![r] = newer \cap (Excess(listed[r]) \X Excess(listed[r]))]
  /\ listed' = [listed EXCEPT ![r] = {}]
  /\ Goto(r, "prune")
  /\ UNCHANGED <<files, scratch, runner, draft, ledger, victim, doomed, warned, history, how>>

\* The next to be removed.
Newest(r, q) == q \in condemned[r] /\ \A p \in condemned[r] : <<p, q>> \notin byAge[r]

\* shutil.rmtree opens the worktree and lists what is in it.
Open(r, q) ==
  /\ pc[r] = "prune" /\ Newest(r, q) /\ q \in dirs
  /\ victim' = [victim EXCEPT ![r] = {q}]
  /\ doomed' = [doomed EXCEPT ![r] = entries[q]]
  /\ Goto(r, "unlink")
  /\ UNCHANGED <<files, scratch, runner, draft, ledger, listed, condemned, byAge, warned,
                 history, how>>

\* It removes one entry, which makes what is left the newest of all; from Python 3.13 on it
\* passes over one that is gone.
Unlink(r, q, e) ==
  /\ pc[r] = "unlink" /\ q \in victim[r] /\ e \in doomed[r]
  /\ doomed' = [doomed EXCEPT ![r] = @ \ {e}]
  /\ IF q \in dirs /\ e \in entries[q]
     THEN Touch(q) /\ entries' = [entries EXCEPT ![q] = @ \ {e}]
     ELSE UNCHANGED scratch
  /\ UNCHANGED <<files, pc, runner, draft, ledger, listed, condemned, byAge, victim, warned,
                 history, how>>

\* The worktree itself; whoever else was taking it apart finds no more entries of it.
Rmdir(r, q) ==
  /\ pc[r] = "unlink" /\ q \in victim[r] /\ doomed[r] = {}
  /\ q \in dirs /\ entries[q] = {}
  /\ dirs' = dirs \ {q}
  /\ newer' = {p \in newer : p[1] # q /\ p[2] # q}
  /\ condemned' = [condemned EXCEPT ![r] = @ \ {q}]
  /\ byAge' = [byAge EXCEPT ![r] = {p \in @ : p[1] # q}]
  /\ victim' = [victim EXCEPT ![r] = {}]
  /\ doomed' = [p \in Run |-> IF q \in victim[p] THEN {} ELSE doomed[p]]
  /\ Goto(r, "prune")
  /\ UNCHANGED <<files, entries, runner, draft, ledger, listed, warned, history, how>>

\* What it removes next is gone, or is no longer empty when it should be.
Obstructed(r) ==
  \/ pc[r] = "prune" /\ \E q \in Run \ dirs : Newest(r, q)
  \/ /\ pc[r] = "unlink"
     /\ \E q \in victim[r] :
          \/ ~(doomed[r] \subseteq entries[q])
          \/ doomed[r] = {} /\ (q \notin dirs \/ entries[q] # {})

\* It may leave a worktree half removed.
PruneStops(r) ==
  /\ \/ pc[r] = "sort" /\ ~(listed[r] \subseteq dirs)
     \/ Obstructed(r)
     \/ Faults /\ pc[r] \in Pruning
  /\ warned' = warned \cup {r}
  /\ StopPruning(r, "done")
  /\ UNCHANGED <<files, scratch, runner, draft, ledger, victim, history, how>>

PruneDone(r) ==
  /\ pc[r] = "prune" /\ condemned[r] = {}
  /\ Goto(r, "done")
  /\ UNCHANGED <<files, scratch, runner, draft, ledger, pruner, history, how>>

\* The process is killed: its agent may live on.
Killed(r) ==
  /\ pc[r] \notin {"idle"} \cup Over
  /\ StopPruning(r, "dead") /\ Forget(r)
  /\ \E a \in Survivor(r) : agent' = [agent EXCEPT ![r] = a]
  /\ UNCHANGED <<files, scratch, ledger, victim, warned, history, how>>

-----------------------------------------------------------------------------
\* What the run does by itself, once invoked, in so far as nothing fails.
Advance(r) ==
  \/ MakeWorktree(r) \/ StageSkill(r) \/ StageConfig(r) \/ Prepare(r) \/ Spawn(r)
  \/ TimesOut(r) \/ WriteLog(r) \/ FindMissing(r) \/ FindStale(r)
  \/ FindProduced(r) \/ RunnerRaises(r) \/ TraceDir(r) \/ WriteTrace(r)
  \/ TraceFails(r) \/ SpawnFails(r) \/ WriteRecord(r) \/ ReplaceRecord(r)
  \/ Scan(r) \/ Sort(r) \/ PruneStops(r) \/ PruneDone(r)
  \/ \E q \in Run : Open(r, q) \/ Rmdir(r, q) \/ \E e \in Entry : Unlink(r, q, e)

Step(r) ==
  \/ Invoke(r) \/ Advance(r) \/ StagingFails(r) \/ AgentExits(r)
  \/ OutputUndecodable(r) \/ RecordFails(r) \/ Interrupt(r) \/ Killed(r)
  \/ \E f \in File : AgentWrites(r, f) \/ AgentDeletes(r, f)

Next == \E r \in Run : Step(r)

Spec == Init /\ [][Next]_vars
\* An agent may never exit, but the timeout of a budgeted run strikes; the rest is the process's
\* own sequence of system calls.  Other processes may stop for ever.
Fairness == \A r \in Budgeted : WF_vars(Advance(r))
FairSpec == Spec /\ Fairness
-----------------------------------------------------------------------------
(***************************************************************************)
(* Properties.                                                             *)
(***************************************************************************)
Recorded(r) == ledger[r] \in Record

\* A reader of the ledger finds no record of a run or the whole of it, and
\* what it has found once is never replaced (Store.record_run).
RecordedOnce ==
  \A r \in Run : ledger'[r] # ledger[r] => ledger[r] = NoRecord /\ ledger'[r] \in Record
RecordsAreFinal == [][RecordedOnce]_vars

\* A run whose agent exited records exactly the outputs that agent wrote, and
\* any other run records none; only about a file that some other agent wrote
\* or deleted in the meantime may it be wrong (BaseRunner.run).
ExactProvenance ==
  \A r \in Run : Recorded(r) =>
    IF ledger[r].phase = "ran"
    THEN ledger[r].outputs \ disturbed[r] = wrote[r] \ disturbed[r]
    ELSE ledger[r].outputs = {}

\* A run is recorded as done only if its agent exited by itself and wrote
\* every declared output, but for those that others interfered with.
DoneIsEarned ==
  \A r \in Run : Recorded(r) /\ ledger[r].status = "done" =>
    agent[r] = "exited" /\ Declared[r] \subseteq wrote[r] \cup disturbed[r]

\* When the runs of a loop are over, none was killed and no pruning stopped
\* early, no more than KeepLast of the loop's worktrees are left, however the
\* prunings interleaved (prune_loop_worktrees).
RetentionHolds ==
  \A s \in Run :
    LET runs == {r \in Run : LoopOf[r] = LoopOf[s]} IN
      (/\ pc[s] = "done" /\ Recorded(s) /\ ledger[s].phase # "preflight"
       /\ \A r \in runs \ Leftover : pc[r] \in {"idle", "done"} /\ r \notin warned)
      => Cardinality(runs \cap dirs) <= KeepLast

\* An attempt that was not interrupted or killed is in the history: "the
\* attempt must not vanish from history" (cli.py:439).
AttemptsInHistory ==
  \A r \in Run : pc[r] = "done" => Recorded(r) \/ how[r] = "interrupted"

\* An agent runs in a worktree that holds the loop's whole bundle, so that the
\* relative paths in it resolve (worktree.py:1-6).
AgentHasBundle ==
  \A r \in Run : agent[r] = "running" => Bundle \subseteq entries[r]

\* Every attempt with a runtime budget comes to an end, whatever its agent does.
AttemptsEnd == \A r \in Budgeted : pc[r] # "idle" ~> pc[r] \in Over
=============================================================================
