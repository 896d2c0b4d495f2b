# Loopcraft in TLA+

Loopcraft runs *loops*: unattended agent jobs, each declared by a YAML manifest, rendered into
systemd units by `loopctl apply`, and executed by `loopctl run`, which stages a scratch
worktree, hands the loop to a vendor's agent CLI, and records the attempt in a memory tree.
Two of the loops (X and arXiv intelligence) come with the code that fetches and ranks for them.
Paths below are relative to `src/src/loopcraft/` unless they name another directory.

## Inventory

| Component | State it keeps | Operations | Meets |
|---|---|---|---|
| Unit deployment (`deploy.py`, `cli.py`) | systemd unit directory, staging directory, enabled triggers | `apply [--install]`, `remove` | systemd, the plan |
| Deployment planning (`deploy.py`) | none | `plan_deployment`, `auth` | manifests, config, adapters' preflight |
| Fleet validation (`manifest.py`) | the manifests in the source tree | `load_all`, cycle check | planning, `validate` |
| Rendering (`scheduler.py`) | none | service, timer, path units; cron translation | systemd |
| Run lifecycle (`cli.py`, `runners/base.py`) | outputs in the ledger, the run log | `run` | staging, agent, history, pruning |
| Staging and pruning (`worktree.py`) | worktrees under `var/worktrees` | stage, prune | runs of the same loop |
| Run history (`store.py`) | one JSON record per run | `record_run`, `runs_for` | runs, `status`, `fleet` |
| Adapters and probes (`runners/`, `probes.py`) | none | preflight, command, probes | config, agents' CLIs |
| Configuration (`config.py`, `env.py`, `settings.py`, `paths.py`) | `loopcraft.toml`, `.env`, the environment file | load, path checks, environments | everything |
| X intelligence (`research_intel/x`, `jsonl.py`) | marks, post store, seen set, digests | run, follow discovery | X API, the loop's agent |
| arXiv intelligence (`research_intel/arxiv`) | paper store, seen set, digests | run | arXiv API |
| Read-only commands (`cli.py`, `cli_output.py`) | none | list, fleet, status, logs, vendor, ... | the stores above |

Components interact through the file system and systemd far more than by calls: `apply` leaves
units that start `run` later, in another environment; one loop's output is another's input and
its trigger; two runs of a loop share its outputs and its worktree directory.

What is hard in it:

* **Partial failure.** An install is a sequence of file writes and `systemctl` calls without a
  transaction; each can fail or time out half done, and so can each step of the rollback.
* **Interleaving.** Nothing keeps two runs of a loop apart (a timer and an operator). They prune
  each other's worktrees, entry by entry, and write the same outputs.
* **Crash.** X intelligence moves its marks before it saves its posts, and rewrites its files in
  place; a run can die anywhere.
* **Staleness.** `apply` judges, at one time and in the operator's shell, what a service will have
  at another time under systemd; and paths are compared in some places as they are spelled and
  in others by what they denote.
* **Liveness.** An agent that hangs, a chain of loops that wake each other for ever.

What makes each correct: an install that reports success or a clean rollback has done just that;
what is not loopcraft's is never touched; a run's record says exactly what its agent produced;
retention holds; an accepted fleet has one writer for each file and does not feed itself; what apply accepts is not
blocked later; no post is lost or reported twice but in ways that can be named. `PROJECT.json`
lists each hazard at its line and the properties that would catch it.

## Modules

| Module | Models | Run-time instances |
|---|---|---|
| `AtomicDeploy` | what an operator is promised by apply and remove, between operations | |
| `UnitDeploy` | the steps of apply, its rollback, and remove | `MCUnitDeploy` |
| `RunLifecycle` | `loopctl run` from preflight to pruning, with overlapping runs | `MCRunLifecycle` |
| `XIntel` | the run command of X intelligence | `MCXIntel` |
| `FleetTriggers` | accepted fleets, armed triggers, loops waking each other | `MCFleetTriggers` |
| `ApplyGate` | the environment `apply` predicts and the one a service has | `MCApplyGate` |
| `ArxivIntel` | the run command of arXiv intelligence, with overlapping runs | `MCArxivIntel` |
| `CronCalendar` | `cron_to_oncalendar` against what cron and systemd make of the two notations | `MCCronCalendar` |
| `Staging` | preflight's judgement of a loop's files and the staging of its bundle, with edits in between | `MCStaging` |
| `*Proofs` | theorems about the module before the suffix | |

The modules divide a deployment between them. `ApplyGate` decides the dependency half of a plan
and `FleetTriggers` the structural half; `UnitDeploy` starts from a plan and has every way in
which executing it can go; `RunLifecycle` starts where a service's preflight has answered. Each
states in its header what it leaves to which other. `Staging` is the inside of the step that
`RunLifecycle` takes to stage, and `CronCalendar` what `FleetTriggers` leaves of a timer. `UnitDeploy` implements `AtomicDeploy`
under a refinement mapping: between operations, its unit directory and enabled set; during one,
what they were when it began.

### State and actions against the code

**UnitDeploy.** `installed`, `staged` are the two directories by unit (loop and kind), with the
contents the code distinguishes: a rendering, a foreign file, a symlink, a truncated file.
`enabled` is systemd's. `plan`, `todo`, `backups`, `undo`, `doomed`, `flawed` are the local
variables of `install_units`, `_rollback_install`, `plan_removal` and `uninstall_units`. Each
loop of the code over units is a phase; each write or `systemctl` call is an action with a
failing counterpart (`WriteUnit`/`WriteFails`, `Enable`/`EnableFails`, ...). A failed write may
have truncated its file, a failed `systemctl` may have had its effect. `Crash` ends the process
anywhere, also inside a write or a call. Units of a phase are taken in any order.

**RunLifecycle.** Each run has a `pc` along `_run_execute` and `BaseRunner.run`; a step is what
happens between two points where another process can act, so the three passes over the outputs
(missing, stale, produced), the directory and the traceback, and listing and sorting
worktrees are separate steps. `shutil.rmtree` opens a worktree (`Open`), removes entry by entry of
what it held then (`Unlink`) and at last the directory (`Rmdir`); it may meet another pruning at
the same worktree, fail over that (`Obstructed`) or over nothing, and leave it half removed.
`entries` is what a worktree holds, in three parts: the skill, what is staged beside it, the log.
Modification times are two relations: which outputs changed since
a run's snapshot (`changed`), and which worktree is newer (`newer`). A worktree is modified when an
entry of it is made or removed, so one that is being removed becomes the newest of its
loop, and a pruning that sorts at this moment keeps it and condemns another. The agent is a process of
its own that may write and delete declared outputs; a timeout kills it but may leave what it
started (`orphan`). `Interrupt` is KeyboardInterrupt, `Killed` the death of the run.

**XIntel.** `highWater`, `saved`, `seen` are `source-state.json`, `posts.jsonl` and `seen.json`;
`torn` says which of them do not parse. A run goes through the five phases of
`_collect_raw_posts`; `page`, `batch`, `raw` are the posts of one request, of the phase, and of
the phases before. `FetchFails` is the `XApiError` handler of a phase. `Dies` leaves a JSON file
that was being written truncated; `DiesSaving` leaves a prefix of the line-based one.

**FleetTriggers.** A declared path is a file and a spelling. `Edges`, `SharedOutput`,
`UnknownUpstream`, `HasCycle` are `load_all`; `Watched` is `_watched_inputs`, which compares
spellings. An operator edits, applies and removes; systemd makes loops `due` when a timer
elapses or a watched file is written, and starts them with the manifest as it then is. The
history variables `dueTo` and `ranFor` follow which loops' writes led to a run.

**ApplyGate.** Environments are functions from the variables that matter to what is told apart
of their values (unset, empty, set, a vendor, a PATH). `Seen`, `ProbeEnv` and `Overlay` are
`scheduled_env_value`, `probe_env` and `load_dotenv`; `ServiceEnv` is what systemd makes of the
rendered unit, with its rule that an environment file overrides `Environment=`. `Apply`
evaluates the plan; `Fire` is a service's own preflight at any later time.

**ArxivIntel.** `papers`, `seen` and `torn` are `papers.jsonl`, `seen.json` and which of them do
not parse. A run is one call of the command; `stamp` is what names its files under `history/`, the
id of the loop run it belongs to, which several calls may share (`config.py:264-278`). `shelf` says
whose digest each digest file holds. Runs overlap: reading a file, opening it for writing (which empties
it) and closing it are separate steps, so that another run reads, or writes over, what is half
written; `mixed` marks the runs whose file another had open as well, which may end in pieces of both.
A run takes `--dry-run` or `--include-seen` or both. `Fetch` gives one page of the newest papers, or none after an
`ArxivApiError`. `Rank` chooses any few of the candidates, whatever the scores. `WriteDigest`
writes the six files one by one; what a run presented (`top`) stays known after its end. `Dies` ends
a run anywhere. Ghost sets name what each loss took from the ledger.

**CronCalendar.** An expression is a record of fields, a field a sequence of tokens, a token a
base (`*`, a value, a range) with or without a step. `Component` and `DowComponent` are the two
renderers with their refusals; `Elapses` is what systemd makes of the calendar, `Due` what cron
makes of the expression, both over the moments of a calendar (minute, hour, day, month, weekday).
`Loads` has systemd's rules for what a calendar may be: weeks that begin on Monday, stars that
stand alone, repetitions without an end that come round once before the field ends.
An operator edits the expression and applies; one that is refused, or whose install fails, leaves
the installed timer alone.

**Staging.** `tree` and `files` are the skill's directories and the list each holds, public and
`.local`, and the loop's content config; `Edit` changes one at any time. Every look whether a file
is there and every reading of it is a step of its own. Preflight finds the config's files, judges
what one of them holds and looks for the snapshot it refers to (`Preflight`, `FindConfig`,
`JudgeConfig`, `SeekSnapshot`); `content_assets` looks and reads again, and takes a file that went
in between for a config without a snapshot (`Resolve`, `ReadAssets`); the staging copies the
skill from a list of entries still to be copied (`CopyDir`, `CopyFile`, `CopyFails`), then the
manifest, the config and its sibling (`StageManifest`, `StageConfig`, `StageSibling`,
`CopySibling`), and reworks the copies: `ApplyLocalShadowing`, `ApplyEnvOverrides`, `StageExtras`.
`work` is the worktree. Symlinked directories may lead up, across and out.

## Runs

| Run | Shows | Bounds |
|---|---|---|
| `deploy_one_loop` | type invariant, truthful rollback, install and removal reports, foreign units and symlinks spared | one loop (3 units), 2 renderings, 3 operations, a foreign service and a linked path unit to begin with |
| `deploy_two_loops` | `ImplementsAtomicDeploy`, every operation ends | two loops, one operation from a deployed fleet |
| `deploy_rollback_enabled` | violation: a rolled-back install disarms what was armed before | as above |
| `run_overlap` | exact provenance, "done" is earned, records appear whole and stay | two runs of a loop, one shared output, faults on, retention 2 |
| `run_pruning` | retention, attempts reach the history, agents have their bundle, attempts end | three runs, one of them with a runtime budget, beside two leftover worktrees, retention 4, no faults of the disk; from the moment when two have written their records and are about to prune and the third, whose worktree is the oldest of the three, is staged |
| `run_vanishes` | violation: pruning by a second run makes a first one leave no record | two runs, retention 1 |
| `x_intel` | posts accounted for, digests backed, nothing reported twice, phases independent, ledger grows, runs end | three sources in two phases, 2 posts each, pages of one, 2 runs |
| `trigger_fleet` | no feedback, one writer, the fleet comes to rest | two loops, two files in two spellings, at most one input and one output each, 1 edit, 1 tick |
| `gate_apply` | what apply judged ready is not blocked, auth agrees with apply, the shell decides nothing | two loops, two vendors, two PATHs, six variables, 2 edits |
| `arxiv_intel` | what is seen is saved, and presented or accounted for; nothing presented twice; the latest digest is in history | two runs with any flags, of one stamp or two, two papers, one to a page, one to a digest |
| `cron_calendar` | an installed timer elapses exactly when a plain expression is due, and never when an expression is not | expressions with every kind of token in one field, steps that come round and that do not, pairs of day fields, clocks of few minutes, hours, days and months and whole weeks |
| `staging` | the agent finds what was effective, all of it, once; its config is usable | three trees of up to three directories with links, six pairs of a public and a local config, 2 edits |

Why these are enough. Deployment: units of a kind are alike, so one loop has every combination
of first, middle and last failing step; three operations let a crash be followed by a failing
and by a succeeding one. Runs: every two-party race over an output, a worktree or a pruning
needs two. To lose the worktree of a live run to one half removed takes three: one that removes, one
that sorts meanwhile, one that is alive. A retention of four is the least that three runs can
rely on (`Room`): with three, TLC finds the third run's agent without its bundle. `LateInit` is one
state that `Init` leads to; before it nothing has been pruned, and with the third worktree the oldest,
and the two prunings still at the start, it is the moment at which most can go wrong. `run_overlap` covers
all that comes before. Its retention keeps both worktrees; what a run meets that has lost its own is the
errors that the faults stand for. X: two sources
share a phase and one does not, a page of one makes two new posts overflow it, and a second run
meets what the first left. Triggers: two loops can form the shortest cycle, a spelling makes one
hide. Gate: one edit between apply and firing and one before.
ArXiv: a race over a file needs two runs, a second paper takes the first off a page of one, and what overlaps in one stamp or not is two stamps. Cron:
tokens are rendered one by one and fields apart from each other but for the two fields of days,
which are combined. Staging: two edits change a public file and its sibling, or a file and back. The theorems below
remove these bounds for every safety property.

Each `Max...` constant and `Last` bounds a counter by a guard; the theorems hold for any value
of them. Deadlock is not checked: operators and agents may stop for good.

### Fairness

* `UnitDeploy`: weak fairness of `Step`. An operation is one sequential process and every
  `systemctl` call has a timeout (`deploy.py:668-683`); none of its starts nor `Crash` is fair.
* `RunLifecycle`: weak fairness of the own next step of each run in `Budgeted`, the timeout among them
  (`runners/base.py:200-215`): `budget.max_runtime` is optional, and
  `AttemptsEnd` is promised only where it is set. Agents and all other runs are not fair: they need never write,
  exit or finish a pruning.
* `XIntel`: weak fairness of what the run does by itself, dying excluded; every request has a timeout and
  three attempts (`research_intel/x/client.py:199-208`). Only the pages of followed accounts
  (`client.py:142-153`) have no bound in the code: `RunEnds` assumes that the service ends its list.
* `FleetTriggers`: a due service is started by systemd, and a run ends: all loops in
  `src/loops/` set a runtime budget; one without would void `CascadeEnds`.
  Ticks and writes from outside are not fair.

`ApplyGate`, `ArxivIntel`, `CronCalendar` and `Staging` state no liveness and assume no fairness.

## Disagreements between the code and what it says

* `deploy.py:507`: a rollback disables every trigger the failed install enabled, also the ones
  that were enabled before it (`RollbackKeepsEnabled`).
* `cli.py:441`: the handler by which "the attempt must not vanish from history" writes a
  traceback into a worktree that a concurrent pruning may have removed since
  (`AttemptsInHistory`, with a retention of one).
* `research_intel/x/cli.py:250`: a phase catches the error of any of its sources as a whole, so
  the sources after it are not asked and what came before is dropped although marked, where its
  docstring has every source fetched independently. `PhasesIndependent` is stated for
  the sources of other phases, and `Accounted` names what is dropped.
* `scheduler.py:426`: `_watched_inputs` compares spellings where everything else compares files,
  so that a loop can watch what it writes; `CascadeEnds` excludes such a loop, `NoFeedback` does
  not need to, because it is about what loops do to each other.
* `scheduler.py:303-309`: `EnvironmentFile=` overrides `Environment=` in systemd wherever it
  stands, so managed values do not win. That rule is systemd's, modelled
  from its manual as external; `GateHolds` is stated for services that keep the PATH of their unit.
* `scheduler.py:226-262`: `cron_to_oncalendar` is to raise "for anything it cannot faithfully
  translate" (229-232) and does not for five kinds of expression. Restricted days of both kinds
  are either in cron and both in `OnCalendar`. A range of weekdays from Sunday on (`0-4`) becomes
  `Sun..Thu`, which systemd refuses, and `0-7` becomes Sundays alone. A list with `*` among its
  members becomes a component no calendar has. A step that never comes round, `*/24` among hours
  or `50/15` among minutes, means its first value alone in cron and becomes a repetition
  (`00/24`) that systemd refuses. `a/n` becomes every n-th value from a on, which
  some crons read as a alone. `FiresAsCron` excludes the first four; the fifth is read as
  `scheduler.py` does. Where systemd refuses the calendar the install fails and is rolled back.
* `research_intel/arxiv/client.py:35-36`: `ArxivApiError` is to cover an unusable response, but a
  feed that does not parse and a timeout while reading escape it and end the run (`Dies`).
* `skills/arxiv-intelligence-reporting/verify.md:10-12`: the files under `history/` are "run-scoped
  archives, so prior digests are preserved rather than overwritten", and line 19 speaks of a rerun. A
  rerun within the same loop run has the same stamp and writes the first digest over
  (`store.py:68-70`); if it dies before the latest files, these hold a digest that history keeps no
  more. `SeenIsAccounted` and `LatestInHistory` name such runs (`Shared`).
* `runners/capabilities.py:219-223`: `content_assets` takes any error for a config that refers to
  nothing, because "preflight separately reports those as problems" (212-213); a `.local` file
  that goes between its look and its read is reported by nobody, and the agent starts without the snapshot that the public file refers to.
  `ConfigUsable` counts every edit from that look on as one that can have this effect.
* `worktree.py:145-157`: the name that a `.local` file takes is found by another rule than
  `settings.py:64-71` finds the local file of a public one; they differ for names without a
  suffix and for `x.local.local`. No asset of the repository is named so, and `Staging` has none.

The properties of the passing runs are stated around these: `CascadeEnds` for fleets in which no
loop watches its own output, `GateHolds` for services that keep the PATH of their unit and their
vendor, `AttemptsInHistory` and `AgentHasBundle` with a retention that covers the overlapping
runs and the worktrees they may have half removed, `PhasesIndependent` by phase.

## Theorems

The theorems hold for every value of the constants that satisfies the named
assumptions, from nothing else; the bounds on work, and `CycleIsASimpleCycle`, are about finitely
many loops or sources. Each follows from an inductive invariant: the properties are not
inductive by themselves, because what a state promises depends on where in an operation it is.

* **UnitDeployProofs.** `Inv` conjoins one invariant for each concern. `RollbackInv` says, per
  phase, that a unit is either as it was found or has a true backup, which is what makes
  `RollbackSafe`; `RemovalInv` that doomed triggers of finished phases are disarmed unless a
  flaw is recorded (`RemovalSafe`); `DoomedInv` that what is doomed was managed and has not
  changed since (`ForeignSafe`); `SymlinkInv` that no unit with a backup is a symlink,
  nor its backup one (`SymlinksSafe`); `DeployInv` that units no longer to do are in place (`InstallSafe`).
  `PromiseInv` adds what the refinement needs: which triggers an apply has armed or disarmed
  (`TriggersInv`), that it records its plan and nothing else before it writes (`WrittenInv`), and what a removal
  has deleted (`DeletedInv`). From it each step of `UnitDeploy` is a step of `AtomicDeploy` or a
  stutter: only the last step of an operation changes what is seen (`AtomicSafe`).
  `OperationIsBounded`: each step treats a unit or goes on to a later phase, so that `Work` shrinks.
* **RunLifecycleProofs.** `RunInv` speaks about one run, in the presence of all others: what its
  agent state can be in each phase, that within the window a change its agent made is in
  `changed` and any other's in `disturbed`, and that the gaps found so far and the
  draft are right up to `disturbed`. It gives `ProvenanceSafe` and `DoneSafe`; `RecordsSafe` follows from what
  a recording run may find in the ledger. `RetentionInv`: while a loop has more worktrees than
  `KeepLast`, one of its runs is still to prune, or has listed every one of them, or has condemned all
  but `KeepLast` (`KeptBound`: in a total order no more than `KeepLast` have fewer before them, by an
  injection into an interval). So no interleaving of prunings leaves too many (`RetentionSafe`).
  `BundleSafe` and, with no failing file operation, `HistorySafe` need the assumption `Room`, that twice a loop's
  runs, less two, are no more than the worktrees it keeps. Then pruning only ever condemns leftovers and runs that came to
  prune themselves (`SpareInv`): a leftover can be younger than a run only if some run took it apart
  (`AgeInv`), each run is behind at most one such at a time (`VictimInv`), and neither the run that sorts nor one still at
  work is, so that with the runs themselves too few are newer than a live one for it to be in excess
  (`NeverInExcess`). `run_vanishes` shows that an assumption is needed. `AttemptIsBounded`: `Work` of a run shrinks with
  its own steps and grows with nobody's; `SortedInv` (a pruning's order has no circles) gives the next
  worktree to remove.
* **XIntelProofs.** `HandsInv` (whose posts a run holds where), `MarksInv` (every marked post is
  saved, held, cut or dropped), `FilesInv` (what each file written so far makes true) and
  `PhasesInv` together give the five invariants; `LedgerOnlyGrows` needs that a mark never passes
  what a page holds. `RunIsBounded`: `Work` shrinks, and a page has a newest post by a least element.
  `RuinIsForGood`: while any file of the ledger is in pieces no real digest is reached (`FilesInv`).
* **FleetTriggersProofs.** `ChainsAreEdges`: in a coherent deployment each cause of a loop has an
  edge to another cause or to the loop itself. A loop among its own causes would close a set of
  loops each with a successor in it, which the cycle check excludes (`NoFeedbackSafe`). `CycleIsASimpleCycle`
  shows that this is what `nx.simple_cycles` looks for: a first place where an endless walk is again where it
  was (`WalkMeetsItself`, by the pigeonhole principle). `CascadesRunDown`: a least set of loops that wake each other
  leaves one woken by no loop alive; its turns run out, and then fewer loops are alive.
* **ApplyGateProofs.** `GateInv`: while the surroundings are kept every loop passes its preflight
  in the environment the installed units point to. `FileValuesReachTheService` carries this to the service's process:
  what the environment file sets, nothing overlays (`GateSafe`).
* **ArxivIntelProofs.** `HandsInv` says how far each run is; that the store, with what is about to
  be written and what was lost, only grows (`KeptGrows`), and that a paper once accounted for stays so
  (`KnownGrows`), carry `SavedInv` and `KnownInv` over the steps of any other run. `AloneInv` (what a
  run without others read is what the file holds) gives the halves about runs that do not
  overlap, and `NotedInv` (what a real digest presented is noted, or the note was lost) `ReportedOnce`.
  `HistoryInv`: only a run that wrote its files under `history/` gets to the latest ones, and only one with
  the same stamp can have written them over since, or have had them open at the same time
  (`LatestKeptInHistory`; with `KnownInv`, `SeenAccounted`). `RunIsBounded`: no read or write is tried
  again. `RuinIsForGood`: a file that a death or two writers left in pieces stays so, since a run
  opens a file only after having parsed it.
* **CronCalendarProofs.** Each numeric token covers, as a component, the values cron picks; each
  weekday range that does not begin on Sunday covers, by names, the days cron picks; what is plain
  loads, the steps that come round among it. Both theorems put the fields together, for any bounds of the fields.
* **StagingProofs.** `PlaceInv`: before the sibling is staged nothing local stands in the config's
  place. `CopyInv` follows the config's copy stage by stage: the sibling if it is staged, else the public file,
  is what shadowing leaves, and no override touches it (`ConfigIsUsable`). `StagedInv` follows the whole
  skill: every place that is walked to is, or was, an entry, or lies behind a listed directory
  (`CoverInv`); no two entries are on one way (`QueueInv`), so that nothing is copied twice (`OnceInv`); and what
  each copy says was effective when it was listed (`PendingInv`, `TextInv`). At the end no entry is left,
  which is `StagedIsEffective`. `CopyingEnds`: the places still ahead are finitely many, because a walk
  that comes back to a directory is not followed, and each step leaves fewer.

### What stays with TLC

The liveness properties (`OperationEnds`, `AttemptsEnd`, `RunEnds`, `CascadeEnds`): fairness and
`ENABLED` are out of the prover's reach. The theorems that bound the work prove the other
part of each argument for every value of the constants: what shrinks with every step, and that
what the next step needs is there. What the prover does not see is that such a step
is therefore enabled and that weak fairness takes it. That `networkx` finds the cycles there are is
assumed.

The provers and TLC read `SUBSET S \ T` differently; the modules write `(SUBSET S) \ T`, which both
read alike.

## Not modelled, and why

Ranking, digests and follow discovery compute text and scores from one batch and keep no state;
`ArxivIntel` lets the ranking choose anything. Read-only commands change nothing. Prompts, command
lines, quoting and wording of units carry no property here. The typed models of the
configurations appear as a condition on their text.

* `UnitDeploy`: operations do not overlap (nothing locks the directories, and nothing is promised
  of two applies at once), and a removal is planned in one step that does not fail; a unit file
  that is not UTF-8 would end it with a traceback (`deploy.py:550`).
* `ApplyGate`: the base variables a probe inherits (`HOME`, `USER`, locale) and
  `LOOPCRAFT_SOURCE`/`LOOPCRAFT_MEMORY`.
* `RunLifecycle`: an agent that makes or removes entries in its own worktree, which would make it
  younger, and the directories below an entry, which is removed in one step. A run of the past
  (`Leftover`) has left its worktree and neither prunes nor has a process alive. The files of a
  skill are staged in one step, and the sort reads the times of all worktrees in one.
* `XIntel`: the list of followed accounts is read whole, in one step, however many pages it has. Runs do
  not overlap. Its files are merged and rewritten by the same functions as those
  of arXiv intelligence, for which `ArxivIntel` says what overlapping runs lose.
* `CronCalendar`: names of months and weekdays (only weekdays have them, by a table), zero padding,
  and what `Persistent=true` makes up for after the machine was off.
* `Staging`: how entries of a directory are sorted, assets other than a list per directory, two
  links to one directory within the same parent, and a removal of the skill directory itself.
  `BundleIsEffective` makes no claim of an asset whose public and local file were both edited
  while it was staged: the two are read one after the other.

## Plan

Order of work, the most important behaviour first; all but the last are done.

1. `UnitDeploy` with `AtomicDeploy`: failing and dying deployments.
2. `RunLifecycle`: overlapping runs, provenance, pruning, history.
3. `XIntel`: marks against saved posts over failures and deaths.
4. `FleetTriggers`: validation against the cascades it is to prevent.
5. `ApplyGate`: the predicted environment against the real one.
6. `ArxivIntel`: what overlapping runs and deaths cost the ledger.
7. `CronCalendar`: translated expressions against the moments of cron.
8. `Staging`: judged against staged files, with edits in between.
9. `UnitDeploy` implements `AtomicDeploy` as a theorem: initial states map to initial states and
   each action to a step or a stutter, from `Inv`.
10. `RetentionHolds`, with cardinalities, as a theorem, then `AttemptsInHistory`, `AgentHasBundle`.
11. `BundleIsEffective` as a theorem, and what liveness rests on: the work of an operation, an
   attempt, a run and a cascade is bounded.
12. Concurrent operations on units: which promises of `AtomicDeploy` survive two processes.
