----------------------------- MODULE UnitDeploy -----------------------------
(***************************************************************************)
(* Deploying a fleet of loops onto one host: `loopctl apply [--install]`   *)
(* and `loopctl remove` (src/src/loopcraft/deploy.py, cli.py).             *)
(*                                                                         *)
(* One operation runs at a time.  It is a sequence of file writes and      *)
(* `systemctl` calls, each of which can fail, and the process can die      *)
(* between (or in the middle of) any two of them.  A phase that loops over *)
(* units is modelled by the set `todo` of units it has not treated yet;    *)
(* the code treats them in plan order, the model in any order.             *)
(***************************************************************************)
EXTENDS Naturals, FiniteSets

CONSTANTS
  Loop,      \* the loops of the fleet
  Version,   \* what a unit can be rendered to (one value per source revision)
  Initial,   \* what the unit directory holds to begin with
  MaxOps     \* bound: how many operations are started

Kind == {"service", "timer", "path"}
Unit == Loop \X Kind
Trigger == Loop \X {"timer", "path"}

(***************************************************************************)
(* The content of a unit file.  "absent": there is no file.  "foreign": a  *)
(* file without the managed marker.  "link" and "foreignlink": a symlink   *)
(* to a file with or without the marker.  "empty" and "partial": what a    *)
(* write that died leaves, before or after the marker (the first line).    *)
(***************************************************************************)
Torn == {"empty", "partial"}
Symlink == {"link", "foreignlink"}
Rendered == Version \cup {"absent"}
Content == Version \cup {"absent", "foreign"} \cup Symlink \cup Torn

ASSUME InitialAssumption == Initial \in [Unit -> Content \ Torn]
ASSUME VersionAssumption ==
  Version \cap ({"absent", "foreign", "nobackup"} \cup Symlink \cup Torn) = {}
ASSUME MaxOpsAssumption == MaxOps \in Nat

VARIABLES
  installed,  \* the systemd unit directory
  staged,     \* the staging directory in the memory tree
  enabled,    \* the triggers systemd has enabled and running
  pc,         \* the phase of the operation, "idle" between operations
  plan,       \* apply: what each unit is rendered to
  install,    \* apply: whether --install was given (and the plan is ok)
  todo,       \* units the current phase has still to treat
  backups,    \* install: prior content of each unit it has begun to write
  undo,       \* install: triggers this invocation enabled
  doomed,     \* remove: installed and staged units it decided to delete
  flawed,     \* whether a rollback or removal step has recorded a problem
  result,     \* how the last operation ended
  before,     \* history: the unit directory and enabled set as the operation began
  ops         \* operations started so far

vars == <<installed, staged, enabled, pc, plan, install, todo, backups, undo,
          doomed, flawed, result, before, ops>>

InstallPhase == {"write", "reload", "enable"}
RollbackPhase == {"undoDisable", "undoRestore", "undoReload"}
RemovePhase == {"disable", "unlink", "unstage"}
Phase == {"idle", "stage"} \cup InstallPhase \cup RollbackPhase \cup RemovePhase
Outcome == {"none", "staged", "installed", "rolledBack", "partial", "failed",
            "removed", "incomplete", "crashed"}

Planned == {u \in Unit : plan[u] # "absent"}
\* mutant: path units are forgotten
PlannedTimers == Planned \cap (Loop \X {"timer"})
PlannedTriggers == Planned \cap Trigger

\* The contents that carry no marker, so are not loopcraft's to delete.
Foreign == {"foreign", "foreignlink", "empty"}

\* mutant: the glob alone decides, the marker is not looked for
AnyFile(c) == c # "absent"
Managed(c) == c \in Version \cup {"link", "partial"}
UnitsOf(loops) == loops \X Kind

TypeOK ==
  /\ installed \in [Unit -> Content]
  /\ staged \in [Unit -> Content]
  /\ enabled \subseteq Trigger
  /\ pc \in Phase
  /\ plan \in [Unit -> Rendered]
  /\ install \in BOOLEAN
  /\ todo \subseteq Unit
  /\ backups \in [Unit -> Content \cup {"nobackup"}]
  /\ undo \subseteq Trigger
  /\ doomed \in [installed : SUBSET Unit, staged : SUBSET Unit]
  /\ flawed \in BOOLEAN
  /\ result \in Outcome
  /\ before \in [files : [Unit -> Content], enabled : SUBSET Trigger]
  /\ ops \in 0..MaxOps

NoPlan == [u \in Unit |-> "absent"]
NoBackups == [u \in Unit |-> "nobackup"]
NothingDoomed == [installed |-> {}, staged |-> {}]

Init ==
  /\ installed = Initial
  /\ staged = NoPlan
  /\ enabled \in SUBSET {t \in Trigger : Initial[t] # "absent"}
  /\ pc = "idle" /\ plan = NoPlan /\ install = FALSE /\ todo = {}
  /\ backups = NoBackups /\ undo = {} /\ doomed = NothingDoomed /\ flawed = FALSE
  /\ result = "none"
  /\ before = [files |-> installed, enabled |-> enabled]
  /\ ops = 0

(***************************************************************************)
(* The outcomes of the calls the code makes.                               *)
(***************************************************************************)

\* `systemctl enable --now t` exits nonzero or times out: the enablement link
\* may have been made before the start failed.
EnableAttempt(t) == {enabled, enabled \cup {t}}
\* `systemctl disable --now t` exits nonzero or times out.
DisableAttempt(t) == {enabled, enabled \ {t}}
\* write_text raised, or the process died in it: untouched, or truncated.
TornWrite(files, u) == {files} \cup {[files EXCEPT ![u] = c] : c \in Torn}

(***************************************************************************)
(* The end of an operation.  The local variables of the process are gone.  *)
(***************************************************************************)
Finish(outcome) ==
  /\ pc' = "idle" /\ result' = outcome
  /\ plan' = NoPlan /\ install' = FALSE /\ todo' = {} /\ backups' = NoBackups
  /\ undo' = {} /\ doomed' = NothingDoomed /\ flawed' = FALSE

\* A new operation begins: what it finds is remembered.
Begin ==
  /\ pc = "idle" /\ ops < MaxOps
  /\ ops' = ops + 1
  /\ result' = "none"
  /\ before' = [files |-> installed, enabled |-> enabled]

EnterPhase(phase, units) == pc' = phase /\ todo' = units
Treated(u) == todo' = todo \ {u}

-----------------------------------------------------------------------------
(***************************************************************************)
(* apply: stage every rendered unit, then install if asked to.  A plan     *)
(* that is not renderable, or not ok without --render-invalid, changes     *)
(* nothing; --install of a plan that is not ok stops after staging.        *)
(***************************************************************************)
Render(loops, trigger, v) ==
  [u \in Unit |-> IF u[1] \in loops /\ u[2] \in {"service", trigger[u[1]]}
                  THEN v ELSE "absent"]

\* What can be rendered of some loops, and of all.
PlansOf(loops, v) == {Render(loops, trigger, v) : trigger \in [loops -> {"timer", "path"}]}
AllPlans == UNION {PlansOf(loops, v) : loops \in SUBSET Loop, v \in Version}

StartApply ==
  /\ Begin
  /\ \E loops \in (SUBSET Loop) \ {{}}, v \in Version : plan' \in PlansOf(loops, v)
  /\ install' \in BOOLEAN
  /\ EnterPhase("stage", {u \in Unit : plan'[u] # "absent"})
  /\ UNCHANGED <<installed, staged, enabled, backups, undo, doomed, flawed>>

Stage(u) ==
  /\ pc = "stage" /\ u \in todo
  /\ staged' = [staged EXCEPT ![u] = plan[u]]
  /\ Treated(u)
  /\ UNCHANGED <<installed, enabled, pc, plan, install, backups, undo, doomed,
                 flawed, result, before, ops>>

\* write_units has no handler: an OSError ends the process.
StageFails(u) ==
  /\ pc = "stage" /\ u \in todo
  /\ staged' \in TornWrite(staged, u)
  /\ Finish("crashed")
  /\ UNCHANGED <<installed, enabled, before, ops>>

StageDone ==
  /\ pc = "stage" /\ todo = {}
  /\ \/ ~install /\ Finish("staged")
     \/ install /\ Finish("failed")      \* no systemctl on PATH
     \/ /\ install
        /\ EnterPhase("write", Planned)
        /\ UNCHANGED <<plan, install, backups, undo, doomed, flawed, result>>
  /\ UNCHANGED <<installed, staged, enabled, before, ops>>

-----------------------------------------------------------------------------
(***************************************************************************)
(* install_units: write every unit with a backup of what it replaces,      *)
(* reload, enable every trigger.  The first failure starts the rollback.   *)
(***************************************************************************)
\* mutant: no check for symlinks
NeverRefused(u) == FALSE
\* An existing symlink is not written through.
Refused(u) == installed[u] \in Symlink

\* mutant: the backup is taken after the write
BackupTooLate(u) == backups' = [backups EXCEPT ![u] = plan[u]]
\* The backup is recorded before the unit is written.
Backup(u) == backups' = [backups EXCEPT ![u] = installed[u]]

BeginRollback ==
  /\ EnterPhase("undoDisable", undo)
  /\ UNCHANGED <<undo, doomed, flawed, result, plan, install, before, ops>>

WriteUnit(u) ==
  /\ pc = "write" /\ u \in todo
  /\ ~Refused(u)
  /\ Backup(u)
  /\ installed' = [installed EXCEPT ![u] = plan[u]]
  /\ Treated(u)
  /\ UNCHANGED <<staged, enabled, pc, plan, install, undo, doomed, flawed,
                 result, before, ops>>

\* A symlink is refused; so is a unit directory that cannot be made or a unit
\* that cannot be read: nothing is recorded for this unit.
WriteRefused ==
  /\ pc = "write" /\ todo # {}
  /\ BeginRollback
  /\ UNCHANGED <<installed, staged, enabled, backups>>

\* mutant: a backup is recorded only once its unit has been written
WriteFailsUnrecorded(u) ==
  /\ pc = "write" /\ u \in todo
  /\ ~Refused(u)
  /\ installed' \in TornWrite(installed, u)
  /\ BeginRollback
  /\ UNCHANGED <<staged, enabled, backups, ops>>

\* The write itself raises OSError.
WriteFails(u) ==
  /\ pc = "write" /\ u \in todo
  /\ ~Refused(u)
  /\ Backup(u)
  /\ installed' \in TornWrite(installed, u)
  /\ BeginRollback
  /\ UNCHANGED <<staged, enabled>>

WriteDone ==
  /\ pc = "write" /\ todo = {}
  /\ EnterPhase("reload", {})
  /\ UNCHANGED <<installed, staged, enabled, plan, install, backups, undo,
                 doomed, flawed, result, before, ops>>

Reload ==
  /\ pc = "reload"
  /\ EnterPhase("enable", PlannedTriggers)
  /\ UNCHANGED <<installed, staged, enabled, plan, install, backups, undo,
                 doomed, flawed, result, before, ops>>

ReloadFails ==
  /\ pc = "reload"
  /\ BeginRollback
  /\ UNCHANGED <<installed, staged, enabled, backups>>

Enable(t) ==
  /\ pc = "enable" /\ t \in todo
  /\ enabled' = enabled \cup {t}
  /\ undo' = undo \cup {t}
  /\ Treated(t)
  /\ UNCHANGED <<installed, staged, pc, plan, install, backups, doomed, flawed,
                 result, before, ops>>

EnableFails(t) ==
  /\ pc = "enable" /\ t \in todo
  /\ enabled' \in EnableAttempt(t)
  /\ BeginRollback
  /\ UNCHANGED <<installed, staged, backups>>

EnableDone ==
  /\ pc = "enable" /\ todo = {}
  /\ Finish("installed")
  /\ UNCHANGED <<installed, staged, enabled, before, ops>>

-----------------------------------------------------------------------------
(***************************************************************************)
(* _rollback_install: disable what was enabled, restore what was written,  *)
(* reload; every step is tried whatever the others did.                    *)
(***************************************************************************)
\* mutant: units that were never written are restored too
EveryUnit == Unit
BackedUp == {u \in Unit : backups[u] # "nobackup"}
RollbackOutcome == IF flawed THEN "partial" ELSE "rolledBack"

\* mutant: a failing disable is not recorded
DisableFailsSilently(t) == enabled' \in DisableAttempt(t) /\ UNCHANGED flawed
DisableFails(t) == enabled' \in DisableAttempt(t) /\ flawed' = TRUE

UndoDisable(t) ==
  /\ pc = "undoDisable" /\ t \in todo
  /\ \/ enabled' = enabled \ {t} /\ UNCHANGED flawed
     \/ DisableFails(t)
  /\ Treated(t)
  /\ UNCHANGED <<installed, staged, pc, plan, install, backups, undo, doomed,
                 result, before, ops>>

UndoDisableDone ==
  /\ pc = "undoDisable" /\ todo = {}
  /\ EnterPhase("undoRestore", BackedUp)
  /\ UNCHANGED <<installed, staged, enabled, plan, install, backups, undo,
                 doomed, flawed, result, before, ops>>

\* An "absent" backup is restored by unlinking the unit.
Restore(u) ==
  /\ pc = "undoRestore" /\ u \in todo
  /\ installed' = [installed EXCEPT ![u] = backups[u]]
  /\ Treated(u)
  /\ UNCHANGED <<staged, enabled, pc, plan, install, backups, undo, doomed,
                 flawed, result, before, ops>>

\* mutant: a failing restore is tried again
RestoreRetries(u) ==
  /\ pc = "undoRestore" /\ u \in todo
  /\ IF backups[u] = "absent" THEN UNCHANGED installed
                              ELSE installed' \in TornWrite(installed, u)
  /\ flawed' = TRUE
  /\ UNCHANGED <<staged, enabled, pc, plan, install, todo, backups, undo, doomed,
                 result, before, ops>>

RestoreFails(u) ==
  /\ pc = "undoRestore" /\ u \in todo
  /\ IF backups[u] = "absent" THEN UNCHANGED installed
                              ELSE installed' \in TornWrite(installed, u)
  /\ flawed' = TRUE
  /\ Treated(u)
  /\ UNCHANGED <<staged, enabled, pc, plan, install, backups, undo, doomed,
                 result, before, ops>>

RestoreDone ==
  /\ pc = "undoRestore" /\ todo = {}
  /\ EnterPhase("undoReload", {})
  /\ UNCHANGED <<installed, staged, enabled, plan, install, backups, undo,
                 doomed, flawed, result, before, ops>>

UndoReload ==
  /\ pc = "undoReload"
  /\ Finish(RollbackOutcome) \/ Finish("partial")    \* the reload failed
  /\ UNCHANGED <<installed, staged, enabled, before, ops>>

-----------------------------------------------------------------------------
(***************************************************************************)
(* remove: what is deleted is decided from the files on disk before        *)
(* anything is touched; every step is tried whatever the others did.       *)
(***************************************************************************)
ManagedAmong(files, units) == {u \in units : Managed(files[u])}

\* `remove <loop>` or `remove --all`; with nothing to remove it stops at once.
StartRemove ==
  /\ Begin
  /\ \E loops \in {{l} : l \in Loop} \cup {Loop} :
       doomed' = [installed |-> ManagedAmong(installed, UnitsOf(loops)),
                  staged |-> ManagedAmong(staged, UnitsOf(loops))]
  /\ doomed' # NothingDoomed
  /\ \/ doomed'.installed # {} /\ flawed' = FALSE
        /\ EnterPhase("disable", doomed'.installed \cap Trigger)
     \/ flawed' = (doomed'.installed # {})    \* no systemctl on PATH
        /\ EnterPhase("unstage", doomed'.staged)
  /\ UNCHANGED <<installed, staged, enabled, plan, install, backups, undo>>

Disable(t) ==
  /\ pc = "disable" /\ t \in todo
  /\ \/ enabled' = enabled \ {t} /\ UNCHANGED flawed
     \/ DisableFails(t)
  /\ Treated(t)
  /\ UNCHANGED <<installed, staged, pc, plan, install, backups, undo, doomed,
                 result, before, ops>>

DisableDone ==
  /\ pc = "disable" /\ todo = {}
  /\ EnterPhase("unlink", doomed.installed)
  /\ UNCHANGED <<installed, staged, enabled, plan, install, backups, undo,
                 doomed, flawed, result, before, ops>>

Unlink(u) ==
  /\ pc = "unlink" /\ u \in todo
  /\ \/ installed' = [installed EXCEPT ![u] = "absent"] /\ UNCHANGED flawed
     \/ UNCHANGED installed /\ flawed' = TRUE
  /\ Treated(u)
  /\ UNCHANGED <<staged, enabled, pc, plan, install, backups, undo, doomed,
                 result, before, ops>>

\* The daemon-reload in between is not checked and changes nothing modelled.
UnlinkDone ==
  /\ pc = "unlink" /\ todo = {}
  /\ EnterPhase("unstage", doomed.staged)
  /\ UNCHANGED <<installed, staged, enabled, plan, install, backups, undo,
                 doomed, flawed, result, before, ops>>

Unstage(u) ==
  /\ pc = "unstage" /\ u \in todo
  /\ \/ staged' = [staged EXCEPT ![u] = "absent"] /\ UNCHANGED flawed
     \/ UNCHANGED staged /\ flawed' = TRUE
  /\ Treated(u)
  /\ UNCHANGED <<installed, enabled, pc, plan, install, backups, undo, doomed,
                 result, before, ops>>

UnstageDone ==
  /\ pc = "unstage" /\ todo = {}
  /\ Finish(IF flawed THEN "incomplete" ELSE "removed")
  /\ UNCHANGED <<installed, staged, enabled, before, ops>>

-----------------------------------------------------------------------------
(***************************************************************************)
(* The process dies, at any point.  A unit it was writing may be left      *)
(* truncated; a systemctl call it was waiting for may still take effect.   *)
(***************************************************************************)
Interrupt ==
  \/ /\ \E u \in todo :
          \/ pc = "write" /\ ~Refused(u) /\ installed' \in TornWrite(installed, u)
          \/ pc = "undoRestore" /\ backups[u] # "absent" /\ installed' \in TornWrite(installed, u)
     /\ UNCHANGED <<staged, enabled>>
  \/ /\ pc = "stage" /\ \E u \in todo : staged' \in TornWrite(staged, u)
     /\ UNCHANGED <<installed, enabled>>
  \/ /\ pc = "enable" /\ \E t \in todo \cap Trigger : enabled' \in EnableAttempt(t)
     /\ UNCHANGED <<installed, staged>>
  \/ /\ pc \in {"disable", "undoDisable"} /\ \E t \in todo : enabled' \in DisableAttempt(t)
     /\ UNCHANGED <<installed, staged>>

Crash ==
  /\ pc # "idle"
  /\ Interrupt \/ UNCHANGED <<installed, staged, enabled>>
  /\ Finish("crashed")
  /\ UNCHANGED <<before, ops>>

Step ==
  \/ \E u \in Unit : Stage(u) \/ StageFails(u) \/ WriteUnit(u) \/ WriteFails(u)
  \/ StageDone \/ WriteRefused \/ WriteDone \/ Reload \/ ReloadFails
  \/ \E t \in Trigger : Enable(t) \/ EnableFails(t)
  \/ EnableDone
  \/ \E t \in Trigger : UndoDisable(t)
  \/ \E u \in Unit : Restore(u) \/ RestoreFails(u)
  \/ UndoDisableDone \/ RestoreDone \/ UndoReload
  \/ \E t \in Trigger : Disable(t)
  \/ \E u \in Unit : Unlink(u) \/ Unstage(u)
  \/ DisableDone \/ UnlinkDone \/ UnstageDone

Next == StartApply \/ StartRemove \/ Step \/ Crash

Spec == Init /\ [][Next]_vars
\* Every systemctl call is bounded by a timeout and every phase by the plan, so
\* an operation that has not died goes on.
FairSpec == Spec /\ WF_vars(Step)

-----------------------------------------------------------------------------
(***************************************************************************)
(* Properties.                                                             *)
(***************************************************************************)

\* An install that reports rolled_back has put back every unit file as it found
\* it, whichever step failed and whatever it had written (install_units).
RollbackRestoresFiles ==
  result = "rolledBack" => installed = before.files

\* A removal that reports no problem has left none of the triggers whose file it
\* deleted enabled (uninstall_units).
RemovedIsDisarmed ==
  result = "removed" =>
    \A t \in Trigger : installed[t] # before.files[t] => t \notin enabled

\* An install that reports success ends with every unit of its plan in place and
\* every trigger of its plan enabled, also after earlier crashes and failures.
DeployedOnSuccess ==
  pc = "enable" /\ result' = "installed" =>
    /\ \A u \in Planned : installed'[u] = plan[u]
    /\ Planned \cap Trigger \subseteq enabled'
InstalledMeansDeployed == [][DeployedOnSuccess]_vars

\* No step of a removal changes a unit file that carries no managed marker, in
\* the unit directory or in the staging directory (plan_removal).
SparesForeign ==
  pc \in RemovePhase =>
    \A u \in Unit :
      /\ installed[u] \in Foreign => installed'[u] = installed[u]
      /\ staged[u] \in Foreign => staged'[u] = staged[u]
ForeignUnitsSurvive == [][SparesForeign]_vars

\* Neither an install nor its rollback ever writes through a symlinked unit; only
\* a removal may delete the link (the is_symlink check of install_units).
SparesSymlinks ==
  \A u \in Unit : installed[u] \in Symlink =>
    \/ installed'[u] = installed[u]
    \/ pc = "unlink" /\ installed'[u] = "absent"
SymlinksNeverWritten == [][SparesSymlinks]_vars

\* Seen between operations, apply and remove keep the promises of AtomicDeploy.
BetweenOperations(now, atStart) == IF pc = "idle" THEN now ELSE atStart
Atomic == INSTANCE AtomicDeploy WITH
  Plans <- AllPlans,
  Removable <- {c \in Content : Managed(c)},
  files <- BetweenOperations(installed, before.files),
  armed <- BetweenOperations(enabled, before.enabled),
  report <- result
ImplementsAtomicDeploy == Atomic!Spec

\* Every operation ends, whatever fails on the way.
OperationEnds == pc # "idle" ~> pc = "idle"

\* install_units' docstring: a failed install that rolled back "leaves the fleet
\* as it was"; here, no trigger that was enabled before has been disabled.
RollbackKeepsEnabled ==
  result = "rolledBack" => before.enabled \subseteq enabled
=============================================================================
