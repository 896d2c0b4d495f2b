-------------------------- MODULE UnitDeployProofs --------------------------
(***************************************************************************)
(* Proofs about UnitDeploy, for every fleet, every set of renderings,      *)
(* every initial unit directory and any number of operations.              *)
(***************************************************************************)
EXTENDS UnitDeploy, FiniteSetTheorems, TLAPS

Recorded(u) == backups[u] # "nobackup"

(***************************************************************************)
(* What each phase of an install knows about the files.  Until the         *)
(* rollback restores, a unit is as it was found or has a true backup;      *)
(* while it restores, that holds of the units still to do, and the others  *)
(* are as they were found unless a failure has been recorded.              *)
(***************************************************************************)
RollbackInv ==
  /\ pc \in {"idle", "stage"} \cup RemovePhase => \A u \in Unit : ~Recorded(u)
  /\ pc = "stage" => installed = before.files
  /\ pc = "write" => \A u \in todo : ~Recorded(u)
  /\ pc \in InstallPhase \cup {"undoDisable"} =>
       \A u \in Unit : before.files[u] = IF Recorded(u) THEN backups[u] ELSE installed[u]
  /\ pc = "undoRestore" =>
       /\ \A u \in todo : Recorded(u)
       /\ flawed \/ \A u \in Unit :
            before.files[u] = IF u \in todo THEN backups[u] ELSE installed[u]
  /\ pc = "undoReload" => flawed \/ installed = before.files
  /\ result = "rolledBack" => pc = "idle" /\ installed = before.files

(***************************************************************************)
(* What each phase of a removal knows: a trigger it is to delete has been  *)
(* disabled, or will be, or a failure has been recorded.                   *)
(***************************************************************************)
DeletedIsDisarmed ==
  \A t \in Trigger : installed[t] # before.files[t] => t \notin enabled

RemovalInv ==
  /\ pc = "disable" =>
       /\ installed = before.files
       /\ flawed \/ \A t \in doomed.installed \cap Trigger : t \in todo \/ t \notin enabled
  /\ pc = "unlink" =>
       /\ todo \subseteq doomed.installed
       /\ \A u \in Unit \ doomed.installed : installed[u] = before.files[u]
       /\ flawed \/ \A t \in doomed.installed \cap Trigger : t \notin enabled
  /\ pc = "unstage" => flawed \/ DeletedIsDisarmed
  /\ result = "removed" => pc = "idle" /\ DeletedIsDisarmed

\* A removal only has managed units left to delete.
DoomedInv ==
  /\ pc = "disable" => \A u \in doomed.installed : Managed(installed[u])
  /\ pc = "unlink" => \A u \in todo : Managed(installed[u])
  /\ pc \in {"disable", "unlink"} => \A u \in doomed.staged : Managed(staged[u])
  /\ pc = "unstage" => \A u \in todo : Managed(staged[u])

\* An install has recorded no symlink, and none has taken the place of a unit.
SymlinkInv ==
  \A u \in Unit : Recorded(u) => installed[u] \notin Symlink /\ backups[u] \notin Symlink

\* What an install has done so far of its plan.
DeployInv ==
  /\ pc = "write" => \A u \in Planned : u \in todo \/ installed[u] = plan[u]
  /\ pc \in {"reload", "enable"} => \A u \in Planned : installed[u] = plan[u]
  /\ pc = "enable" => \A t \in PlannedTriggers : t \in todo \/ t \in enabled
  /\ pc # "idle" => result = "none"

-----------------------------------------------------------------------------
(***************************************************************************)
(* Type correctness.                                                       *)
(***************************************************************************)
LEMMA TriggerIsUnit == Trigger \subseteq Unit
BY DEF Trigger, Unit, Kind

LEMMA RenderType ==
  ASSUME NEW loops \in SUBSET Loop, NEW v \in Version, NEW trigger
  PROVE  Render(loops, trigger, v) \in [Unit -> Rendered]
BY DEF Render, Rendered

LEMMA TornWriteType ==
  ASSUME NEW files \in [Unit -> Content], NEW u \in Unit, NEW after \in TornWrite(files, u)
  PROVE  after \in [Unit -> Content]
BY DEF TornWrite, Torn, Content

LEMMA FinishType ==
  ASSUME NEW outcome \in Outcome, Finish(outcome)
  PROVE  /\ pc' \in Phase /\ plan' \in [Unit -> Rendered] /\ install' \in BOOLEAN
         /\ todo' \subseteq Unit /\ backups' \in [Unit -> Content \cup {"nobackup"}]
         /\ undo' \subseteq Trigger /\ flawed' \in BOOLEAN /\ result' \in Outcome
         /\ doomed' \in [installed : SUBSET Unit, staged : SUBSET Unit]
BY DEF Finish, Phase, NoPlan, Rendered, NoBackups, NothingDoomed

LEMMA BeginType ==
  ASSUME TypeOK, Begin
  PROVE  /\ ops' \in 0..MaxOps /\ result' \in Outcome
         /\ before' \in [files : [Unit -> Content], enabled : SUBSET Trigger]
BY MaxOpsAssumption DEF TypeOK, Begin, Outcome

LEMMA BeginRollbackType ==
  ASSUME TypeOK, BeginRollback
  PROVE  pc' \in Phase /\ todo' \subseteq Unit
BY TriggerIsUnit DEF TypeOK, BeginRollback, EnterPhase, Phase, RollbackPhase

LEMMA InitType == Init => TypeOK
<1> SUFFICES ASSUME Init PROVE TypeOK
  OBVIOUS
<1>1. installed \in [Unit -> Content]
  BY InitialAssumption DEF Init
<1>2. enabled \subseteq Trigger
  BY DEF Init
<1>3. before \in [files : [Unit -> Content], enabled : SUBSET Trigger]
  BY <1>1, <1>2 DEF Init
<1>4. staged \in [Unit -> Content] /\ plan \in [Unit -> Rendered]
  BY DEF Init, NoPlan, Content, Rendered
<1>5. backups \in [Unit -> Content \cup {"nobackup"}]
  BY DEF Init, NoBackups
<1>6. doomed \in [installed : SUBSET Unit, staged : SUBSET Unit]
  BY DEF Init, NothingDoomed
<1>7. pc \in Phase /\ todo \subseteq Unit /\ undo \subseteq Trigger /\ result \in Outcome
  BY DEF Init, Phase, Outcome
<1>8. install \in BOOLEAN /\ flawed \in BOOLEAN
  BY DEF Init
<1>9. ops \in 0..MaxOps
  BY MaxOpsAssumption DEF Init
<1> QED
  BY <1>1, <1>2, <1>3, <1>4, <1>5, <1>6, <1>7, <1>8, <1>9 DEF TypeOK

LEMMA StepType == TypeOK /\ RollbackInv /\ [Next]_vars => TypeOK'
<1> SUFFICES ASSUME TypeOK, RollbackInv, [Next]_vars
             PROVE  TypeOK'
  OBVIOUS
<1> USE DEF TypeOK
<1>1. CASE StartApply
  <2>1. PICK loops \in (SUBSET Loop) \ {{}}, v \in Version : plan' \in PlansOf(loops, v)
    BY <1>1 DEF StartApply
  <2>2. PICK trigger \in [loops -> {"timer", "path"}] : plan' = Render(loops, trigger, v)
    BY <2>1 DEF PlansOf
  <2>3. plan' \in [Unit -> Rendered]
    BY <2>2, RenderType
  <2> QED
    BY <1>1, <2>3, BeginType DEF StartApply, EnterPhase, Phase
<1>2. CASE StartRemove
  <2>1. doomed' \in [installed : SUBSET Unit, staged : SUBSET Unit]
    BY <1>2 DEF StartRemove, ManagedAmong, UnitsOf, Unit
  <2>2. pc' \in Phase /\ todo' \subseteq Unit /\ flawed' \in BOOLEAN
    BY <1>2, <2>1 DEF StartRemove, EnterPhase, Phase, RemovePhase
  <2> QED
    BY <1>2, <2>1, <2>2, BeginType DEF StartRemove
<1>3. ASSUME NEW u \in Unit, Stage(u) PROVE TypeOK'
  BY <1>3 DEF Stage, Treated, Content, Rendered
<1>4. ASSUME NEW u \in Unit, StageFails(u) PROVE TypeOK'
  BY <1>4, FinishType, TornWriteType DEF StageFails, Outcome
<1>5. CASE StageDone
  BY <1>5, FinishType DEF StageDone, EnterPhase, Planned, Phase, InstallPhase, Outcome
<1>6. ASSUME NEW u \in Unit, WriteUnit(u) PROVE TypeOK'
  BY <1>6 DEF WriteUnit, Treated, Backup, Content, Rendered
<1>7. CASE WriteRefused
  BY <1>7, BeginRollbackType DEF WriteRefused, BeginRollback
<1>8. ASSUME NEW u \in Unit, WriteFails(u) PROVE TypeOK'
  BY <1>8, TornWriteType, BeginRollbackType DEF WriteFails, Backup, BeginRollback
<1>9. CASE WriteDone
  BY <1>9 DEF WriteDone, EnterPhase, Phase, InstallPhase
<1>10. CASE Reload
  BY <1>10 DEF Reload, EnterPhase, PlannedTriggers, Planned, Phase, InstallPhase
<1>11. CASE ReloadFails
  BY <1>11, BeginRollbackType DEF ReloadFails, BeginRollback
<1>12. ASSUME NEW t \in Trigger, Enable(t) PROVE TypeOK'
  BY <1>12 DEF Enable, Treated
<1>13. ASSUME NEW t \in Trigger, EnableFails(t) PROVE TypeOK'
  BY <1>13, BeginRollbackType DEF EnableFails, EnableAttempt, BeginRollback
<1>14. CASE EnableDone
  BY <1>14, FinishType DEF EnableDone, Outcome
<1>15. ASSUME NEW t \in Trigger, UndoDisable(t) PROVE TypeOK'
  BY <1>15 DEF UndoDisable, DisableFails, DisableAttempt, Treated
<1>16. CASE UndoDisableDone
  BY <1>16 DEF UndoDisableDone, EnterPhase, BackedUp, Phase, RollbackPhase
<1>17. ASSUME NEW u \in Unit, Restore(u) PROVE TypeOK'
  BY <1>17 DEF Restore, Treated, RollbackInv, Recorded
<1>18. ASSUME NEW u \in Unit, RestoreFails(u) PROVE TypeOK'
  BY <1>18, TornWriteType DEF RestoreFails, Treated
<1>19. CASE RestoreDone
  BY <1>19 DEF RestoreDone, EnterPhase, Phase, RollbackPhase
<1>20. CASE UndoReload
  BY <1>20, FinishType DEF UndoReload, RollbackOutcome, Outcome
<1>21. ASSUME NEW t \in Trigger, Disable(t) PROVE TypeOK'
  BY <1>21 DEF Disable, DisableFails, DisableAttempt, Treated
<1>22. CASE DisableDone
  BY <1>22 DEF DisableDone, EnterPhase, Phase, RemovePhase
<1>23. ASSUME NEW u \in Unit, Unlink(u) PROVE TypeOK'
  BY <1>23 DEF Unlink, Treated, Content
<1>24. CASE UnlinkDone
  BY <1>24 DEF UnlinkDone, EnterPhase, Phase, RemovePhase
<1>25. ASSUME NEW u \in Unit, Unstage(u) PROVE TypeOK'
  BY <1>25 DEF Unstage, Treated, Content
<1>26. CASE UnstageDone
  BY <1>26, FinishType DEF UnstageDone, Outcome
<1>27. CASE Crash
  <2>1. /\ installed' \in [Unit -> Content] /\ staged' \in [Unit -> Content]
        /\ enabled' \subseteq Trigger
    BY <1>27, TornWriteType DEF Crash, Interrupt, EnableAttempt, DisableAttempt
  <2> QED
    BY <1>27, <2>1, FinishType DEF Crash, Outcome
<1>28. CASE UNCHANGED vars
  BY <1>28 DEF vars
<1> QED
  BY <1>1, <1>2, <1>3, <1>4, <1>5, <1>6, <1>7, <1>8, <1>9, <1>10, <1>11, <1>12, <1>13,
     <1>14, <1>15, <1>16, <1>17, <1>18, <1>19, <1>20, <1>21, <1>22, <1>23, <1>24,
     <1>25, <1>26, <1>27, <1>28 DEF Next, Step
-----------------------------------------------------------------------------
(***************************************************************************)
(* The rollback.                                                           *)
(***************************************************************************)
LEMMA StepRollback ==
  ASSUME TypeOK, RollbackInv, [Next]_vars
  PROVE  RollbackInv'
<1> USE DEF TypeOK, RollbackInv, Recorded, InstallPhase, RollbackPhase, RemovePhase
<1>1. CASE StartApply
  BY <1>1 DEF StartApply, Begin, EnterPhase
<1>2. CASE StartRemove
  BY <1>2 DEF StartRemove, Begin, EnterPhase
<1>3. ASSUME NEW u \in Unit, Stage(u) PROVE RollbackInv'
  BY <1>3 DEF Stage, Treated
<1>4. ASSUME NEW u \in Unit, StageFails(u) PROVE RollbackInv'
  BY <1>4 DEF StageFails, Finish, NoBackups
<1>5. CASE StageDone
  <2>1. CASE install /\ pc' = "write"
    BY <1>5, <2>1 DEF StageDone, EnterPhase, Finish, Planned
  <2>2. CASE Finish("staged") \/ Finish("failed")
    BY <2>2, <1>5 DEF StageDone, Finish, NoBackups
  <2> QED
    BY <1>5, <2>1, <2>2 DEF StageDone, EnterPhase
<1>6. ASSUME NEW u \in Unit, WriteUnit(u) PROVE RollbackInv'
  <2>1. \A x \in todo' : ~Recorded(x)'
    BY <1>6 DEF WriteUnit, Backup, Treated
  <2>2. \A x \in Unit :
          before.files[x] = IF Recorded(x)' THEN backups'[x] ELSE installed'[x]
    <3> TAKE x \in Unit
    <3>1. CASE x = u
      BY <1>6, <3>1, VersionAssumption DEF WriteUnit, Backup, Content, Symlink, Torn
    <3>2. CASE x # u
      BY <1>6, <3>2 DEF WriteUnit, Backup
    <3> QED
      BY <3>1, <3>2
  <2> QED
    BY <1>6, <2>1, <2>2 DEF WriteUnit
<1>7. CASE WriteRefused
  BY <1>7 DEF WriteRefused, BeginRollback, EnterPhase
<1>8. ASSUME NEW u \in Unit, WriteFails(u) PROVE RollbackInv'
  <2>1. \A x \in Unit :
          before.files[x] = IF Recorded(x)' THEN backups'[x] ELSE installed'[x]
    <3> TAKE x \in Unit
    <3>1. CASE x = u
      BY <1>8, <3>1, VersionAssumption
         DEF WriteFails, Backup, BeginRollback, Content, Symlink, Torn
    <3>2. CASE x # u
      BY <1>8, <3>2 DEF WriteFails, Backup, BeginRollback, TornWrite
    <3> QED
      BY <3>1, <3>2
  <2> QED
    BY <1>8, <2>1 DEF WriteFails, BeginRollback, EnterPhase
<1>9. CASE WriteDone
  BY <1>9 DEF WriteDone, EnterPhase
<1>10. CASE Reload
  BY <1>10 DEF Reload, EnterPhase
<1>11. CASE ReloadFails
  BY <1>11 DEF ReloadFails, BeginRollback, EnterPhase
<1>12. ASSUME NEW t \in Trigger, Enable(t) PROVE RollbackInv'
  BY <1>12 DEF Enable, Treated
<1>13. ASSUME NEW t \in Trigger, EnableFails(t) PROVE RollbackInv'
  BY <1>13 DEF EnableFails, BeginRollback, EnterPhase
<1>14. CASE EnableDone
  BY <1>14 DEF EnableDone, Finish, NoBackups
<1>15. ASSUME NEW t \in Trigger, UndoDisable(t) PROVE RollbackInv'
  BY <1>15 DEF UndoDisable, DisableFails, Treated
<1>16. CASE UndoDisableDone
  BY <1>16 DEF UndoDisableDone, EnterPhase, BackedUp
<1>17. ASSUME NEW u \in Unit, Restore(u) PROVE RollbackInv'
  BY <1>17 DEF Restore, Treated
<1>18. ASSUME NEW u \in Unit, RestoreFails(u) PROVE RollbackInv'
  BY <1>18 DEF RestoreFails, TornWrite, Treated
<1>19. CASE RestoreDone
  BY <1>19 DEF RestoreDone, EnterPhase
<1>20. CASE UndoReload
  BY <1>20 DEF UndoReload, Finish, RollbackOutcome, NoBackups
<1>21. ASSUME NEW t \in Trigger, Disable(t) PROVE RollbackInv'
  BY <1>21 DEF Disable, DisableFails, Treated
<1>22. CASE DisableDone
  BY <1>22 DEF DisableDone, EnterPhase
<1>23. ASSUME NEW u \in Unit, Unlink(u) PROVE RollbackInv'
  BY <1>23 DEF Unlink, Treated
<1>24. CASE UnlinkDone
  BY <1>24 DEF UnlinkDone, EnterPhase
<1>25. ASSUME NEW u \in Unit, Unstage(u) PROVE RollbackInv'
  BY <1>25 DEF Unstage, Treated
<1>26. CASE UnstageDone
  BY <1>26 DEF UnstageDone, Finish, NoBackups
<1>27. CASE Crash
  BY <1>27 DEF Crash, Finish, NoBackups
<1>28. CASE UNCHANGED vars
  BY <1>28 DEF vars
<1> QED
  BY <1>1, <1>2, <1>3, <1>4, <1>5, <1>6, <1>7, <1>8, <1>9, <1>10, <1>11, <1>12,
     <1>13, <1>14, <1>15, <1>16, <1>17, <1>18, <1>19, <1>20, <1>21, <1>22, <1>23,
     <1>24, <1>25, <1>26, <1>27, <1>28 DEF Next, Step
-----------------------------------------------------------------------------
(***************************************************************************)
(* The other parts of the invariant.                                       *)
(***************************************************************************)
LEMMA StepRemoval ==
  ASSUME TypeOK, RemovalInv, [Next]_vars
  PROVE  RemovalInv'
<1> USE DEF TypeOK, RemovalInv, DeletedIsDisarmed, InstallPhase, RollbackPhase, RemovePhase
<1>1. CASE StartApply
  BY <1>1 DEF StartApply, Begin, EnterPhase
<1>2. CASE StartRemove
  BY <1>2 DEF StartRemove, Begin, EnterPhase
<1>3. ASSUME NEW u \in Unit, Stage(u) PROVE RemovalInv'
  BY <1>3 DEF Stage, Treated
<1>4. ASSUME NEW u \in Unit, StageFails(u) PROVE RemovalInv'
  BY <1>4 DEF StageFails, Finish
<1>5. CASE StageDone
  BY <1>5 DEF StageDone, EnterPhase, Finish
<1>6. ASSUME NEW u \in Unit, WriteUnit(u) PROVE RemovalInv'
  BY <1>6 DEF WriteUnit, Backup, Treated
<1>7. CASE WriteRefused
  BY <1>7 DEF WriteRefused, BeginRollback, EnterPhase
<1>8. ASSUME NEW u \in Unit, WriteFails(u) PROVE RemovalInv'
  BY <1>8 DEF WriteFails, Backup, BeginRollback, EnterPhase, TornWrite
<1>9. CASE WriteDone
  BY <1>9 DEF WriteDone, EnterPhase
<1>10. CASE Reload
  BY <1>10 DEF Reload, EnterPhase
<1>11. CASE ReloadFails
  BY <1>11 DEF ReloadFails, BeginRollback, EnterPhase
<1>12. ASSUME NEW t \in Trigger, Enable(t) PROVE RemovalInv'
  BY <1>12 DEF Enable, Treated
<1>13. ASSUME NEW t \in Trigger, EnableFails(t) PROVE RemovalInv'
  BY <1>13 DEF EnableFails, BeginRollback, EnterPhase
<1>14. CASE EnableDone
  BY <1>14 DEF EnableDone, Finish
<1>15. ASSUME NEW t \in Trigger, UndoDisable(t) PROVE RemovalInv'
  BY <1>15 DEF UndoDisable, DisableFails, Treated
<1>16. CASE UndoDisableDone
  BY <1>16 DEF UndoDisableDone, EnterPhase
<1>17. ASSUME NEW u \in Unit, Restore(u) PROVE RemovalInv'
  BY <1>17 DEF Restore, Treated
<1>18. ASSUME NEW u \in Unit, RestoreFails(u) PROVE RemovalInv'
  BY <1>18 DEF RestoreFails, TornWrite, Treated
<1>19. CASE RestoreDone
  BY <1>19 DEF RestoreDone, EnterPhase
<1>20. CASE UndoReload
  BY <1>20 DEF UndoReload, Finish, RollbackOutcome
<1>21. ASSUME NEW t \in Trigger, Disable(t) PROVE RemovalInv'
  BY <1>21 DEF Disable, DisableFails, Treated, DisableAttempt
<1>22. CASE DisableDone
  BY <1>22, TriggerIsUnit DEF DisableDone, EnterPhase
<1>23. ASSUME NEW u \in Unit, Unlink(u) PROVE RemovalInv'
  BY <1>23, TriggerIsUnit DEF Unlink, Treated
<1>24. CASE UnlinkDone
  BY <1>24, TriggerIsUnit DEF UnlinkDone, EnterPhase
<1>25. ASSUME NEW u \in Unit, Unstage(u) PROVE RemovalInv'
  BY <1>25 DEF Unstage, Treated
<1>26. CASE UnstageDone
  BY <1>26 DEF UnstageDone, Finish
<1>27. CASE Crash
  BY <1>27 DEF Crash, Finish
<1>28. CASE UNCHANGED vars
  BY <1>28 DEF vars
<1> QED
  BY <1>1, <1>2, <1>3, <1>4, <1>5, <1>6, <1>7, <1>8, <1>9, <1>10, <1>11, <1>12,
     <1>13, <1>14, <1>15, <1>16, <1>17, <1>18, <1>19, <1>20, <1>21, <1>22, <1>23,
     <1>24, <1>25, <1>26, <1>27, <1>28 DEF Next, Step

LEMMA StepDoomed ==
  ASSUME TypeOK, DoomedInv, [Next]_vars
  PROVE  DoomedInv'
<1> USE DEF TypeOK, DoomedInv, RemovePhase
<1>1. CASE StartApply
  BY <1>1 DEF StartApply, Begin, EnterPhase
<1>2. CASE StartRemove
  BY <1>2 DEF StartRemove, Begin, EnterPhase, ManagedAmong, UnitsOf
<1>3. ASSUME NEW u \in Unit, Stage(u) PROVE DoomedInv'
  BY <1>3 DEF Stage, Treated
<1>4. ASSUME NEW u \in Unit, StageFails(u) PROVE DoomedInv'
  BY <1>4 DEF StageFails, Finish
<1>5. CASE StageDone
  BY <1>5 DEF StageDone, EnterPhase, Finish
<1>6. ASSUME NEW u \in Unit, WriteUnit(u) PROVE DoomedInv'
  BY <1>6 DEF WriteUnit, Backup, Treated
<1>7. CASE WriteRefused
  BY <1>7 DEF WriteRefused, BeginRollback, EnterPhase
<1>8. ASSUME NEW u \in Unit, WriteFails(u) PROVE DoomedInv'
  BY <1>8 DEF WriteFails, Backup, BeginRollback, EnterPhase, TornWrite
<1>9. CASE WriteDone
  BY <1>9 DEF WriteDone, EnterPhase
<1>10. CASE Reload
  BY <1>10 DEF Reload, EnterPhase
<1>11. CASE ReloadFails
  BY <1>11 DEF ReloadFails, BeginRollback, EnterPhase
<1>12. ASSUME NEW t \in Trigger, Enable(t) PROVE DoomedInv'
  BY <1>12 DEF Enable, Treated
<1>13. ASSUME NEW t \in Trigger, EnableFails(t) PROVE DoomedInv'
  BY <1>13 DEF EnableFails, BeginRollback, EnterPhase
<1>14. CASE EnableDone
  BY <1>14 DEF EnableDone, Finish
<1>15. ASSUME NEW t \in Trigger, UndoDisable(t) PROVE DoomedInv'
  BY <1>15 DEF UndoDisable, DisableFails, Treated
<1>16. CASE UndoDisableDone
  BY <1>16 DEF UndoDisableDone, EnterPhase
<1>17. ASSUME NEW u \in Unit, Restore(u) PROVE DoomedInv'
  BY <1>17 DEF Restore, Treated
<1>18. ASSUME NEW u \in Unit, RestoreFails(u) PROVE DoomedInv'
  BY <1>18 DEF RestoreFails, TornWrite, Treated
<1>19. CASE RestoreDone
  BY <1>19 DEF RestoreDone, EnterPhase
<1>20. CASE UndoReload
  BY <1>20 DEF UndoReload, Finish
<1>21. ASSUME NEW t \in Trigger, Disable(t) PROVE DoomedInv'
  BY <1>21 DEF Disable, DisableFails, Treated
<1>22. CASE DisableDone
  BY <1>22 DEF DisableDone, EnterPhase
<1>23. ASSUME NEW u \in Unit, Unlink(u) PROVE DoomedInv'
  BY <1>23 DEF Unlink, Treated
<1>24. CASE UnlinkDone
  BY <1>24 DEF UnlinkDone, EnterPhase
<1>25. ASSUME NEW u \in Unit, Unstage(u) PROVE DoomedInv'
  BY <1>25 DEF Unstage, Treated
<1>26. CASE UnstageDone
  BY <1>26 DEF UnstageDone, Finish
<1>27. CASE Crash
  BY <1>27 DEF Crash, Finish
<1>28. CASE UNCHANGED vars
  BY <1>28 DEF vars
<1> QED
  BY <1>1, <1>2, <1>3, <1>4, <1>5, <1>6, <1>7, <1>8, <1>9, <1>10, <1>11, <1>12,
     <1>13, <1>14, <1>15, <1>16, <1>17, <1>18, <1>19, <1>20, <1>21, <1>22, <1>23,
     <1>24, <1>25, <1>26, <1>27, <1>28 DEF Next, Step

LEMMA StepSymlink ==
  ASSUME TypeOK, RollbackInv, SymlinkInv, [Next]_vars
  PROVE  SymlinkInv'
<1> USE DEF TypeOK, SymlinkInv, Recorded
<1>1. CASE StartApply
  BY <1>1 DEF StartApply, Begin, EnterPhase
<1>2. CASE StartRemove
  BY <1>2 DEF StartRemove, Begin, EnterPhase
<1>3. ASSUME NEW u \in Unit, Stage(u) PROVE SymlinkInv'
  BY <1>3 DEF Stage, Treated
<1>4. ASSUME NEW u \in Unit, StageFails(u) PROVE SymlinkInv'
  BY <1>4 DEF StageFails, Finish, NoBackups
<1>5. CASE StageDone
  BY <1>5 DEF StageDone, EnterPhase, Finish, NoBackups
<1>6. ASSUME NEW u \in Unit, WriteUnit(u) PROVE SymlinkInv'
  BY <1>6, VersionAssumption DEF WriteUnit, Backup, Treated, Refused, Rendered, Symlink
<1>7. CASE WriteRefused
  BY <1>7 DEF WriteRefused, BeginRollback, EnterPhase
<1>8. ASSUME NEW u \in Unit, WriteFails(u) PROVE SymlinkInv'
  BY <1>8, VersionAssumption DEF WriteFails, Backup, BeginRollback, EnterPhase, TornWrite, Refused, Symlink, Torn
<1>9. CASE WriteDone
  BY <1>9 DEF WriteDone, EnterPhase
<1>10. CASE Reload
  BY <1>10 DEF Reload, EnterPhase
<1>11. CASE ReloadFails
  BY <1>11 DEF ReloadFails, BeginRollback, EnterPhase
<1>12. ASSUME NEW t \in Trigger, Enable(t) PROVE SymlinkInv'
  BY <1>12 DEF Enable, Treated
<1>13. ASSUME NEW t \in Trigger, EnableFails(t) PROVE SymlinkInv'
  BY <1>13 DEF EnableFails, BeginRollback, EnterPhase
<1>14. CASE EnableDone
  BY <1>14 DEF EnableDone, Finish, NoBackups
<1>15. ASSUME NEW t \in Trigger, UndoDisable(t) PROVE SymlinkInv'
  BY <1>15 DEF UndoDisable, DisableFails, Treated
<1>16. CASE UndoDisableDone
  BY <1>16 DEF UndoDisableDone, EnterPhase
<1>17. ASSUME NEW u \in Unit, Restore(u) PROVE SymlinkInv'
  BY <1>17 DEF Restore, Treated
<1>18. ASSUME NEW u \in Unit, RestoreFails(u) PROVE SymlinkInv'
  BY <1>18 DEF RestoreFails, TornWrite, Treated, Symlink, Torn
<1>19. CASE RestoreDone
  BY <1>19 DEF RestoreDone, EnterPhase
<1>20. CASE UndoReload
  BY <1>20 DEF UndoReload, Finish, NoBackups
<1>21. ASSUME NEW t \in Trigger, Disable(t) PROVE SymlinkInv'
  BY <1>21 DEF Disable, DisableFails, Treated
<1>22. CASE DisableDone
  BY <1>22 DEF DisableDone, EnterPhase
<1>23. ASSUME NEW u \in Unit, Unlink(u) PROVE SymlinkInv'
  BY <1>23 DEF Unlink, Treated, Symlink
<1>24. CASE UnlinkDone
  BY <1>24 DEF UnlinkDone, EnterPhase
<1>25. ASSUME NEW u \in Unit, Unstage(u) PROVE SymlinkInv'
  BY <1>25 DEF Unstage, Treated
<1>26. CASE UnstageDone
  BY <1>26 DEF UnstageDone, Finish, NoBackups
<1>27. CASE Crash
  BY <1>27 DEF Crash, Finish, NoBackups
<1>28. CASE UNCHANGED vars
  BY <1>28 DEF vars
<1> QED
  BY <1>1, <1>2, <1>3, <1>4, <1>5, <1>6, <1>7, <1>8, <1>9, <1>10, <1>11, <1>12,
     <1>13, <1>14, <1>15, <1>16, <1>17, <1>18, <1>19, <1>20, <1>21, <1>22, <1>23,
     <1>24, <1>25, <1>26, <1>27, <1>28 DEF Next, Step

LEMMA StepDeploy ==
  ASSUME TypeOK, RollbackInv, DeployInv, [Next]_vars
  PROVE  DeployInv'
<1> USE DEF TypeOK, DeployInv, Planned, PlannedTriggers
<1>1. CASE StartApply
  BY <1>1 DEF StartApply, Begin, EnterPhase
<1>2. CASE StartRemove
  BY <1>2 DEF StartRemove, Begin, EnterPhase
<1>3. ASSUME NEW u \in Unit, Stage(u) PROVE DeployInv'
  BY <1>3 DEF Stage, Treated
<1>4. ASSUME NEW u \in Unit, StageFails(u) PROVE DeployInv'
  BY <1>4 DEF StageFails, Finish
<1>5. CASE StageDone
  BY <1>5 DEF StageDone, EnterPhase, Finish
<1>6. ASSUME NEW u \in Unit, WriteUnit(u) PROVE DeployInv'
  BY <1>6 DEF WriteUnit, Backup, Treated
<1>7. CASE WriteRefused
  BY <1>7 DEF WriteRefused, BeginRollback, EnterPhase
<1>8. ASSUME NEW u \in Unit, WriteFails(u) PROVE DeployInv'
  BY <1>8 DEF WriteFails, Backup, BeginRollback, EnterPhase, TornWrite
<1>9. CASE WriteDone
  BY <1>9 DEF WriteDone, EnterPhase
<1>10. CASE Reload
  BY <1>10 DEF Reload, EnterPhase
<1>11. CASE ReloadFails
  BY <1>11 DEF ReloadFails, BeginRollback, EnterPhase
<1>12. ASSUME NEW t \in Trigger, Enable(t) PROVE DeployInv'
  BY <1>12 DEF Enable, Treated
<1>13. ASSUME NEW t \in Trigger, EnableFails(t) PROVE DeployInv'
  BY <1>13 DEF EnableFails, BeginRollback, EnterPhase
<1>14. CASE EnableDone
  BY <1>14 DEF EnableDone, Finish
<1>15. ASSUME NEW t \in Trigger, UndoDisable(t) PROVE DeployInv'
  BY <1>15 DEF UndoDisable, DisableFails, Treated
<1>16. CASE UndoDisableDone
  BY <1>16 DEF UndoDisableDone, EnterPhase
<1>17. ASSUME NEW u \in Unit, Restore(u) PROVE DeployInv'
  BY <1>17 DEF Restore, Treated
<1>18. ASSUME NEW u \in Unit, RestoreFails(u) PROVE DeployInv'
  BY <1>18 DEF RestoreFails, TornWrite, Treated
<1>19. CASE RestoreDone
  BY <1>19 DEF RestoreDone, EnterPhase
<1>20. CASE UndoReload
  BY <1>20 DEF UndoReload, Finish
<1>21. ASSUME NEW t \in Trigger, Disable(t) PROVE DeployInv'
  BY <1>21 DEF Disable, DisableFails, Treated
<1>22. CASE DisableDone
  BY <1>22 DEF DisableDone, EnterPhase
<1>23. ASSUME NEW u \in Unit, Unlink(u) PROVE DeployInv'
  BY <1>23 DEF Unlink, Treated
<1>24. CASE UnlinkDone
  BY <1>24 DEF UnlinkDone, EnterPhase
<1>25. ASSUME NEW u \in Unit, Unstage(u) PROVE DeployInv'
  BY <1>25 DEF Unstage, Treated
<1>26. CASE UnstageDone
  BY <1>26 DEF UnstageDone, Finish
<1>27. CASE Crash
  BY <1>27 DEF Crash, Finish
<1>28. CASE UNCHANGED vars
  BY <1>28 DEF vars
<1> QED
  BY <1>1, <1>2, <1>3, <1>4, <1>5, <1>6, <1>7, <1>8, <1>9, <1>10, <1>11, <1>12,
     <1>13, <1>14, <1>15, <1>16, <1>17, <1>18, <1>19, <1>20, <1>21, <1>22, <1>23,
     <1>24, <1>25, <1>26, <1>27, <1>28 DEF Next, Step

-----------------------------------------------------------------------------
(***************************************************************************)
(* The theorems.                                                           *)
(***************************************************************************)
Inv ==
  /\ TypeOK /\ RollbackInv /\ RemovalInv /\ DoomedInv /\ SymlinkInv /\ DeployInv

LEMMA InitInv == Init => Inv
BY InitType
   DEF Init, Inv, RollbackInv, RemovalInv, DoomedInv, SymlinkInv, DeployInv, Recorded,
       InstallPhase, RemovePhase, NoBackups

LEMMA StepInv == Inv /\ [Next]_vars => Inv'
BY StepType, StepRollback, StepRemoval, StepDoomed, StepSymlink, StepDeploy DEF Inv

\* The inductive invariant: what every phase knows about files and triggers.
THEOREM Invariance == Spec => []Inv
BY InitInv, StepInv, PTL DEF Spec

\* The state of an operation is well formed: in particular a rollback never
\* restores a unit for which nothing was recorded.
THEOREM TypeCorrect == Spec => []TypeOK
BY Invariance, PTL DEF Inv

\* A reported clean rollback has restored every unit file.
THEOREM RollbackSafe == Spec => []RollbackRestoresFiles
<1>1. Inv => RollbackRestoresFiles
  BY DEF Inv, RollbackInv, RollbackRestoresFiles
<1> QED
  BY <1>1, Invariance, PTL

\* A removal without a problem leaves no deleted trigger enabled.
THEOREM RemovalSafe == Spec => []RemovedIsDisarmed
<1>1. Inv => RemovedIsDisarmed
  BY DEF Inv, RemovalInv, DeletedIsDisarmed, RemovedIsDisarmed
<1> QED
  BY <1>1, Invariance, PTL

\* An install that reports success has deployed its plan.
LEMMA StepsOfEnable ==
  ASSUME Next, pc = "enable"
  PROVE  (\E t \in Trigger : Enable(t) \/ EnableFails(t)) \/ EnableDone \/ Crash
BY DEF Next, Step, StartApply, StartRemove, Begin, Stage, StageFails, StageDone,
       WriteUnit, WriteFails, WriteRefused, WriteDone, Reload, ReloadFails, UndoDisable,
       UndoDisableDone, Restore, RestoreFails, RestoreDone, UndoReload, Disable,
       DisableDone, Unlink, UnlinkDone, Unstage, UnstageDone

THEOREM InstallSafe == Spec => InstalledMeansDeployed
<1>1. ASSUME Inv, Next PROVE DeployedOnSuccess
  <2> SUFFICES ASSUME pc = "enable", result' = "installed" PROVE DeployedOnSuccess
    BY DEF DeployedOnSuccess
  <2>1. result = "none"
    BY <1>1 DEF Inv, DeployInv
  <2>2. EnableDone
    BY <1>1, <2>1, StepsOfEnable
       DEF Enable, EnableFails, BeginRollback, Crash, Finish
  <2> QED
    BY <1>1, <2>2 DEF EnableDone, DeployedOnSuccess, Inv, DeployInv, PlannedTriggers, Planned
<1>2. Inv /\ [Next]_vars => [DeployedOnSuccess]_vars
  BY <1>1
<1> QED
  BY <1>2, Invariance, PTL DEF Spec, InstalledMeansDeployed

\* A removal never touches what carries no marker.
LEMMA StepsOfRemove ==
  ASSUME Next, pc \in RemovePhase
  PROVE  \/ \E u \in Unit : (pc = "unlink" /\ Unlink(u)) \/ (pc = "unstage" /\ Unstage(u))
         \/ UNCHANGED <<installed, staged>>
BY DEF RemovePhase, Next, Step, StartApply, StartRemove, Begin, Stage, StageFails, StageDone,
       WriteUnit, WriteFails, WriteRefused, WriteDone, Reload, ReloadFails, Enable,
       EnableFails, EnableDone, UndoDisable, UndoDisableDone, Restore, RestoreFails,
       RestoreDone, UndoReload, Disable, DisableDone, Unlink, UnlinkDone, Unstage,
       UnstageDone, Crash, Interrupt

THEOREM ForeignSafe == Spec => ForeignUnitsSurvive
<1>1. ASSUME Inv, Next PROVE SparesForeign
  <2> SUFFICES ASSUME pc \in RemovePhase PROVE SparesForeign
    BY DEF SparesForeign
  <2>1. ASSUME NEW c \in Content, Managed(c) PROVE c \notin Foreign
    BY <2>1, VersionAssumption DEF Managed, Foreign, Symlink, Torn
  <2>2. ASSUME NEW u \in Unit, pc = "unlink", Unlink(u) PROVE SparesForeign
    BY <1>1, <2>1, <2>2 DEF Inv, TypeOK, DoomedInv, Unlink, SparesForeign
  <2>3. ASSUME NEW u \in Unit, pc = "unstage", Unstage(u) PROVE SparesForeign
    BY <1>1, <2>1, <2>3 DEF Inv, TypeOK, DoomedInv, Unstage, SparesForeign
  <2> QED
    BY <1>1, <2>2, <2>3, StepsOfRemove DEF SparesForeign
<1>2. Inv /\ [Next]_vars => [SparesForeign]_vars
  BY <1>1
<1> QED
  BY <1>2, Invariance, PTL DEF Spec, ForeignUnitsSurvive

\* Neither an install nor its rollback writes through a symlink.
LEMMA WritesOfNext ==
  ASSUME Next
  PROVE  \/ installed' = installed
         \/ \E u \in Unit : WriteUnit(u) \/ WriteFails(u) \/ Restore(u) \/ RestoreFails(u)
                         \/ Unlink(u)
         \/ Interrupt
BY DEF Next, Step, StartApply, StartRemove, Stage, StageFails, StageDone, WriteRefused,
       WriteDone, Reload, ReloadFails, Enable, EnableFails, EnableDone, UndoDisable,
       UndoDisableDone, RestoreDone, UndoReload, Disable, DisableDone, UnlinkDone,
       Unstage, UnstageDone, Crash

THEOREM SymlinksSafe == Spec => SymlinksNeverWritten
<1>1. ASSUME Inv, Next PROVE SparesSymlinks
  <2> USE <1>1 DEF Inv, TypeOK, SparesSymlinks, Recorded, SymlinkInv
  <2>1. ASSUME NEW u \in Unit, WriteUnit(u) PROVE SparesSymlinks
    BY <2>1 DEF WriteUnit, Refused
  <2>2. ASSUME NEW u \in Unit, WriteFails(u) PROVE SparesSymlinks
    BY <2>2 DEF WriteFails, Refused, TornWrite
  <2>3. ASSUME NEW u \in Unit, Restore(u) \/ RestoreFails(u) PROVE SparesSymlinks
    BY <2>3 DEF Restore, RestoreFails, TornWrite, RollbackInv
  <2>4. ASSUME NEW u \in Unit, Unlink(u) PROVE SparesSymlinks
    BY <2>4 DEF Unlink
  <2>5. CASE Interrupt
    BY <2>5 DEF Interrupt, Refused, TornWrite, RollbackInv
  <2> QED
    BY <2>1, <2>2, <2>3, <2>4, <2>5, WritesOfNext
<1>2. Inv /\ [Next]_vars => [SparesSymlinks]_vars
  BY <1>1
<1> QED
  BY <1>2, Invariance, PTL DEF Spec, SymlinksNeverWritten
-----------------------------------------------------------------------------
(***************************************************************************)
(* The refinement.  What each phase knows of the triggers, of the symlinks *)
(* it found, and of the units it deletes, beyond what Inv says.            *)
(***************************************************************************)
ApplyPhase == {"stage"} \cup InstallPhase \cup RollbackPhase

\* What an apply has armed, some triggers apart, is one of its plan at most: the one that failed.
ArmedBut(extra) ==
  \A s, t \in enabled \ (before.enabled \cup extra) : s = t /\ s \in Planned

TriggersInv ==
  /\ pc \in ApplyPhase => plan \in AllPlans
  /\ pc \in {"idle", "stage"} => undo = {}
  /\ pc \in {"stage", "write", "reload"} => enabled = before.enabled
  /\ pc \in InstallPhase \cup RollbackPhase => undo \subseteq Planned
  /\ pc = "enable" =>
       /\ todo \subseteq Planned
       /\ before.enabled \subseteq enabled /\ enabled \subseteq before.enabled \cup undo
  /\ pc \in RollbackPhase => before.enabled \ enabled \subseteq Planned
  /\ pc = "undoDisable" => todo \subseteq undo /\ (flawed \/ ArmedBut(todo))
  /\ pc \in {"undoRestore", "undoReload"} => flawed \/ ArmedBut({})

\* An install records what it writes, all of its plan and nothing else, and no symlink.
WrittenInv ==
  /\ pc = "write" => todo \subseteq Planned /\ \A u \in Planned : u \in todo \/ Recorded(u)
  /\ pc \in {"reload", "enable"} => \A u \in Planned : Recorded(u)
  /\ pc \in InstallPhase => \A u \in Unit : Recorded(u) => u \in Planned
  /\ pc \in InstallPhase \cup RollbackPhase =>
       \A u \in Unit : Recorded(u) => before.files[u] \notin Symlink
  /\ pc \in ApplyPhase =>
       \A u \in Unit : before.files[u] \in Symlink => installed[u] = before.files[u]

\* A removal deletes what was managed when it began, and disarms the triggers among it.
DeletedInv ==
  /\ pc \in RemovePhase =>
       /\ \A u \in doomed.installed : Managed(before.files[u])
       /\ \A u \in Unit : before.files[u] \in Symlink => installed[u] \in {before.files[u], "absent"}
  /\ pc = "disable" =>
       /\ todo \subseteq doomed.installed /\ enabled \subseteq before.enabled
       /\ before.enabled \subseteq enabled \cup doomed.installed
  /\ pc = "unlink" =>
       \/ flawed
       \/ /\ enabled = before.enabled \ doomed.installed
          /\ \A u \in doomed.installed : u \in todo \/ installed[u] = "absent"
  /\ pc = "unstage" =>
       \/ flawed
       \/ /\ enabled = before.enabled \ doomed.installed
          /\ \A u \in Unit : installed[u] = IF u \in doomed.installed THEN "absent" ELSE before.files[u]

LEMMA StepTriggers ==
  ASSUME TypeOK, TriggersInv, [Next]_vars
  PROVE  TriggersInv'
<1> USE DEF TypeOK, TriggersInv, ApplyPhase, InstallPhase, RollbackPhase, RemovePhase, Planned
<1>1. CASE StartApply
  <2>1. plan' \in AllPlans
    <3>1. PICK loops \in (SUBSET Loop) \ {{}}, v \in Version : plan' \in PlansOf(loops, v)
      BY <1>1 DEF StartApply
    <3> QED
      BY <3>1 DEF AllPlans
  <2> QED
    BY <1>1, <2>1 DEF StartApply, Begin, EnterPhase
<1>2. CASE StartRemove
  BY <1>2 DEF StartRemove, Begin, EnterPhase, ManagedAmong, UnitsOf
<1>3. ASSUME NEW u \in Unit, Stage(u) PROVE TriggersInv'
  BY <1>3 DEF Stage, Treated
<1>4. ASSUME NEW u \in Unit, StageFails(u) PROVE TriggersInv'
  BY <1>4 DEF StageFails, Finish
<1>5. CASE StageDone
  BY <1>5 DEF StageDone, EnterPhase, Finish
<1>6. ASSUME NEW u \in Unit, WriteUnit(u) PROVE TriggersInv'
  BY <1>6 DEF WriteUnit, Backup, Treated, Refused
<1>7. CASE WriteRefused
  <2>1. ArmedBut(todo)'
    BY <1>7 DEF WriteRefused, BeginRollback, EnterPhase, ArmedBut
  <2> QED
    BY <1>7, <2>1 DEF WriteRefused, BeginRollback, EnterPhase
<1>8. ASSUME NEW u \in Unit, WriteFails(u) PROVE TriggersInv'
  <2>1. ArmedBut(todo)'
    BY <1>8 DEF WriteFails, BeginRollback, EnterPhase, ArmedBut
  <2> QED
    BY <1>8, <2>1 DEF WriteFails, BeginRollback, EnterPhase
<1>9. CASE WriteDone
  BY <1>9 DEF WriteDone, EnterPhase
<1>10. CASE Reload
  BY <1>10 DEF Reload, EnterPhase, PlannedTriggers
<1>11. CASE ReloadFails
  <2>1. ArmedBut(todo)'
    BY <1>11 DEF ReloadFails, BeginRollback, EnterPhase, ArmedBut
  <2> QED
    BY <1>11, <2>1 DEF ReloadFails, BeginRollback, EnterPhase
<1>12. ASSUME NEW t \in Trigger, Enable(t) PROVE TriggersInv'
  BY <1>12 DEF Enable, Treated
<1>13. ASSUME NEW t \in Trigger, EnableFails(t) PROVE TriggersInv'
  <2>1. t \in Planned /\ enabled' \subseteq before.enabled \cup {t} \cup undo
    BY <1>13 DEF EnableFails, EnableAttempt
  <2>2. ArmedBut(todo)'
    BY <1>13, <2>1 DEF EnableFails, BeginRollback, EnterPhase, ArmedBut
  <2> QED
    BY <1>13, <2>2 DEF EnableFails, BeginRollback, EnterPhase, EnableAttempt
<1>14. CASE EnableDone
  BY <1>14 DEF EnableDone, Finish
<1>15. ASSUME NEW t \in Trigger, UndoDisable(t) PROVE TriggersInv'
  <2>1. ASSUME ~flawed' PROVE ArmedBut(todo)'
    BY <1>15, <2>1 DEF UndoDisable, DisableFails, Treated, ArmedBut
  <2> QED
    BY <1>15, <2>1 DEF UndoDisable, DisableFails, DisableAttempt, Treated
<1>16. CASE UndoDisableDone
  <2>1. ArmedBut(todo) => ArmedBut({})'
    BY <1>16 DEF UndoDisableDone, ArmedBut
  <2> QED
    BY <1>16, <2>1 DEF UndoDisableDone, EnterPhase
<1>17. ASSUME NEW u \in Unit, Restore(u) PROVE TriggersInv'
  <2>1. ArmedBut({}) => ArmedBut({})'
    BY <1>17 DEF Restore, ArmedBut
  <2> QED
    BY <1>17, <2>1 DEF Restore, Treated
<1>18. ASSUME NEW u \in Unit, RestoreFails(u) PROVE TriggersInv'
  BY <1>18 DEF RestoreFails, TornWrite, Treated
<1>19. CASE RestoreDone
  <2>1. ArmedBut({}) => ArmedBut({})'
    BY <1>19 DEF RestoreDone, ArmedBut
  <2> QED
    BY <1>19, <2>1 DEF RestoreDone, EnterPhase
<1>20. CASE UndoReload
  BY <1>20 DEF UndoReload, Finish
<1>21. ASSUME NEW t \in Trigger, Disable(t) PROVE TriggersInv'
  BY <1>21 DEF Disable, DisableFails, DisableAttempt, Treated
<1>22. CASE DisableDone
  BY <1>22 DEF DisableDone, EnterPhase
<1>23. ASSUME NEW u \in Unit, Unlink(u) PROVE TriggersInv'
  BY <1>23 DEF Unlink, Treated
<1>24. CASE UnlinkDone
  BY <1>24 DEF UnlinkDone, EnterPhase
<1>25. ASSUME NEW u \in Unit, Unstage(u) PROVE TriggersInv'
  BY <1>25 DEF Unstage, Treated
<1>26. CASE UnstageDone
  BY <1>26 DEF UnstageDone, Finish
<1>27. CASE Crash
  BY <1>27 DEF Crash, Finish
<1>28. CASE UNCHANGED vars
  BY <1>28 DEF vars, ArmedBut
<1> QED
  BY <1>1, <1>2, <1>3, <1>4, <1>5, <1>6, <1>7, <1>8, <1>9, <1>10, <1>11, <1>12, <1>13, <1>14, <1>15, <1>16, <1>17, <1>18, <1>19, <1>20, <1>21, <1>22, <1>23, <1>24, <1>25, <1>26, <1>27, <1>28 DEF Next, Step

LEMMA StepWritten ==
  ASSUME TypeOK, RollbackInv, SymlinkInv, WrittenInv, [Next]_vars
  PROVE  WrittenInv'
<1> USE DEF TypeOK, WrittenInv, ApplyPhase, InstallPhase, RollbackPhase, RemovePhase, Planned, Recorded
<1>1. CASE StartApply
  BY <1>1 DEF StartApply, Begin, EnterPhase, Render
<1>2. CASE StartRemove
  BY <1>2 DEF StartRemove, Begin, EnterPhase, ManagedAmong, UnitsOf
<1>3. ASSUME NEW u \in Unit, Stage(u) PROVE WrittenInv'
  BY <1>3 DEF Stage, Treated
<1>4. ASSUME NEW u \in Unit, StageFails(u) PROVE WrittenInv'
  BY <1>4 DEF StageFails, Finish
<1>5. CASE StageDone
  BY <1>5 DEF StageDone, EnterPhase, Finish, RollbackInv
<1>6. ASSUME NEW u \in Unit, WriteUnit(u) PROVE WrittenInv'
  <2>1. u \in Planned /\ before.files[u] = installed[u] /\ installed[u] \notin Symlink
    BY <1>6 DEF WriteUnit, Refused, RollbackInv
  <2>2. \A x \in Unit : Recorded(x)' => x = u \/ Recorded(x)
    BY <1>6 DEF WriteUnit, Backup
  <2>3. Recorded(u)' /\ \A x \in Unit : Recorded(x) => Recorded(x)'
    BY <1>6, VersionAssumption DEF WriteUnit, Backup, Content, Symlink, Torn
  <2>4. \A x \in Unit : x # u => installed'[x] = installed[x]
    BY <1>6 DEF WriteUnit
  <2> QED
    BY <1>6, <2>1, <2>2, <2>3, <2>4 DEF WriteUnit, Treated
<1>7. CASE WriteRefused
  BY <1>7 DEF WriteRefused, BeginRollback, EnterPhase
<1>8. ASSUME NEW u \in Unit, WriteFails(u) PROVE WrittenInv'
  BY <1>8 DEF WriteFails, Backup, BeginRollback, EnterPhase, TornWrite, Refused
<1>9. CASE WriteDone
  BY <1>9 DEF WriteDone, EnterPhase
<1>10. CASE Reload
  BY <1>10 DEF Reload, EnterPhase, PlannedTriggers
<1>11. CASE ReloadFails
  BY <1>11 DEF ReloadFails, BeginRollback, EnterPhase
<1>12. ASSUME NEW t \in Trigger, Enable(t) PROVE WrittenInv'
  BY <1>12 DEF Enable, Treated
<1>13. ASSUME NEW t \in Trigger, EnableFails(t) PROVE WrittenInv'
  BY <1>13 DEF EnableFails, BeginRollback, EnterPhase, EnableAttempt
<1>14. CASE EnableDone
  BY <1>14 DEF EnableDone, Finish
<1>15. ASSUME NEW t \in Trigger, UndoDisable(t) PROVE WrittenInv'
  BY <1>15 DEF UndoDisable, DisableFails, DisableAttempt, Treated
<1>16. CASE UndoDisableDone
  BY <1>16 DEF UndoDisableDone, EnterPhase, BackedUp
<1>17. ASSUME NEW u \in Unit, Restore(u) PROVE WrittenInv'
  BY <1>17 DEF Restore, Treated, RollbackInv
<1>18. ASSUME NEW u \in Unit, RestoreFails(u) PROVE WrittenInv'
  BY <1>18 DEF RestoreFails, TornWrite, Treated, RollbackInv
<1>19. CASE RestoreDone
  BY <1>19 DEF RestoreDone, EnterPhase
<1>20. CASE UndoReload
  BY <1>20 DEF UndoReload, Finish
<1>21. ASSUME NEW t \in Trigger, Disable(t) PROVE WrittenInv'
  BY <1>21 DEF Disable, DisableFails, DisableAttempt, Treated
<1>22. CASE DisableDone
  BY <1>22 DEF DisableDone, EnterPhase
<1>23. ASSUME NEW u \in Unit, Unlink(u) PROVE WrittenInv'
  BY <1>23 DEF Unlink, Treated
<1>24. CASE UnlinkDone
  BY <1>24 DEF UnlinkDone, EnterPhase
<1>25. ASSUME NEW u \in Unit, Unstage(u) PROVE WrittenInv'
  BY <1>25 DEF Unstage, Treated
<1>26. CASE UnstageDone
  BY <1>26 DEF UnstageDone, Finish
<1>27. CASE Crash
  BY <1>27 DEF Crash, Finish
<1>28. CASE UNCHANGED vars
  BY <1>28 DEF vars
<1> QED
  BY <1>1, <1>2, <1>3, <1>4, <1>5, <1>6, <1>7, <1>8, <1>9, <1>10, <1>11, <1>12, <1>13, <1>14, <1>15, <1>16, <1>17, <1>18, <1>19, <1>20, <1>21, <1>22, <1>23, <1>24, <1>25, <1>26, <1>27, <1>28 DEF Next, Step

LEMMA StepDeleted ==
  ASSUME TypeOK, RemovalInv, DeletedInv, [Next]_vars
  PROVE  DeletedInv'
<1> USE DEF TypeOK, DeletedInv, InstallPhase, RollbackPhase, RemovePhase
<1>1. CASE StartApply
  BY <1>1 DEF StartApply, Begin, EnterPhase, Render
<1>2. CASE StartRemove
  <2>1. before'.files = installed /\ before'.enabled = enabled /\ UNCHANGED <<installed, enabled>>
    BY <1>2 DEF StartRemove, Begin
  <2>2. \A u \in doomed'.installed : Managed(installed[u])
    BY <1>2 DEF StartRemove, ManagedAmong
  <2>3. \/ pc' = "disable" /\ todo' \subseteq doomed'.installed
        \/ pc' = "unstage" /\ (flawed' \/ doomed'.installed = {})
    BY <1>2 DEF StartRemove, EnterPhase
  <2> QED
    BY <2>1, <2>2, <2>3
<1>3. ASSUME NEW u \in Unit, Stage(u) PROVE DeletedInv'
  BY <1>3 DEF Stage, Treated
<1>4. ASSUME NEW u \in Unit, StageFails(u) PROVE DeletedInv'
  BY <1>4 DEF StageFails, Finish
<1>5. CASE StageDone
  BY <1>5 DEF StageDone, EnterPhase, Finish
<1>6. ASSUME NEW u \in Unit, WriteUnit(u) PROVE DeletedInv'
  BY <1>6 DEF WriteUnit, Backup, Treated, Refused
<1>7. CASE WriteRefused
  BY <1>7 DEF WriteRefused, BeginRollback, EnterPhase
<1>8. ASSUME NEW u \in Unit, WriteFails(u) PROVE DeletedInv'
  BY <1>8 DEF WriteFails, Backup, BeginRollback, EnterPhase, TornWrite, Refused
<1>9. CASE WriteDone
  BY <1>9 DEF WriteDone, EnterPhase
<1>10. CASE Reload
  BY <1>10 DEF Reload, EnterPhase, PlannedTriggers
<1>11. CASE ReloadFails
  BY <1>11 DEF ReloadFails, BeginRollback, EnterPhase
<1>12. ASSUME NEW t \in Trigger, Enable(t) PROVE DeletedInv'
  BY <1>12 DEF Enable, Treated
<1>13. ASSUME NEW t \in Trigger, EnableFails(t) PROVE DeletedInv'
  BY <1>13 DEF EnableFails, BeginRollback, EnterPhase, EnableAttempt
<1>14. CASE EnableDone
  BY <1>14 DEF EnableDone, Finish
<1>15. ASSUME NEW t \in Trigger, UndoDisable(t) PROVE DeletedInv'
  BY <1>15 DEF UndoDisable, DisableFails, DisableAttempt, Treated
<1>16. CASE UndoDisableDone
  BY <1>16 DEF UndoDisableDone, EnterPhase, BackedUp
<1>17. ASSUME NEW u \in Unit, Restore(u) PROVE DeletedInv'
  BY <1>17 DEF Restore, Treated
<1>18. ASSUME NEW u \in Unit, RestoreFails(u) PROVE DeletedInv'
  BY <1>18 DEF RestoreFails, TornWrite, Treated
<1>19. CASE RestoreDone
  BY <1>19 DEF RestoreDone, EnterPhase
<1>20. CASE UndoReload
  BY <1>20 DEF UndoReload, Finish
<1>21. ASSUME NEW t \in Trigger, Disable(t) PROVE DeletedInv'
  BY <1>21 DEF Disable, DisableFails, DisableAttempt, Treated
<1>22. CASE DisableDone
  <2>1. flawed \/ enabled = before.enabled \ doomed.installed
    BY <1>22 DEF DisableDone, RemovalInv
  <2> QED
    BY <1>22, <2>1 DEF DisableDone, EnterPhase
<1>23. ASSUME NEW u \in Unit, Unlink(u) PROVE DeletedInv'
  BY <1>23 DEF Unlink, Treated
<1>24. CASE UnlinkDone
  BY <1>24 DEF UnlinkDone, EnterPhase, RemovalInv
<1>25. ASSUME NEW u \in Unit, Unstage(u) PROVE DeletedInv'
  BY <1>25 DEF Unstage, Treated
<1>26. CASE UnstageDone
  BY <1>26 DEF UnstageDone, Finish
<1>27. CASE Crash
  BY <1>27 DEF Crash, Finish
<1>28. CASE UNCHANGED vars
  BY <1>28 DEF vars
<1> QED
  BY <1>1, <1>2, <1>3, <1>4, <1>5, <1>6, <1>7, <1>8, <1>9, <1>10, <1>11, <1>12, <1>13, <1>14, <1>15, <1>16, <1>17, <1>18, <1>19, <1>20, <1>21, <1>22, <1>23, <1>24, <1>25, <1>26, <1>27, <1>28 DEF Next, Step


PromiseInv == Inv /\ TriggersInv /\ WrittenInv /\ DeletedInv

LEMMA Promises == Spec => []PromiseInv
<1>1. Init => PromiseInv
  BY InitInv DEF Init, PromiseInv, TriggersInv, WrittenInv, DeletedInv, ApplyPhase,
                 InstallPhase, RollbackPhase, RemovePhase
<1>2. PromiseInv /\ [Next]_vars => PromiseInv'
  BY StepInv, StepTriggers, StepWritten, StepDeleted DEF PromiseInv, Inv
<1> QED
  BY <1>1, <1>2, PTL DEF Spec

\* A step begins an operation, goes on with it, or ends it.
LEMMA KindsOfStep ==
  ASSUME PromiseInv, Next
  PROVE  \/ Begin /\ pc' # "idle" /\ UNCHANGED <<installed, enabled>>
         \/ pc # "idle" /\ pc' # "idle" /\ UNCHANGED <<before, result>>
         \/ (\E u \in Unit : StageFails(u)) \/ StageDone \/ EnableDone \/ UndoReload
            \/ UnstageDone \/ Crash
BY DEF Next, Step, StartApply, StartRemove, Stage, WriteUnit, WriteFails, WriteRefused,
       BeginRollback, EnterPhase, WriteDone, Reload, ReloadFails, Enable, EnableFails,
       UndoDisable, UndoDisableDone, Restore, RestoreFails, RestoreDone, Disable, DisableDone,
       Unlink, UnlinkDone, Unstage

\* What AtomicDeploy sees as an operation ends.
LEMMA SeenAtTheEnd ==
  ASSUME pc # "idle", NEW outcome, Finish(outcome), UNCHANGED before
  PROVE  /\ BetweenOperations(installed, before.files) = before.files
         /\ BetweenOperations(enabled, before.enabled) = before.enabled
         /\ BetweenOperations(installed, before.files)' = installed'
         /\ BetweenOperations(enabled, before.enabled)' = enabled'
         /\ result' = outcome
BY DEF BetweenOperations, Finish

\* An end that admits damage spared the symlinks the operation had found.
LEMMA DamageStep ==
  ASSUME PromiseInv, PromiseInv', pc # "idle", UNCHANGED before,
         NEW outcome \in {"partial", "incomplete", "crashed"}, Finish(outcome),
         \A u \in Unit : before.files[u] \in Symlink => installed'[u] \in {before.files[u], "absent"}
  PROVE  Atomic!Damage
BY SeenAtTheEnd DEF Atomic!Damage, PromiseInv, Inv, TypeOK

LEMMA SymlinksFound ==
  ASSUME PromiseInv, pc # "idle", NEW u \in Unit, before.files[u] \in Symlink
  PROVE  installed[u] \in {before.files[u], "absent"}
BY DEF PromiseInv, Inv, TypeOK, WrittenInv, DeletedInv, Phase, ApplyPhase

\* An operation that dies has not written through a symlink.
LEMMA CrashStep ==
  ASSUME PromiseInv, PromiseInv', Crash
  PROVE  Atomic!Damage
<1>1. ASSUME NEW u \in Unit, before.files[u] \in Symlink
      PROVE  installed'[u] \in {before.files[u], "absent"}
  <2>1. CASE installed' = installed
    BY <1>1, <2>1, SymlinksFound DEF Crash
  <2>2. ASSUME NEW w \in todo, pc = "write", ~Refused(w), installed' \in TornWrite(installed, w)
        PROVE  installed'[u] = installed[u]
    BY <1>1, <2>2 DEF PromiseInv, Inv, TypeOK, WrittenInv, ApplyPhase, InstallPhase, Refused, TornWrite
  <2>3. ASSUME NEW w \in todo, pc = "undoRestore", installed' \in TornWrite(installed, w)
        PROVE  installed'[u] = installed[u]
    BY <1>1, <2>3 DEF PromiseInv, Inv, TypeOK, RollbackInv, WrittenInv, RollbackPhase, TornWrite
  <2> QED
    BY <1>1, <2>1, <2>2, <2>3, SymlinksFound DEF Crash, Interrupt
<1>2. pc # "idle" /\ UNCHANGED before /\ Finish("crashed")
  BY DEF Crash
<1> QED
  BY <1>1, <1>2, DamageStep

\* A successful install is one step of AtomicDeploy, ...
LEMMA CommitStep ==
  ASSUME PromiseInv, PromiseInv', EnableDone
  PROVE  \E p \in AllPlans : Atomic!Commit(p)
<1>1. plan \in AllPlans /\ pc = "enable" /\ todo = {} /\ UNCHANGED <<installed, enabled, before>>
      /\ Finish("installed")
  BY DEF PromiseInv, TriggersInv, EnableDone, ApplyPhase, InstallPhase
<1>2. Atomic!Targets(plan) = Planned
  BY DEF Atomic!Targets, Planned
<1>3. \A u \in Planned : before.files[u] \notin Symlink /\ installed[u] = plan[u]
  BY <1>1 DEF PromiseInv, Inv, WrittenInv, DeployInv, InstallPhase, Planned
<1>4. \A u \in Unit \ Planned : installed[u] = before.files[u]
  BY <1>1 DEF PromiseInv, Inv, RollbackInv, WrittenInv, InstallPhase
<1>5. installed = [u \in Unit |-> IF u \in Planned THEN plan[u] ELSE before.files[u]]
  BY <1>3, <1>4 DEF PromiseInv, Inv, TypeOK, Planned
<1>6. enabled = before.enabled \cup (Planned \cap Trigger)
  BY <1>1 DEF PromiseInv, Inv, TypeOK, TriggersInv, DeployInv, PlannedTriggers, InstallPhase
<1>7. Atomic!Commit(plan)
  BY <1>1, <1>2, <1>3, <1>5, <1>6, SeenAtTheEnd DEF Atomic!Commit, Atomic!Overlay
<1> QED
  BY <1>1, <1>7

\* ... and so is one that reports a clean rollback.
LEMMA AbortStep ==
  ASSUME PromiseInv, PromiseInv', UndoReload, ~flawed, Finish("rolledBack")
  PROVE  \E p \in AllPlans : Atomic!Abort(p)
<1>1. plan \in AllPlans /\ pc = "undoReload" /\ UNCHANGED <<installed, enabled, before>>
  BY DEF PromiseInv, TriggersInv, UndoReload, ApplyPhase, RollbackPhase
<1>2. Atomic!Targets(plan) = Planned
  BY DEF Atomic!Targets, Planned
<1>3. installed = before.files /\ before.enabled \ enabled \subseteq Planned /\ enabled \subseteq Trigger
  BY <1>1 DEF PromiseInv, Inv, TypeOK, RollbackInv, TriggersInv, RollbackPhase
<1>4. \E failing \in {{}} \cup {{t} : t \in Planned} : enabled \ before.enabled \subseteq failing
  <2>1. ArmedBut({})
    BY <1>1 DEF PromiseInv, TriggersInv
  <2>2. CASE enabled \subseteq before.enabled
    BY <2>2
  <2>3. CASE ~(enabled \subseteq before.enabled)
    <3>1. PICK t \in enabled \ before.enabled : TRUE
      BY <2>3
    <3>2. t \in Planned /\ enabled \ before.enabled \subseteq {t}
      BY <2>1, <3>1 DEF ArmedBut
    <3>3. {t} \in {{}} \cup {{x} : x \in Planned}
      BY <3>2
    <3> QED
      BY <3>2, <3>3
  <2> QED
    BY <2>2, <2>3
<1>5. Atomic!Abort(plan)
  BY <1>1, <1>2, <1>3, <1>4, SeenAtTheEnd DEF Atomic!Abort
<1> QED
  BY <1>1, <1>5

LEMMA RemoveStep ==
  ASSUME PromiseInv, PromiseInv', UnstageDone, ~flawed
  PROVE  \E units \in SUBSET Unit : Atomic!Remove(units)
<1>1. pc = "unstage" /\ UNCHANGED <<installed, enabled, before>> /\ Finish("removed")
  BY DEF UnstageDone
<1>2. /\ doomed.installed \subseteq Unit /\ installed \in [Unit -> Content]
      /\ before.files \in [Unit -> Content]
  BY DEF PromiseInv, Inv, TypeOK
<1>3. /\ enabled = before.enabled \ doomed.installed
      /\ \A u \in Unit : installed[u] = IF u \in doomed.installed THEN "absent" ELSE before.files[u]
      /\ \A u \in doomed.installed : Managed(before.files[u])
  BY <1>1 DEF PromiseInv, DeletedInv, RemovePhase
<1>4. installed = [u \in Unit |-> IF u \in doomed.installed THEN "absent" ELSE before.files[u]]
  BY <1>2, <1>3
<1>5. \A u \in doomed.installed : before.files[u] \in {c \in Content : Managed(c)}
  BY <1>2, <1>3
<1>6. Atomic!Remove(doomed.installed)
  BY <1>1, <1>3, <1>4, <1>5, SeenAtTheEnd DEF Atomic!Remove
<1> QED
  BY <1>2, <1>6

\* Every step is one of AtomicDeploy, or none.
LEMMA AtomicStep ==
  ASSUME PromiseInv, PromiseInv', [Next]_vars
  PROVE  [Atomic!Next]_(Atomic!vars)
<1>1. CASE Begin /\ pc' # "idle" /\ UNCHANGED <<installed, enabled>>
  <2>1. Atomic!Begin
    BY <1>1 DEF Begin, Atomic!Begin, BetweenOperations
  <2> QED
    BY <2>1 DEF Atomic!Next
<1>2. CASE pc # "idle" /\ pc' # "idle" /\ UNCHANGED <<before, result>>
  BY <1>2 DEF Atomic!vars, BetweenOperations
<1>3. CASE UNCHANGED vars
  BY <1>3 DEF vars, Atomic!vars, BetweenOperations
<1>4. ASSUME NEW u \in Unit, StageFails(u) PROVE Atomic!Damage
  <2>1. pc = "stage" /\ UNCHANGED <<installed, before>> /\ Finish("crashed")
    BY <1>4 DEF StageFails
  <2> QED
    BY <2>1, SymlinksFound, DamageStep
<1>5. CASE StageDone /\ pc' = "idle"
  <2>1. /\ pc = "stage" /\ UNCHANGED <<installed, enabled, before>>
        /\ Finish("staged") \/ Finish("failed")
    BY <1>5 DEF StageDone, EnterPhase
  <2>2. installed = before.files /\ enabled = before.enabled
    BY <2>1 DEF PromiseInv, Inv, RollbackInv, TriggersInv
  <2>3. Atomic!Decline
    BY <2>1, <2>2, SeenAtTheEnd DEF Atomic!Decline
  <2> QED
    BY <2>3 DEF Atomic!Next
<1>6. CASE EnableDone
  BY <1>6, CommitStep DEF Atomic!Next
<1>7. CASE UndoReload
  <2>1. pc = "undoReload" /\ UNCHANGED <<installed, before>>
    BY <1>7 DEF UndoReload
  <2>2. CASE Finish("partial")
    BY <2>1, <2>2, SymlinksFound, DamageStep DEF Atomic!Next
  <2>3. CASE ~flawed /\ Finish("rolledBack")
    BY <1>7, <2>3, AbortStep DEF Atomic!Next
  <2> QED
    BY <1>7, <2>2, <2>3 DEF UndoReload, RollbackOutcome
<1>8. CASE UnstageDone
  <2>1. pc = "unstage" /\ UNCHANGED <<installed, before>>
    BY <1>8 DEF UnstageDone
  <2>2. CASE flawed
    BY <1>8, <2>1, <2>2, SymlinksFound, DamageStep DEF Atomic!Next, UnstageDone
  <2> QED
    BY <1>8, <2>2, RemoveStep DEF Atomic!Next
<1>9. CASE Crash
  BY <1>9, CrashStep DEF Atomic!Next
<1>10. ASSUME NEW u \in Unit, StageFails(u) PROVE Atomic!Next
  BY <1>4, <1>10 DEF Atomic!Next
<1>11. CASE StageDone /\ pc' # "idle"
  <2>1. pc # "idle" /\ UNCHANGED <<before, result>>
    BY <1>11 DEF StageDone, Finish
  <2> QED
    BY <1>2, <1>11, <2>1
<1>12. CASE Next
  <2> HIDE DEF Next
  <2> QED
    BY <1>1, <1>2, <1>5, <1>6, <1>7, <1>8, <1>9, <1>10, <1>11, <1>12, KindsOfStep
<1> QED
  BY <1>3, <1>12

\* apply and remove keep, whatever fails or dies in between, the promises an operator can
\* read off their reports.
THEOREM AtomicSafe == Spec => ImplementsAtomicDeploy
<1>1. Init => Atomic!Init
  <2> SUFFICES ASSUME Init PROVE Atomic!Init
    OBVIOUS
  <2>1. TypeOK
    BY InitType
  <2> QED
    BY <2>1 DEF Init, TypeOK, Atomic!Init, BetweenOperations
<1>2. PromiseInv /\ PromiseInv' /\ [Next]_vars => [Atomic!Next]_(Atomic!vars)
  BY AtomicStep
<1> QED
  BY <1>1, <1>2, Promises, PTL DEF Spec, ImplementsAtomicDeploy, Atomic!Spec
-----------------------------------------------------------------------------
(***************************************************************************)
(* An operation does a bounded amount of work.                             *)
(***************************************************************************)
\* How many phases an operation may still pass through, the current one included.
PhasesLeft ==
  CASE pc = "stage" -> 9 [] pc = "write" -> 8 [] pc = "reload" -> 7 [] pc = "enable" -> 6
    [] pc = "undoDisable" -> 5 [] pc = "undoRestore" -> 4 [] pc = "undoReload" -> 3
    [] pc = "disable" -> 6 [] pc = "unlink" -> 5 [] pc = "unstage" -> 4
    [] OTHER -> 0

\* A bound on the steps still to take: each phase treats no more than all units.
Work == PhasesLeft * (Cardinality(Unit) + 1) + Cardinality(todo)

\* While an operation runs, whatever fails, no step leaves as much to do as there was.
WorkShrinks == pc # "idle" => Work' < Work

\* The phases that call systemctl on what is left to do have only triggers left.
OnlyTriggersLeft == pc \in {"enable", "undoDisable", "disable"} => todo \subseteq Trigger

LEMMA UnitsAreFinite ==
  ASSUME IsFiniteSet(Loop)
  PROVE  IsFiniteSet(Unit) /\ Cardinality(Unit) \in Nat
<1>1. Kind = ({"service"} \cup {"timer"}) \cup {"path"}
  BY DEF Kind
<1>2. IsFiniteSet(Kind)
  BY <1>1, FS_Singleton, FS_Union
<1> QED
  BY <1>2, FS_Product, FS_CardinalityType DEF Unit

\* What is left of a phase is finite, and becomes less with each unit treated.
LEMMA LeftToDo ==
  ASSUME IsFiniteSet(Loop), NEW S \in SUBSET Unit
  PROVE  /\ Cardinality(S) \in 0..Cardinality(Unit)
         /\ \A u \in S : Cardinality(S \ {u}) < Cardinality(S)
<1>1. IsFiniteSet(S) /\ Cardinality(S) <= Cardinality(Unit)
  BY UnitsAreFinite, FS_Subset
<1>2. Cardinality(S) \in Nat
  BY <1>1, FS_CardinalityType
<1>3. ASSUME NEW u \in S PROVE Cardinality(S \ {u}) < Cardinality(S)
  <2>1. Cardinality(S \ {u}) = Cardinality(S) - 1
    BY <1>1, <1>3, FS_RemoveElement, Zenon
  <2> QED
    BY <1>2, <2>1
<1> QED
  BY <1>1, <1>2, <1>3, UnitsAreFinite

LEMMA TreatedIsLess ==
  ASSUME IsFiniteSet(Loop), TypeOK, NEW u \in todo, Treated(u), pc' = pc
  PROVE  Work' < Work
<1>1. Cardinality(todo) \in Nat /\ Cardinality(todo') < Cardinality(todo)
  BY LeftToDo DEF Treated, TypeOK
<1>2. Cardinality(todo') \in Nat
  BY LeftToDo DEF Treated, TypeOK
<1>3. PhasesLeft' = PhasesLeft /\ PhasesLeft \in Nat
  BY DEF PhasesLeft
<1>4. PhasesLeft * (Cardinality(Unit) + 1) \in Nat
  BY <1>3, UnitsAreFinite
<1> QED
  BY <1>1, <1>2, <1>3, <1>4 DEF Work

\* One phase less outweighs whatever a phase has to treat.
LEMMA LaterPhase ==
  ASSUME NEW p \in Nat, NEW q \in Nat, q < p, NEW K \in Nat, NEW x \in Nat, NEW y \in Nat, y < K
  PROVE  q * K + y < p * K + x
<1> DEFINE d == p - q - 1
<1>1. d \in Nat /\ p = (q + 1) + d
  OBVIOUS
<1> HIDE DEF d
<1>2. p * K = (q + 1) * K + d * K
  BY <1>1
<1>3. (q + 1) * K = q * K + K
  OBVIOUS
<1>4. d * K \in Nat /\ q * K \in Nat /\ p * K \in Nat
  BY <1>1
<1> QED
  BY <1>2, <1>3, <1>4

LEMMA LaterIsLess ==
  ASSUME IsFiniteSet(Loop), TypeOK, TypeOK', PhasesLeft' < PhasesLeft
  PROVE  Work' < Work
<1>1. Cardinality(todo) \in Nat /\ Cardinality(todo') \in 0..Cardinality(Unit)
  BY LeftToDo DEF TypeOK
<1>2. PhasesLeft \in Nat /\ PhasesLeft' \in Nat
  BY DEF PhasesLeft
<1>3. Cardinality(Unit) + 1 \in Nat /\ Cardinality(todo') < Cardinality(Unit) + 1
  BY <1>1, UnitsAreFinite
<1>4. Cardinality(todo') \in Nat
  BY <1>1, UnitsAreFinite
<1> QED
  BY <1>1, <1>2, <1>3, <1>4, LaterPhase DEF Work

\* A step either treats a unit of its phase or goes on to a later one.
LEMMA StepAdvances ==
  ASSUME TypeOK, Step \/ Crash
  PROVE  \/ pc' = pc /\ \E u \in todo : Treated(u)
         \/ PhasesLeft' < PhasesLeft
<1>1. ASSUME NEW u \in Unit, \/ Stage(u) \/ WriteUnit(u) \/ Restore(u) \/ RestoreFails(u)
                             \/ Unlink(u) \/ Unstage(u)
      PROVE  pc' = pc /\ \E x \in todo : Treated(x)
  BY <1>1 DEF Stage, WriteUnit, Restore, RestoreFails, Unlink, Unstage
<1>2. ASSUME NEW t \in Trigger, Enable(t) \/ UndoDisable(t) \/ Disable(t)
      PROVE  pc' = pc /\ \E x \in todo : Treated(x)
  BY <1>2 DEF Enable, UndoDisable, Disable
<1>3. ASSUME pc # "idle", pc' = "idle" PROVE PhasesLeft' < PhasesLeft
  BY <1>3 DEF PhasesLeft, TypeOK, Phase, InstallPhase, RollbackPhase, RemovePhase
<1>4. ASSUME NEW u \in Unit, StageFails(u) PROVE PhasesLeft' < PhasesLeft
  BY <1>3, <1>4 DEF StageFails, Finish
<1>5. CASE StageDone
  BY <1>5 DEF StageDone, Finish, EnterPhase, PhasesLeft
<1>6. ASSUME \/ \E u \in Unit : WriteFails(u)
             \/ \E t \in Trigger : EnableFails(t)
             \/ WriteRefused \/ ReloadFails
      PROVE  PhasesLeft' < PhasesLeft
  <2>1. pc \in InstallPhase /\ pc' = "undoDisable"
    BY <1>6 DEF WriteFails, EnableFails, WriteRefused, ReloadFails, BeginRollback, EnterPhase,
                   InstallPhase
  <2> QED
    BY <2>1 DEF PhasesLeft, InstallPhase
<1>7. CASE WriteDone \/ Reload \/ UndoDisableDone \/ RestoreDone \/ DisableDone \/ UnlinkDone
  BY <1>7 DEF WriteDone, Reload, UndoDisableDone, RestoreDone, DisableDone, UnlinkDone,
              EnterPhase, PhasesLeft
<1>8. CASE EnableDone \/ UndoReload \/ UnstageDone \/ Crash
  BY <1>3, <1>8 DEF EnableDone, UndoReload, UnstageDone, Crash, Finish
<1>9. CASE Step
  BY <1>1, <1>2, <1>4, <1>5, <1>6, <1>7, <1>8, <1>9 DEF Step
<1> QED
  BY <1>8, <1>9

LEMMA StepOnlyTriggersLeft ==
  ASSUME TypeOK, OnlyTriggersLeft, [Next]_vars
  PROVE  OnlyTriggersLeft'
<1> USE DEF TypeOK, OnlyTriggersLeft
<1>1. CASE Step \/ Crash
  <2>1. CASE pc' = pc /\ \E u \in todo : Treated(u)
    BY <2>1 DEF Treated
  <2>2. CASE pc' # pc
    <3>1. CASE BeginRollback \/ UNCHANGED vars
      BY <3>1 DEF BeginRollback, EnterPhase, vars
    <3>2. CASE \/ Reload \/ DisableDone \/ UnlinkDone \/ WriteDone
               \/ UndoDisableDone \/ RestoreDone \/ StageDone
      BY <3>2 DEF Reload, DisableDone, UnlinkDone, WriteDone, UndoDisableDone, RestoreDone,
                  StageDone, EnterPhase, Finish, PlannedTriggers
    <3>3. CASE pc' = "idle"
      BY <3>3
    <3> QED
      BY <1>1, <2>2, <3>1, <3>2, <3>3 DEF Step, Crash, Finish, Stage, StageFails, WriteUnit, WriteFails,
         WriteRefused, ReloadFails, Enable, EnableFails, EnableDone, UndoDisable, Restore, RestoreFails,
         UndoReload, Disable, Unlink, Unstage, UnstageDone
  <2>3. PhasesLeft' < PhasesLeft => pc' # pc
    <3> SUFFICES ASSUME pc' = pc, PhasesLeft' < PhasesLeft PROVE FALSE
      OBVIOUS
    <3>1. PhasesLeft' = PhasesLeft /\ PhasesLeft \in Nat
      BY DEF PhasesLeft
    <3> QED
      BY <3>1
  <2> QED
    BY <1>1, <2>1, <2>2, <2>3, StepAdvances
<1>2. CASE StartApply \/ StartRemove
  BY <1>2 DEF StartApply, StartRemove, EnterPhase
<1>3. CASE UNCHANGED vars
  BY <1>3 DEF vars
<1> QED
  BY <1>1, <1>2, <1>3 DEF Next

\* An apply or a removal (deploy.py:343-356, 415-523, 619-656) does a bounded amount of work,
\* whatever fails on the way, for every finite fleet: each step leaves less to do, so there are
\* at most Work of them; and a phase with units left to treat has only units it can treat.
THEOREM OperationIsBounded ==
  ASSUME IsFiniteSet(Loop)
  PROVE  Spec => [](Work \in Nat) /\ [][WorkShrinks]_vars /\ []OnlyTriggersLeft
<1>1. TypeOK => Work \in Nat
  <2> SUFFICES ASSUME TypeOK PROVE Work \in Nat
    OBVIOUS
  <2>1. Cardinality(todo) \in Nat /\ Cardinality(Unit) \in Nat
    BY LeftToDo, UnitsAreFinite DEF TypeOK
  <2>2. PhasesLeft \in Nat
    BY DEF PhasesLeft
  <2> QED
    BY <2>1, <2>2 DEF Work
<1>2. TypeOK /\ TypeOK' /\ [Next]_vars => [WorkShrinks]_vars
  <2> SUFFICES ASSUME TypeOK, TypeOK', Next, pc # "idle" PROVE Work' < Work
    BY DEF WorkShrinks
  <2>1. Step \/ Crash
    BY DEF Next, StartApply, StartRemove, Begin
  <2> QED
    BY <2>1, StepAdvances, TreatedIsLess, LaterIsLess
<1>3. Init => OnlyTriggersLeft
  BY DEF Init, OnlyTriggersLeft
<1> QED
  BY <1>1, <1>2, <1>3, StepOnlyTriggersLeft, TypeCorrect, PTL DEF Spec
=============================================================================
