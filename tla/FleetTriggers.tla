--------------------------- MODULE FleetTriggers ---------------------------
(***************************************************************************)
(* The fleet as a whole: what its manifests declare, which fleets          *)
(* `loopctl apply` accepts (src/src/loopcraft/manifest.py load_all,        *)
(* deploy.py plan_deployment), which triggers it arms (scheduler.py), and  *)
(* how runs wake each other through the ledger files they write.           *)
(*                                                                         *)
(* An apply is one step here, and succeeds: UnitDeploy has what can happen *)
(* in it, RunLifecycle what happens in a run.  Declared paths are ledger   *)
(* paths that validate; one file may be spelled in more than one way.      *)
(***************************************************************************)
EXTENDS Naturals, FiniteSets

CONSTANTS
  Loop,       \* the loops there may be
  File,       \* the files of the ledger
  Spelling,   \* the ways to spell one: state/x, ./state/x, state//x
  Fleets,     \* the fleets the operator may write down
  MaxEdits,   \* bound: how often the manifests are edited
  MaxTicks    \* bound: how many timers elapse, or files change from outside

Path == [file : File, spelling : Spelling]
Manifest == [cadence : {"cron", "on-artifact", "event"}, inputs : SUBSET Path,
             outputs : SUBSET Path, dependsOn : SUBSET Loop]

\* A fleet gives some of the loops a manifest.
IsFleet(fl) == DOMAIN fl \subseteq Loop /\ fl \in [DOMAIN fl -> Manifest]

ASSUME FleetsAssumption == \A fl \in Fleets : IsFleet(fl)
ASSUME BoundAssumption == MaxEdits \in Nat /\ MaxTicks \in Nat

VARIABLES
  fleet,      \* the manifests in the source tree, by loop
  armed,      \* the triggers of each loop that systemd has enabled
  due,        \* the loops whose service is to be started
  running,    \* the loops whose service runs
  writes,     \* the files a running loop may write
  edits, ticks,
  dueTo,      \* history: the loops whose writes made it due, since the last change
  ranFor,     \* history: the same of the run under way
  tracked     \* history: the runs started since the last change of the deployment

deployment == <<fleet, armed, edits>>
services == <<due, running, writes, ticks>>
history == <<dueTo, ranFor, tracked>>
vars == <<deployment, services, history>>

Unarmed == [timer |-> FALSE, watch |-> {}]

TypeOK ==
  /\ IsFleet(fleet)
  /\ armed \in [Loop -> [timer : BOOLEAN, watch : SUBSET File]]
  /\ due \subseteq Loop /\ running \subseteq Loop /\ tracked \subseteq running
  /\ writes \in [Loop -> SUBSET File]
  /\ dueTo \in [Loop -> SUBSET Loop] /\ ranFor \in [Loop -> SUBSET Loop]
  /\ edits \in 0..MaxEdits /\ ticks \in 0..MaxTicks

Init ==
  /\ fleet = [l \in {} |-> {}]
  /\ armed = [l \in Loop |-> Unarmed]
  /\ due = {} /\ running = {} /\ writes = [l \in Loop |-> {}]
  /\ edits = 0 /\ ticks = 0
  /\ dueTo = [l \in Loop |-> {}] /\ ranFor = [l \in Loop |-> {}] /\ tracked = {}

-----------------------------------------------------------------------------
(***************************************************************************)
(* What the plan finds wrong with a fleet.                                 *)
(***************************************************************************)
\* _norm: the files behind declared paths, however they are spelled.
FilesOf(paths) == {p.file : p \in paths}
\* mutant: a declared path stands for itself
SpelledOut(fl, l) == fl[l].outputs
Written(fl, l) == FilesOf(fl[l].outputs)

\* One producing loop per file, and one declaration of it (manifest.py:482-507).
\* mutant: outputs are compared as they are spelled
SharedSpelling(fl) ==
  \E k, l \in DOMAIN fl : k # l /\ fl[k].outputs \cap fl[l].outputs # {}
SharedOutput(fl) ==
  \/ \E k, l \in DOMAIN fl : k # l /\ Written(fl, k) \cap Written(fl, l) # {}
  \/ \E l \in DOMAIN fl : \E p, q \in fl[l].outputs : p # q /\ p.file = q.file

UnknownUpstream(fl) == \E l \in DOMAIN fl : ~(fl[l].dependsOn \subseteq DOMAIN fl)

\* <<k, l>>: l depends on k (_detect_cycles).
\* mutant: only what depends_on says
DeclaredOnly(fl) ==
  {e \in (DOMAIN fl) \X (DOMAIN fl) : e[1] \in fl[e[2]].dependsOn}
\* mutant: inputs and outputs are matched as they are spelled
SpelledAlike(fl) ==
  {e \in (DOMAIN fl) \X (DOMAIN fl) :
     \/ e[1] \in fl[e[2]].dependsOn
     \/ e[1] # e[2] /\ fl[e[1]].outputs \cap fl[e[2]].inputs # {}}
Edges(fl) ==
  {e \in (DOMAIN fl) \X (DOMAIN fl) :
     \/ e[1] \in fl[e[2]].dependsOn
     \/ e[1] # e[2] /\ Written(fl, e[1]) \cap FilesOf(fl[e[2]].inputs) # {}}

\* A finite graph has a cycle iff some of its nodes all have a successor among them
\* (FleetTriggersProofs, CycleIsASimpleCycle).
HasCycle(edges) ==
  \E S \in (SUBSET Loop) \ {{}} : \A k \in S : \E l \in S : <<k, l>> \in edges

\* _watched_inputs: an input is left out if an output is spelled the same way.
Watched(m) == FilesOf(m.inputs \ m.outputs)

\* The trigger rendered for a manifest, and what has none (render_loop_units).
Trigger(m) == [timer |-> m.cadence = "cron",
               watch |-> IF m.cadence = "on-artifact" THEN Watched(m) ELSE {}]
Renderable(fl) == \A l \in DOMAIN fl : Trigger(fl[l]) # Unarmed

\* DeploymentPlan.ok, as far as the manifests decide it.
PlanOk(fl) ==
  ~SharedOutput(fl) /\ ~UnknownUpstream(fl) /\ ~HasCycle(Edges(fl)) /\ Renderable(fl)

-----------------------------------------------------------------------------
(***************************************************************************)
(* The operator.  With every change of the deployment the chains of        *)
(* causes begin anew; runs under way count as coming from outside.         *)
(***************************************************************************)
ForgetCauses ==
  /\ dueTo' = [l \in Loop |-> {}] /\ ranFor' = [l \in Loop |-> {}] /\ tracked' = {}

Edit ==
  /\ edits < MaxEdits /\ edits' = edits + 1
  /\ fleet' \in Fleets
  /\ ForgetCauses
  /\ UNCHANGED <<armed, services>>

\* A unit of the same name is replaced; a trigger of the other kind stays as it is.
Arm(l) ==
  LET new == Trigger(fleet[l]) IN
    [timer |-> new.timer \/ armed[l].timer,
     watch |-> IF new.watch = {} THEN armed[l].watch ELSE new.watch]

\* apply --install
Apply ==
  /\ PlanOk(fleet) /\ fleet # [l \in {} |-> {}]
  /\ armed' = [l \in Loop |-> IF l \in DOMAIN fleet THEN Arm(l) ELSE armed[l]]
  /\ ForgetCauses
  /\ UNCHANGED <<fleet, edits, services>>

\* remove <loop>, whether it has a manifest or not
Remove(l) ==
  /\ armed[l] # Unarmed
  /\ armed' = [armed EXCEPT ![l] = Unarmed]
  /\ ForgetCauses
  /\ UNCHANGED <<fleet, edits, services>>

-----------------------------------------------------------------------------
(***************************************************************************)
(* systemd and the runs.                                                   *)
(***************************************************************************)
\* A timer that elapses while its service runs starts nothing more.
Tick(l) ==
  /\ ticks < MaxTicks /\ ticks' = ticks + 1
  /\ armed[l].timer
  /\ due' = due \cup ({l} \ running)
  /\ UNCHANGED <<deployment, running, writes, history>>

\* PathModified=: those that watch f are due; of the running ones some may miss it.
Modified(f, causes) ==
  \E woken \in SUBSET {l \in Loop : f \in armed[l].watch} :
    /\ {l \in Loop : f \in armed[l].watch} \ running \subseteq woken
    /\ due' = due \cup woken
    /\ dueTo' = [l \in Loop |-> IF l \in woken THEN dueTo[l] \cup causes[l] ELSE dueTo[l]]

OutsideWrite(f) ==
  /\ ticks < MaxTicks /\ ticks' = ticks + 1
  /\ Modified(f, [l \in Loop |-> {}])
  /\ UNCHANGED <<deployment, running, writes, ranFor, tracked>>

\* `loopctl run`, with the manifest as it is now; a loop without one does not run.
Start(l) ==
  /\ l \in due \ running /\ l \in DOMAIN fleet
  /\ due' = due \ {l} /\ running' = running \cup {l}
  /\ writes' = [writes EXCEPT ![l] = Written(fleet, l)]
  /\ ranFor' = [ranFor EXCEPT ![l] = dueTo[l]]
  /\ dueTo' = [dueTo EXCEPT ![l] = {}]
  /\ tracked' = tracked \cup {l}
  /\ UNCHANGED <<deployment, ticks>>

StartFails(l) ==
  /\ l \in due \ running
  /\ due' = due \ {l} /\ dueTo' = [dueTo EXCEPT ![l] = {}]
  /\ UNCHANGED <<deployment, running, writes, ticks, ranFor, tracked>>

\* What it is for another loop to be woken by the run of l, or for l itself.
Causes(l) ==
  [m \in Loop |-> IF l \notin tracked THEN {}
                  ELSE IF m = l THEN ranFor[l] ELSE ranFor[l] \cup {l}]

Write(l, f) ==
  /\ l \in running /\ f \in writes[l]
  /\ Modified(f, Causes(l))
  /\ UNCHANGED <<deployment, running, writes, ticks, ranFor, tracked>>

End(l) ==
  /\ l \in running
  /\ running' = running \ {l} /\ tracked' = tracked \ {l}
  /\ writes' = [writes EXCEPT ![l] = {}] /\ ranFor' = [ranFor EXCEPT ![l] = {}]
  /\ UNCHANGED <<deployment, due, ticks, dueTo>>

Next ==
  \/ Edit \/ Apply
  \/ \E l \in Loop : Remove(l) \/ Tick(l) \/ Start(l) \/ StartFails(l) \/ End(l)
  \/ \E f \in File : OutsideWrite(f) \/ \E l \in Loop : Write(l, f)

Spec == Init /\ [][Next]_vars

\* systemd starts what is due, and a run ends: every loop of the repository sets a
\* max_runtime, which bounds its agent.
FairSpec ==
  Spec /\ \A l \in Loop : WF_vars(Start(l) \/ StartFails(l)) /\ WF_vars(End(l))

-----------------------------------------------------------------------------
(***************************************************************************)
(* Properties.                                                             *)
(***************************************************************************)
\* The fleet is one that apply accepts, and no path unit of an earlier one is left.
Coherent ==
  PlanOk(fleet) /\ \A l \in DOMAIN fleet : armed[l].watch \subseteq Trigger(fleet[l]).watch

NoLoopCausesItself == \A l \in Loop : l \notin dueTo[l] \cup ranFor[l]

\* Safety, what the cycle check is for (manifest.py:523-552, scheduler.py:413-437): no run
\* of a loop leads, through files that other loops write, to another run of that loop.
NoFeedback == Coherent => NoLoopCausesItself

\* Safety (manifest.py:479-481): two loops that run at the same time do not write the same
\* file, however it is spelled.
OneWriter ==
  Coherent => \A k, l \in tracked : k # l => writes[k] \cap writes[l] = {}

\* Liveness: when no timer elapses any more and nothing is written from outside, the fleet
\* comes to rest, unless a loop watches what it writes itself under another spelling.
NoLoopWatchesItself ==
  \A l \in DOMAIN fleet : armed[l].watch \cap Written(fleet, l) = {}
CascadeEnds ==
  <>[](Coherent /\ NoLoopWatchesItself) => <>[](due = {} /\ running = {})
=============================================================================
