----------------------------- MODULE ApplyGate -----------------------------
(***************************************************************************)
(* The dependency gate of `loopctl apply` (src/src/loopcraft/deploy.py,    *)
(* cli.py, config.py, runners/capabilities.py): the environment a service  *)
(* will have is predicted when the fleet is applied, each loop's preflight *)
(* is judged in it, and the service later does its own preflight in the    *)
(* environment it really has.  In between the operator goes on editing.    *)
(*                                                                         *)
(* FleetTriggers has what the plan says of manifests, UnitDeploy what      *)
(* becomes of the unit files, RunLifecycle what follows a preflight.       *)
(***************************************************************************)
EXTENDS Naturals

CONSTANTS
  Loop,      \* the loops of the fleet
  Vendor,    \* the runtimes; the CLI of each has its name
  Binary,    \* the vendors' CLIs, the tools, and loopctl itself
  Path,      \* the values PATH may have
  Var,       \* the environment variables that matter, PATH among them
  Values,    \* the values the operator may give each of them
  Needs,     \* what each loop depends on
  Hosts,     \* what a host may be like at the start
  MaxEdits   \* bound: how often the operator changes something

Value == {"unset", "empty", "set"} \cup Vendor \cup Path
Environment == [Var -> Value]
SecretsAt == {"fine", "misplaced", "gone"}   \* out of the trees; in one, or a link; missing
Need == [vendor : Vendor \cup {"default"}, on : SUBSET Vendor, tools : SUBSET Binary,
         auth : SUBSET Binary, tokens : SUBSET Var, env : SUBSET Var, live : SUBSET Var]
Host == [shell : Environment, dotenv : Environment, secrets : Environment,
         found : [Path -> SUBSET Binary]]

ASSUME NamesAssumption ==
  /\ {"PATH", "LOOPCRAFT_VENDOR"} \subseteq Var /\ Vendor \subseteq Binary
  /\ "loopctl" \in Binary /\ "default" \notin Vendor
  /\ Path \cap {"unset", "empty", "set"} = {} /\ Vendor \cap {"unset", "empty"} = {}
ASSUME ValuesAssumption == Values \in [Var -> SUBSET Value] /\ Needs \in [Loop -> Need]
\* A shell has a PATH.
ASSUME HostsAssumption ==
  Hosts \subseteq Host /\ \A h \in Hosts : h.shell["PATH"] \in Path
ASSUME PathAssumption == Values["PATH"] \subseteq Path
ASSUME BoundAssumption == MaxEdits \in Nat

VARIABLES
  shell,      \* the environment of the operator's shell
  dotenv,     \* the .env of the source tree
  secrets,    \* the environment file of the scheduler
  secretsAt,  \* where it is
  found,      \* the binaries found on each PATH
  assets,     \* the loops whose skill, verify file and content config are in order
  default,    \* default_vendor of loopcraft.toml
  hasFile,    \* scheduler.environment_file is set
  path,       \* scheduler.path, or systemd's own
  units,      \* what the installed services were rendered with
  outcome,    \* how the service of each loop last fared in its preflight
  gated,      \* history: applied with preflight, and the service's surroundings kept since
  checked,    \* history: the vendor each loop was judged with
  edits

operator == <<shell, dotenv>>
surroundings == <<secrets, secretsAt, found, assets, default>>
settings == <<hasFile, path>>
deployed == <<units, outcome, checked>>
vars == <<operator, surroundings, settings, deployed, gated, edits>>

NoUnits == [path |-> "unset", file |-> FALSE]

TypeOK ==
  /\ {shell, dotenv, secrets} \subseteq Environment /\ secretsAt \in SecretsAt
  /\ found \in [Path -> SUBSET Binary] /\ assets \subseteq Loop /\ default \in Vendor
  /\ hasFile \in BOOLEAN /\ path \in Path
  /\ units \in [path : Path, file : BOOLEAN] \cup {NoUnits}
  /\ outcome \in [Loop -> {"none", "ready", "blocked"}]
  /\ gated \in BOOLEAN /\ checked \in [Loop -> Value] /\ edits \in 0..MaxEdits

Init ==
  /\ \E h \in Hosts :
       shell = h.shell /\ dotenv = h.dotenv /\ secrets = h.secrets /\ found = h.found
  /\ secretsAt = "fine" /\ assets = Loop /\ default \in Vendor
  /\ hasFile \in BOOLEAN /\ path \in Path
  /\ units = NoUnits /\ outcome = [l \in Loop |-> "none"]
  /\ gated = FALSE /\ checked = [l \in Loop |-> "unset"] /\ edits = 0

-----------------------------------------------------------------------------
(***************************************************************************)
(* Environments.                                                           *)
(***************************************************************************)
Unset == [v \in Var |-> "unset"]
Truthy(x) == x \notin {"unset", "empty"}

\* The variables of both, as in `over` where it has them.
Overlay(under, over) == [v \in Var |-> IF over[v] = "unset" THEN under[v] ELSE over[v]]

\* What the CLI's process has after load_dotenv, which sets what is not set yet.
Process(env) == Overlay(dotenv, env)

\* scheduled_env_value: the environment file and nothing else.
\* mutant: the environment apply runs in
SeenByOperator == Process(shell)
Seen == IF hasFile /\ secretsAt # "gone" THEN secrets ELSE Unset

\* probe_env, what a live probe runs in.
\* mutant: the probe inherits what it does not find
ProbeInherits == Overlay(Process(shell), Seen)
ProbeEnv == Overlay(Seen, [Unset EXCEPT !["PATH"] = path])

\* systemd's: an environment file overrides what Environment= sets in the unit.
Rendered == [Unset EXCEPT !["PATH"] = units.path]
ServiceEnv == Overlay(Rendered, IF units.file THEN secrets ELSE Unset)

\* effective_vendor, with the default as load resolved it before load_dotenv.
EffectiveVendor(l, env) ==
  IF Needs[l].vendor # "default" THEN Needs[l].vendor
  ELSE IF Truthy(env["LOOPCRAFT_VENDOR"]) THEN env["LOOPCRAFT_VENDOR"]
  ELSE default

-----------------------------------------------------------------------------
(***************************************************************************)
(* Preflight, with the variables, the PATH and the probes' environment it  *)
(* is to be judged in.                                                     *)
(***************************************************************************)
\* The probes of the declared auth bundles and APIs.
ProbesPass(l, env, onPath, probe) ==
  /\ Needs[l].auth \subseteq found[onPath]
  /\ Needs[l].tokens # {} => \E v \in Needs[l].tokens : Truthy(env[v])
  /\ \A v \in Needs[l].live : Truthy(probe[v])

PreflightOk(l, vendor, env, onPath, probe) ==
  /\ vendor \in Needs[l].on
  /\ l \in assets
  /\ {vendor} \cup Needs[l].tools \subseteq found[onPath]
  /\ \A v \in Needs[l].env : Truthy(env[v])
  /\ ProbesPass(l, env, onPath, probe)

-----------------------------------------------------------------------------
(***************************************************************************)
(* apply and auth.                                                         *)
(***************************************************************************)
RenderOk == "loopctl" \in found[path]

\* environment_file_health
FileHealthy == hasFile => secretsAt = "fine"

\* validate_environment
\* mutant: where the file is does not matter
EnvironmentAnywhere ==
  \A l \in Loop : \A v \in Needs[l].env : hasFile /\ secrets[v] # "unset"
EnvironmentOk ==
  /\ FileHealthy
  /\ \A l \in Loop : \A v \in Needs[l].env : hasFile /\ secrets[v] # "unset"

ScheduledPreflightOk(l) ==
  PreflightOk(l, EffectiveVendor(l, shell), Seen, path, ProbeEnv)

PlanOk(skipPreflight) ==
  RenderOk /\ EnvironmentOk /\ (skipPreflight \/ \A l \in Loop : ScheduledPreflightOk(l))

\* The service's part of what is rendered.
\* mutant: scheduler.path as it stands in the file, where it need not be
RenderRaw == [path |-> "unset", file |-> hasFile]
Render == [path |-> path, file |-> hasFile]

\* apply --install, with or without --skip-preflight
Apply(skipPreflight) ==
  /\ PlanOk(skipPreflight)
  /\ units' = Render /\ outcome' = [l \in Loop |-> "none"]
  /\ gated' = ~skipPreflight
  /\ checked' = [l \in Loop |-> EffectiveVendor(l, shell)]
  /\ UNCHANGED <<operator, surroundings, settings, edits>>

\* What `auth` reports: a variable may be there and be empty.
AuthOk ==
  /\ FileHealthy
  /\ \A l \in Loop : ProbesPass(l, Seen, path, ProbeEnv)
  /\ \A l \in Loop : \A v \in Needs[l].env : Seen[v] # "unset"

-----------------------------------------------------------------------------
(***************************************************************************)
(* The service starts `loopctl run`, which judges by what its process has. *)
(***************************************************************************)
Starts == units.file => secretsAt # "gone"

ServicePreflightOk(l) ==
  LET env == Process(ServiceEnv) IN
    Starts /\ PreflightOk(l, EffectiveVendor(l, ServiceEnv), env, env["PATH"], env)

Fire(l) ==
  /\ units # NoUnits
  /\ outcome' = [outcome EXCEPT ![l] = IF ServicePreflightOk(l) THEN "ready" ELSE "blocked"]
  /\ UNCHANGED <<operator, surroundings, settings, units, checked, gated, edits>>

-----------------------------------------------------------------------------
(***************************************************************************)
(* The operator's edits.  Those of the shell, of .env and of the scheduler *)
(* settings are none of the service's business once it is installed.       *)
(***************************************************************************)
Change == edits < MaxEdits /\ edits' = edits + 1

EditShell ==
  /\ Change
  /\ \E v \in Var : \E x \in Values[v] : shell' = [shell EXCEPT ![v] = x]
  /\ UNCHANGED <<dotenv, surroundings, settings, deployed, gated>>

EditDotenv ==
  /\ Change
  /\ \E v \in Var : \E x \in Values[v] : dotenv' = [dotenv EXCEPT ![v] = x]
  /\ UNCHANGED <<shell, surroundings, settings, deployed, gated>>

EditSettings ==
  /\ Change
  /\ hasFile' \in BOOLEAN /\ path' \in Path
  /\ UNCHANGED <<operator, surroundings, deployed, gated>>

EditSecrets ==
  /\ Change /\ gated' = FALSE
  /\ \/ /\ \E v \in Var : \E x \in Values[v] \cup {"unset"} :
             secrets' = [secrets EXCEPT ![v] = x]
        /\ UNCHANGED secretsAt
     \/ secretsAt' \in SecretsAt /\ UNCHANGED secrets
  /\ UNCHANGED <<operator, found, assets, default, settings, deployed>>

\* A CLI or a tool is put on a PATH, or taken from it.
Provision ==
  /\ Change /\ gated' = FALSE
  /\ \E p \in Path, b \in Binary :
       found' \in {[found EXCEPT ![p] = @ \cup {b}], [found EXCEPT ![p] = @ \ {b}]}
  /\ UNCHANGED <<operator, secrets, secretsAt, assets, default, settings, deployed>>

EditSource ==
  /\ Change /\ gated' = FALSE
  /\ assets' \in SUBSET Loop /\ default' \in Vendor
  /\ UNCHANGED <<operator, secrets, secretsAt, found, settings, deployed>>

Next ==
  \/ Apply(FALSE) \/ Apply(TRUE)
  \/ \E l \in Loop : Fire(l)
  \/ EditShell \/ EditDotenv \/ EditSettings \/ EditSecrets \/ Provision \/ EditSource

Spec == Init /\ [][Next]_vars

-----------------------------------------------------------------------------
(***************************************************************************)
(* Properties.                                                             *)
(***************************************************************************)
\* The service chooses the vendor it was judged with, and keeps the PATH of its unit.
SameVendor(l) == EffectiveVendor(l, ServiceEnv) = checked[l]
SamePath == ServiceEnv["PATH"] = units.path

\* Safety (README.md:132-136): "an unmet dependency is reported at `apply`, not at 3am".
\* While its surroundings stay as they were no service of a fleet that was applied with
\* preflight is blocked in its own, whatever else the operator edits; unless the
\* environment file changes its vendor or its PATH.
GateHolds ==
  \A l \in Loop : gated /\ SameVendor(l) /\ SamePath => outcome[l] # "blocked"

\* Safety (config.py:558-570): no edit of the shell or of .env changes what apply says, in
\* one direction or the other; but LOOPCRAFT_VENDOR does.
OperatorEdit ==
  UNCHANGED <<surroundings, settings>> /\ shell'["LOOPCRAFT_VENDOR"] = shell["LOOPCRAFT_VENDOR"]
KeepsVerdict == OperatorEdit => (PlanOk(FALSE)' <=> PlanOk(FALSE))
ShellIsIrrelevant == [][KeepsVerdict]_vars

\* Safety (cli.py:697-699): what apply accepts auth accepts, and what auth accepts has the
\* environment apply asks for.
AuthAgrees == (PlanOk(FALSE) => AuthOk) /\ (AuthOk => EnvironmentOk)
=============================================================================
