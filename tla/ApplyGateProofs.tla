-------------------------- MODULE ApplyGateProofs --------------------------
(***************************************************************************)
(* Proofs about ApplyGate, for any fleet, vendors, variables and hosts and *)
(* any number of edits.                                                    *)
(***************************************************************************)
EXTENDS ApplyGate, TLAPS

(***************************************************************************)
(* The invariant behind GateHolds.  While `gated` holds, every loop passes *)
(* its preflight in what the installed units show of the world, and a      *)
(* blocked service is one whose vendor or PATH is another.                 *)
(***************************************************************************)
FileEnv == IF units.file THEN secrets ELSE Unset
Judged(l) ==
  PreflightOk(l, checked[l], FileEnv, units.path,
              Overlay(FileEnv, [Unset EXCEPT !["PATH"] = units.path]))

GateInv ==
  gated =>
    /\ units \in [path : Path, file : BOOLEAN]
    /\ units.file => secretsAt = "fine"
    /\ \A l \in Loop : Judged(l)
    /\ \A l \in Loop : outcome[l] = "blocked" => ~(SameVendor(l) /\ SamePath)

-----------------------------------------------------------------------------
(***************************************************************************)
(* Type correctness.                                                       *)
(***************************************************************************)
\* One variable of an environment at a time is given a value.
LEMMA EditTyped ==
  ASSUME NEW env \in Environment, NEW v \in Var, NEW x \in Value
  PROVE  [env EXCEPT ![v] = x] \in Environment
  BY DEF Environment

\* The vendor of a loop is a value, whatever environment names it.
LEMMA VendorTyped ==
  ASSUME NEW l \in Loop, NEW env \in Environment, default \in Vendor
  PROVE  EffectiveVendor(l, env) \in Value
  BY NamesAssumption, ValuesAssumption DEF EffectiveVendor, Environment, Value, Need

LEMMA InitTypeOK == Init => TypeOK
<1> SUFFICES ASSUME Init PROVE TypeOK
  OBVIOUS
<1>1. PICK h \in Hosts : shell = h.shell /\ dotenv = h.dotenv /\ secrets = h.secrets /\ found = h.found
  BY DEF Init
<1>2. h \in Host
  BY HostsAssumption
<1>3. {shell, dotenv, secrets} \subseteq Environment /\ found \in [Path -> SUBSET Binary]
  BY <1>1, <1>2 DEF Host
<1>4. edits \in 0..MaxEdits /\ secretsAt \in SecretsAt
  BY BoundAssumption DEF Init, SecretsAt
<1>5. checked \in [Loop -> Value]
  BY DEF Init, Value
<1>6. QED
  BY <1>3, <1>4, <1>5 DEF Init, TypeOK

LEMMA NextTypeOK == TypeOK /\ [Next]_vars => TypeOK'
<1> SUFFICES ASSUME TypeOK, [Next]_vars PROVE TypeOK'
  OBVIOUS
<1> USE DEF operator, surroundings, settings, deployed
<1>0. ASSUME Change PROVE edits' \in 0..MaxEdits
  BY <1>0, BoundAssumption DEF Change, TypeOK
<1>1. ASSUME NEW skip \in BOOLEAN, Apply(skip) PROVE TypeOK'
  <2>1. checked' \in [Loop -> Value]
    <3>1. \A l \in Loop : EffectiveVendor(l, shell) \in Value
      BY VendorTyped DEF TypeOK
    <3>2. QED
      BY <1>1, <3>1 DEF Apply
  <2>2. units' \in [path : Path, file : BOOLEAN] \cup {NoUnits}
    BY <1>1 DEF Apply, Render, TypeOK
  <2>3. outcome' \in [Loop -> {"none", "ready", "blocked"}] /\ gated' \in BOOLEAN
    BY <1>1 DEF Apply
  <2>4. QED
    BY <1>1, <2>1, <2>2, <2>3 DEF Apply, TypeOK
<1>2. ASSUME NEW l \in Loop, Fire(l) PROVE TypeOK'
  <2>1. outcome' \in [Loop -> {"none", "ready", "blocked"}]
    BY <1>2 DEF Fire, TypeOK
  <2>2. QED
    BY <1>2, <2>1 DEF Fire, TypeOK
<1>3. CASE EditShell
  <2>1. shell' \in Environment
    <3>1. ASSUME NEW v \in Var, NEW x \in Values[v], shell' = [shell EXCEPT ![v] = x]
          PROVE  shell' \in Environment
      <4>1. x \in Value
        BY ValuesAssumption
      <4>2. QED
        BY <3>1, <4>1, EditTyped DEF TypeOK
    <3>2. QED
      BY <1>3, <3>1 DEF EditShell
  <2>2. QED
    BY <1>0, <1>3, <2>1 DEF EditShell, TypeOK
<1>4. CASE EditDotenv
  <2>1. dotenv' \in Environment
    <3>1. ASSUME NEW v \in Var, NEW x \in Values[v], dotenv' = [dotenv EXCEPT ![v] = x]
          PROVE  dotenv' \in Environment
      <4>1. x \in Value
        BY ValuesAssumption
      <4>2. QED
        BY <3>1, <4>1, EditTyped DEF TypeOK
    <3>2. QED
      BY <1>4, <3>1 DEF EditDotenv
  <2>2. QED
    BY <1>0, <1>4, <2>1 DEF EditDotenv, TypeOK
<1>5. CASE EditSettings
  BY <1>0, <1>5 DEF EditSettings, TypeOK
<1>6. CASE EditSecrets
  <2>1. secrets' \in Environment
    <3>1. CASE UNCHANGED secrets
      BY <3>1 DEF TypeOK
    <3>2. ASSUME NEW v \in Var, NEW x \in Values[v] \cup {"unset"},
                 secrets' = [secrets EXCEPT ![v] = x]
          PROVE  secrets' \in Environment
      <4>1. x \in Value
        BY ValuesAssumption DEF Value
      <4>2. QED
        BY <3>2, <4>1, EditTyped DEF TypeOK
    <3>3. QED
      BY <1>6, <3>1, <3>2 DEF EditSecrets
  <2>2. secretsAt' \in SecretsAt
    BY <1>6 DEF EditSecrets, TypeOK
  <2>3. QED
    BY <1>0, <1>6, <2>1, <2>2 DEF EditSecrets, TypeOK
<1>7. CASE Provision
  <2>1. found' \in [Path -> SUBSET Binary]
    BY <1>7 DEF Provision, TypeOK
  <2>2. QED
    BY <1>0, <1>7, <2>1 DEF Provision, TypeOK
<1>8. CASE EditSource
  BY <1>0, <1>8 DEF EditSource, TypeOK
<1>9. CASE UNCHANGED vars
  BY <1>9 DEF vars, TypeOK
<1>10. QED
  BY <1>1, <1>2, <1>3, <1>4, <1>5, <1>6, <1>7, <1>8, <1>9 DEF Next

\* The variables keep their types, on every host (ApplyGate as a whole).
THEOREM TypeCorrect == Spec => []TypeOK
  BY InitTypeOK, NextTypeOK, PTL DEF Spec

-----------------------------------------------------------------------------
(***************************************************************************)
(* What the services find.                                                 *)
(***************************************************************************)
\* Neither .env nor the unit hides what the environment file says.
LEMMA FileValuesReachTheService ==
  ASSUME NEW v \in Var, FileEnv[v] # "unset"
  PROVE  Process(ServiceEnv)[v] = FileEnv[v]
  BY DEF Process, ServiceEnv, Overlay, FileEnv

\* A loop that was judged with the vendor and the PATH of its service is not blocked.
LEMMA JudgedIsReady ==
  ASSUME TypeOK, GateInv, gated, NEW l \in Loop, SameVendor(l), SamePath
  PROVE  ServicePreflightOk(l)
<1> DEFINE env == Process(ServiceEnv)
           probe == Overlay(FileEnv, [Unset EXCEPT !["PATH"] = units.path])
<1>1. /\ units \in [path : Path, file : BOOLEAN] /\ Starts /\ Judged(l)
      /\ Needs[l] \in Need /\ "PATH" \in Var
  BY ValuesAssumption, NamesAssumption DEF GateInv, Starts
<1>2. env["PATH"] = units.path
  BY <1>1, NamesAssumption DEF SamePath, Process, Overlay
<1>3. ASSUME NEW v \in Var, Truthy(FileEnv[v]) PROVE Truthy(env[v])
  BY <1>3, FileValuesReachTheService DEF Truthy
<1>4. ASSUME NEW v \in Var, Truthy(probe[v]) PROVE Truthy(env[v])
  <2>1. CASE v = "PATH"
    BY <1>1, <1>2, <2>1, NamesAssumption DEF Truthy
  <2>2. CASE v # "PATH"
    <3>1. probe[v] = FileEnv[v]
      BY <2>2 DEF Overlay, Unset
    <3>2. QED
      BY <1>3, <1>4, <3>1
  <2>3. QED
    BY <2>1, <2>2
<1>5. /\ checked[l] \in Needs[l].on /\ l \in assets
      /\ {checked[l]} \cup Needs[l].tools \subseteq found[units.path]
      /\ \A v \in Needs[l].env : Truthy(FileEnv[v])
      /\ ProbesPass(l, FileEnv, units.path, probe)
  BY <1>1 DEF Judged, PreflightOk
<1>6. Needs[l].env \subseteq Var /\ Needs[l].tokens \subseteq Var /\ Needs[l].live \subseteq Var
  BY <1>1 DEF Need
<1>7. ProbesPass(l, env, units.path, env)
  <2> HIDE DEF env, probe
  <2>1. QED
    BY <1>3, <1>4, <1>5, <1>6 DEF ProbesPass
<1>8. PreflightOk(l, checked[l], env, units.path, env)
  <2> HIDE DEF env, probe
  <2>1. QED
    BY <1>3, <1>5, <1>6, <1>7 DEF PreflightOk
<1>9. QED
  BY <1>1, <1>2, <1>8 DEF ServicePreflightOk, SameVendor

-----------------------------------------------------------------------------
(***************************************************************************)
(* The gate.                                                               *)
(***************************************************************************)
\* The invariant looks at the services and their surroundings only.
LEMMA SameServices ==
  ASSUME UNCHANGED <<surroundings, deployed, gated>>
  PROVE  GateInv' <=> GateInv
  BY DEF surroundings, deployed, GateInv, Judged, FileEnv, PreflightOk, ProbesPass,
         SameVendor, SamePath, EffectiveVendor, ServiceEnv, Rendered

\* What apply predicts is what the units it renders will show.
LEMMA AppliedIsJudged ==
  ASSUME TypeOK, Apply(FALSE)
  PROVE  GateInv'
<1> USE DEF surroundings
<1>1. /\ units' = [path |-> path, file |-> hasFile] /\ UNCHANGED surroundings
      /\ hasFile => secretsAt = "fine"
      /\ \A l \in Loop : ScheduledPreflightOk(l)
  BY DEF Apply, PlanOk, EnvironmentOk, FileHealthy, Render
<1>2. FileEnv' = Seen /\ units'.path = path
  BY <1>1 DEF FileEnv, Seen, Unset
<1>3. ASSUME NEW l \in Loop PROVE Judged(l)'
  <2>1. checked'[l] = EffectiveVendor(l, shell)
    BY DEF Apply
  <2>2. PreflightOk(l, EffectiveVendor(l, shell), Seen, path,
                    Overlay(Seen, [Unset EXCEPT !["PATH"] = path]))
    BY <1>1 DEF ScheduledPreflightOk, ProbeEnv
  <2>3. QED
    BY <1>1, <1>2, <2>1, <2>2 DEF Judged, PreflightOk, ProbesPass, Unset
<1>4. units' \in [path : Path, file : BOOLEAN] /\ (units'.file => secretsAt' = "fine")
  BY <1>1 DEF TypeOK
<1>5. \A l \in Loop : outcome'[l] # "blocked"
  BY DEF Apply
<1>6. QED
  BY <1>3, <1>4, <1>5 DEF GateInv

LEMMA NextGateInv == TypeOK /\ GateInv /\ [Next]_vars => GateInv'
<1> SUFFICES ASSUME TypeOK, GateInv, [Next]_vars PROVE GateInv'
  OBVIOUS
<1>1. CASE Apply(FALSE)
  BY <1>1, AppliedIsJudged
<1>2. CASE Apply(TRUE) \/ EditSecrets \/ Provision \/ EditSource
  BY <1>2 DEF Apply, EditSecrets, Provision, EditSource, GateInv
<1>3. CASE EditShell \/ EditDotenv \/ EditSettings \/ UNCHANGED vars
  BY <1>3, SameServices DEF EditShell, EditDotenv, EditSettings, vars
<1>4. ASSUME NEW l \in Loop, Fire(l) PROVE GateInv'
  <2>1. UNCHANGED <<surroundings, units, checked, gated>>
    BY <1>4 DEF Fire
  <2>2. \A m \in Loop : (Judged(m)' <=> Judged(m)) /\ (SameVendor(m)' <=> SameVendor(m))
    BY <2>1 DEF surroundings, Judged, FileEnv, PreflightOk, ProbesPass, SameVendor,
                EffectiveVendor, ServiceEnv, Rendered
  <2>3. SamePath' <=> SamePath
    BY <2>1 DEF surroundings, SamePath, ServiceEnv, Rendered
  <2>4. ASSUME gated, NEW m \in Loop, outcome'[m] = "blocked", SameVendor(m), SamePath
        PROVE  FALSE
    <3>1. CASE m = l
      BY <1>4, <2>4, <3>1, JudgedIsReady DEF Fire, TypeOK
    <3>2. CASE m # l
      BY <1>4, <2>4, <3>2 DEF Fire, TypeOK, GateInv
    <3>3. QED
      BY <3>1, <3>2
  <2>5. QED
    BY <2>1, <2>2, <2>3, <2>4 DEF GateInv, surroundings
<1>5. QED
  BY <1>1, <1>2, <1>3, <1>4 DEF Next

\* A dependency that apply with preflight found met is met for the service, as long as the
\* service's surroundings are kept and the environment file leaves its vendor and PATH alone.
THEOREM GateSafe == Spec => []GateHolds
<1>1. Init => GateInv
  BY DEF Init, GateInv
<1>2. GateInv => GateHolds
  BY DEF GateInv, GateHolds
<1>3. QED
  BY <1>1, <1>2, InitTypeOK, NextTypeOK, NextGateInv, PTL DEF Spec

\* apply's verdict does not depend on the operator's shell and .env.
THEOREM ShellNeverMatters == Spec => ShellIsIrrelevant
<1>1. OperatorEdit => (PlanOk(FALSE)' <=> PlanOk(FALSE))
  <2> SUFFICES ASSUME OperatorEdit PROVE PlanOk(FALSE)' <=> PlanOk(FALSE)
    OBVIOUS
  <2> USE DEF OperatorEdit, surroundings, settings
  <2>1. RenderOk' = RenderOk /\ (EnvironmentOk' <=> EnvironmentOk)
    BY DEF RenderOk, EnvironmentOk, FileHealthy
  <2>2. Seen' = Seen /\ ProbeEnv' = ProbeEnv
    BY DEF Seen, ProbeEnv, Overlay, Unset
  <2>3. ASSUME NEW l \in Loop PROVE EffectiveVendor(l, shell)' = EffectiveVendor(l, shell)
    BY DEF EffectiveVendor
  <2>4. \A l \in Loop : ScheduledPreflightOk(l)' <=> ScheduledPreflightOk(l)
    BY <2>2, <2>3 DEF ScheduledPreflightOk, PreflightOk, ProbesPass
  <2>5. QED
    BY <2>1, <2>4 DEF PlanOk
<1>2. QED
  BY <1>1, PTL DEF Spec, ShellIsIrrelevant, KeepsVerdict

\* auth and apply agree on the credentials of the scheduled services.
THEOREM AuthNeverDisagrees == Spec => []AuthAgrees
<1>1. ASSUME PlanOk(FALSE) PROVE AuthOk
  <2>1. FileHealthy /\ \A l \in Loop : ProbesPass(l, Seen, path, ProbeEnv)
    BY <1>1 DEF PlanOk, EnvironmentOk, ScheduledPreflightOk, PreflightOk
  <2>2. \A l \in Loop : \A v \in Needs[l].env : Seen[v] # "unset"
    BY <1>1 DEF PlanOk, EnvironmentOk, FileHealthy, Seen
  <2>3. QED
    BY <2>1, <2>2 DEF AuthOk
<1>2. ASSUME AuthOk PROVE EnvironmentOk
  <2>1. \A l \in Loop : Needs[l].env \subseteq Var
    BY ValuesAssumption DEF Need
  <2>2. \A l \in Loop : \A v \in Needs[l].env : hasFile /\ secrets[v] # "unset"
    BY <1>2, <2>1 DEF AuthOk, Seen, Unset
  <2>3. QED
    BY <1>2, <2>2 DEF AuthOk, EnvironmentOk
<1>3. AuthAgrees
  BY <1>1, <1>2 DEF AuthAgrees
<1>4. QED
  BY <1>3, PTL
=============================================================================
