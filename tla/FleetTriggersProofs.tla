------------------------ MODULE FleetTriggersProofs ------------------------
(***************************************************************************)
(* Proofs about FleetTriggers, for all sets of loops, files and spellings, *)
(* any fleets and any number of edits and ticks.                           *)
(***************************************************************************)
EXTENDS FleetTriggers, FiniteSetTheorems, NaturalsInduction, WellFoundedInduction, TLAPS

(***************************************************************************)
(* The invariant behind NoFeedback.  A tracked run writes what its         *)
(* manifest declares, and in a coherent deployment the causes of a loop    *)
(* form chains of edges that end in it: each of them has a successor among *)
(* them or is followed by the loop itself.  A loop among its own causes    *)
(* would close a cycle, and the plan would not have been accepted.         *)
(***************************************************************************)
RunsAsDeclared ==
  \A l \in tracked : l \in DOMAIN fleet /\ writes[l] = Written(fleet, l)
CausesAreKnown == \A l \in Loop : dueTo[l] \cup ranFor[l] \subseteq DOMAIN fleet
LeadsTo(fl, S, l) == \A k \in S : \E m \in S \cup {l} : <<k, m>> \in Edges(fl)
ChainsAreEdges ==
  Coherent => \A l \in DOMAIN fleet : LeadsTo(fleet, dueTo[l], l) /\ LeadsTo(fleet, ranFor[l], l)

IInv == TypeOK /\ RunsAsDeclared /\ CausesAreKnown /\ ChainsAreEdges

-----------------------------------------------------------------------------
(***************************************************************************)
(* Lemmas about fleets.                                                    *)
(***************************************************************************)
\* A declared path names a file.
LEMMA FilesOfPaths == ASSUME NEW paths \in SUBSET Path PROVE FilesOf(paths) \subseteq File
  BY DEF FilesOf, Path

\* What a loop writes and what wakes it are files.
LEMMA FleetTypes ==
  ASSUME NEW fl, IsFleet(fl), NEW l \in DOMAIN fl
  PROVE  /\ l \in Loop /\ fl[l] \in Manifest
         /\ Written(fl, l) \in SUBSET File
         /\ Trigger(fl[l]) \in [timer : BOOLEAN, watch : SUBSET File]
         /\ Trigger(fl[l]).watch \subseteq FilesOf(fl[l].inputs)
<1>1. l \in Loop /\ fl[l] \in Manifest
  BY DEF IsFleet
<1>2. fl[l].outputs \in SUBSET Path /\ fl[l].inputs \in SUBSET Path
  BY <1>1 DEF Manifest
<1>3. Written(fl, l) \in SUBSET File
  BY <1>2, FilesOfPaths DEF Written
<1>4. Watched(fl[l]) \in SUBSET File /\ Watched(fl[l]) \subseteq FilesOf(fl[l].inputs)
  <2>1. fl[l].inputs \ fl[l].outputs \in SUBSET Path
    BY <1>2
  <2>2. FilesOf(fl[l].inputs \ fl[l].outputs) \subseteq FilesOf(fl[l].inputs)
    BY DEF FilesOf
  <2>3. QED
    BY <2>1, <2>2, FilesOfPaths DEF Watched
<1>5. QED
  BY <1>1, <1>3, <1>4 DEF Trigger

\* A writer of a file wakes no loop but by an edge of the graph the plan looks at.
LEMMA WakingIsAnEdge ==
  ASSUME TypeOK, Coherent, NEW l \in DOMAIN fleet, NEW m \in DOMAIN fleet, l # m,
         NEW f, f \in Written(fleet, l), f \in armed[m].watch
  PROVE  <<l, m>> \in Edges(fleet)
<1>1. f \in FilesOf(fleet[m].inputs)
  BY FleetTypes DEF TypeOK, Coherent
<1>2. QED
  BY <1>1 DEF Edges

-----------------------------------------------------------------------------
(***************************************************************************)
(* Type correctness.                                                       *)
(***************************************************************************)
LEMMA InitTypeOK == Init => TypeOK
<1> SUFFICES ASSUME Init PROVE TypeOK
  OBVIOUS
<1>1. IsFleet(fleet)
  BY DEF Init, IsFleet
<1>2. armed \in [Loop -> [timer : BOOLEAN, watch : SUBSET File]]
  BY DEF Init, Unarmed
<1>3. edits \in 0..MaxEdits /\ ticks \in 0..MaxTicks
  BY BoundAssumption DEF Init
<1>4. QED
  BY <1>1, <1>2, <1>3 DEF Init, TypeOK

\* The files a change wakes loops for leave the types alone.
LEMMA ModifiedTypeOK ==
  ASSUME TypeOK, NEW f \in File, NEW causes \in [Loop -> SUBSET Loop], Modified(f, causes)
  PROVE  due' \subseteq Loop /\ dueTo' \in [Loop -> SUBSET Loop]
<1>1. PICK woken \in SUBSET {l \in Loop : f \in armed[l].watch} :
        /\ due' = due \cup woken
        /\ dueTo' = [l \in Loop |-> IF l \in woken THEN dueTo[l] \cup causes[l] ELSE dueTo[l]]
  BY DEF Modified
<1>2. QED
  BY <1>1 DEF TypeOK

LEMMA CausesType ==
  ASSUME TypeOK, NEW l \in Loop
  PROVE  Causes(l) \in [Loop -> SUBSET Loop]
  BY DEF TypeOK, Causes

LEMMA NextTypeOK == TypeOK /\ [Next]_vars => TypeOK'
<1> SUFFICES ASSUME TypeOK, [Next]_vars PROVE TypeOK'
  OBVIOUS
<1>1. CASE Edit
  <2>1. IsFleet(fleet')
    BY <1>1, FleetsAssumption DEF Edit
  <2>2. edits' \in 0..MaxEdits
    BY <1>1, BoundAssumption DEF Edit, TypeOK
  <2>3. QED
    BY <1>1, <2>1, <2>2 DEF Edit, ForgetCauses, services, TypeOK
<1>2. CASE Apply
  <2>1. ASSUME NEW l \in DOMAIN fleet
        PROVE  Arm(l) \in [timer : BOOLEAN, watch : SUBSET File]
    BY FleetTypes DEF Arm, TypeOK
  <2>2. armed' \in [Loop -> [timer : BOOLEAN, watch : SUBSET File]]
    BY <1>2, <2>1 DEF Apply, TypeOK
  <2>3. QED
    BY <1>2, <2>2 DEF Apply, ForgetCauses, services, TypeOK
<1>3. ASSUME NEW l \in Loop, Remove(l) PROVE TypeOK'
  <2>1. armed' \in [Loop -> [timer : BOOLEAN, watch : SUBSET File]]
    BY <1>3 DEF Remove, Unarmed, TypeOK
  <2>2. QED
    BY <1>3, <2>1 DEF Remove, ForgetCauses, services, TypeOK
<1>4. ASSUME NEW l \in Loop, Tick(l) PROVE TypeOK'
  <2>1. ticks' \in 0..MaxTicks
    BY <1>4, BoundAssumption DEF Tick, TypeOK
  <2>2. QED
    BY <1>4, <2>1 DEF Tick, deployment, history, TypeOK
<1>5. ASSUME NEW l \in Loop, Start(l) PROVE TypeOK'
  <2>1. Written(fleet, l) \in SUBSET File
    BY <1>5, FleetTypes DEF Start, TypeOK
  <2>2. writes' \in [Loop -> SUBSET File]
    BY <1>5, <2>1 DEF Start, TypeOK
  <2>3. ranFor' \in [Loop -> SUBSET Loop] /\ dueTo' \in [Loop -> SUBSET Loop]
    BY <1>5 DEF Start, TypeOK
  <2>4. QED
    BY <1>5, <2>2, <2>3 DEF Start, deployment, TypeOK
<1>6. ASSUME NEW l \in Loop, StartFails(l) PROVE TypeOK'
  BY <1>6 DEF StartFails, deployment, TypeOK
<1>7. ASSUME NEW l \in Loop, End(l) PROVE TypeOK'
  BY <1>7 DEF End, deployment, TypeOK
<1>8. ASSUME NEW f \in File, OutsideWrite(f) PROVE TypeOK'
  <2>1. due' \subseteq Loop /\ dueTo' \in [Loop -> SUBSET Loop]
    <3>1. [l \in Loop |-> {}] \in [Loop -> SUBSET Loop]
      OBVIOUS
    <3>2. QED
      BY <1>8, <3>1, ModifiedTypeOK DEF OutsideWrite
  <2>2. ticks' \in 0..MaxTicks
    BY <1>8, BoundAssumption DEF OutsideWrite, TypeOK
  <2>3. QED
    BY <1>8, <2>1, <2>2 DEF OutsideWrite, deployment, TypeOK
<1>9. ASSUME NEW l \in Loop, NEW f \in File, Write(l, f) PROVE TypeOK'
  <2>1. due' \subseteq Loop /\ dueTo' \in [Loop -> SUBSET Loop]
    BY <1>9, ModifiedTypeOK, CausesType DEF Write
  <2>2. QED
    BY <1>9, <2>1 DEF Write, deployment, TypeOK
<1>10. CASE UNCHANGED vars
  BY <1>10 DEF vars, deployment, services, history, TypeOK
<1>11. QED
  BY <1>1, <1>2, <1>3, <1>4, <1>5, <1>6, <1>7, <1>8, <1>9, <1>10 DEF Next

\* The variables keep their types, whatever the fleets (FleetTriggers as a whole).
THEOREM TypeCorrect == Spec => []TypeOK
  BY InitTypeOK, NextTypeOK, PTL DEF Spec

-----------------------------------------------------------------------------
(***************************************************************************)
(* The inductive invariant.                                                *)
(***************************************************************************)
\* When the causes are forgotten nothing is left to show.
LEMMA ForgottenCauses ==
  ASSUME TypeOK', ForgetCauses
  PROVE  RunsAsDeclared' /\ CausesAreKnown' /\ ChainsAreEdges'
<1>1. \A l \in DOMAIN fleet' : l \in Loop
  BY DEF TypeOK, IsFleet
<1>2. QED
  BY <1>1 DEF ForgetCauses, RunsAsDeclared, CausesAreKnown, ChainsAreEdges, LeadsTo

\* While the deployment stays, so does whether it is coherent.
LEMMA SameDeployment ==
  ASSUME UNCHANGED deployment
  PROVE  fleet' = fleet /\ armed' = armed /\ (Coherent' <=> Coherent)
  BY DEF deployment, Coherent

\* Waking by something that has no cause adds none.
LEMMA OutsideKeepsCauses ==
  ASSUME TypeOK, NEW f \in File, Modified(f, [l \in Loop |-> {}])
  PROVE  dueTo' = dueTo
<1>1. PICK woken \in SUBSET {l \in Loop : f \in armed[l].watch} :
        dueTo' = [l \in Loop |-> IF l \in woken THEN dueTo[l] \cup [k \in Loop |-> {}][l]
                                 ELSE dueTo[l]]
  BY DEF Modified
<1>2. \A l \in Loop : dueTo'[l] = dueTo[l]
  BY <1>1
<1>3. QED
  BY <1>1, <1>2 DEF TypeOK

\* A write leads from the writer to every loop it wakes.
LEMMA WriteKeepsChains ==
  ASSUME IInv, NEW l \in Loop, NEW f \in File, Write(l, f)
  PROVE  CausesAreKnown' /\ ChainsAreEdges'
<1>1. PICK woken \in SUBSET {m \in Loop : f \in armed[m].watch} :
        dueTo' = [m \in Loop |-> IF m \in woken THEN dueTo[m] \cup Causes(l)[m] ELSE dueTo[m]]
  BY DEF Write, Modified
<1>2. UNCHANGED deployment /\ ranFor' = ranFor /\ f \in writes[l]
  BY DEF Write
<1>3. fleet' = fleet /\ armed' = armed /\ (Coherent' <=> Coherent)
  BY <1>2, SameDeployment
<1>4. \A m \in Loop : Causes(l)[m] = IF l \notin tracked THEN {}
                                     ELSE IF m = l THEN ranFor[l] ELSE ranFor[l] \cup {l}
  BY DEF Causes
<1>5. l \in tracked => l \in DOMAIN fleet /\ f \in Written(fleet, l)
  BY <1>2 DEF IInv, RunsAsDeclared
<1>6. CausesAreKnown'
  BY <1>1, <1>2, <1>3, <1>4, <1>5 DEF IInv, CausesAreKnown
<1>7. ASSUME Coherent, NEW m \in DOMAIN fleet PROVE LeadsTo(fleet, dueTo'[m], m)
  <2>1. m \in Loop
    BY DEF IInv, TypeOK, IsFleet
  <2>2. LeadsTo(fleet, dueTo[m], m)
    BY <1>7 DEF IInv, ChainsAreEdges
  <2>3. CASE m \notin woken \/ l \notin tracked
    <3>1. dueTo'[m] = dueTo[m]
      BY <1>1, <1>4, <2>1, <2>3
    <3>2. QED
      BY <3>1, <2>2
  <2>4. CASE m \in woken /\ l \in tracked /\ m = l
    <3>1. dueTo'[m] = dueTo[m] \cup ranFor[m]
      BY <1>1, <1>4, <2>1, <2>4
    <3>2. LeadsTo(fleet, ranFor[m], m)
      BY <1>7 DEF IInv, ChainsAreEdges
    <3>3. QED
      BY <2>2, <3>1, <3>2 DEF LeadsTo
  <2>5. CASE m \in woken /\ l \in tracked /\ m # l
    <3>1. dueTo'[m] = dueTo[m] \cup (ranFor[l] \cup {l})
      BY <1>1, <1>4, <2>1, <2>5
    <3>2. LeadsTo(fleet, ranFor[l], l)
      BY <1>5, <1>7, <2>5 DEF IInv, ChainsAreEdges
    <3>3. <<l, m>> \in Edges(fleet)
      BY <1>1, <1>5, <1>7, <2>5, WakingIsAnEdge DEF IInv
    <3>4. QED
      BY <2>2, <3>1, <3>2, <3>3 DEF LeadsTo
  <2>6. QED
    BY <2>3, <2>4, <2>5
<1>8. ChainsAreEdges'
  BY <1>2, <1>3, <1>7 DEF IInv, ChainsAreEdges
<1>9. QED
  BY <1>6, <1>8

LEMMA InitIInv == Init => IInv
<1> SUFFICES ASSUME Init PROVE IInv
  OBVIOUS
<1>1. fleet = [l \in {} |-> {}] /\ tracked = {}
  BY DEF Init
<1>2. RunsAsDeclared /\ ChainsAreEdges
  BY <1>1 DEF RunsAsDeclared, ChainsAreEdges
<1>3. CausesAreKnown
  BY DEF Init, CausesAreKnown
<1>4. QED
  BY <1>2, <1>3, InitTypeOK DEF IInv

LEMMA NextIInv == IInv /\ [Next]_vars => IInv'
<1> SUFFICES ASSUME IInv, [Next]_vars PROVE RunsAsDeclared' /\ CausesAreKnown' /\ ChainsAreEdges'
  BY NextTypeOK DEF IInv
<1>0. TypeOK /\ TypeOK'
  BY NextTypeOK DEF IInv
<1>1. CASE Edit \/ Apply \/ \E l \in Loop : Remove(l)
  BY <1>0, <1>1, ForgottenCauses DEF Edit, Apply, Remove
<1>2. ASSUME NEW l \in Loop, Tick(l)
      PROVE  RunsAsDeclared' /\ CausesAreKnown' /\ ChainsAreEdges'
  <2>1. UNCHANGED <<deployment, tracked, writes, dueTo, ranFor>>
    BY <1>2 DEF Tick, history
  <2>2. QED
    BY <2>1, SameDeployment DEF IInv, RunsAsDeclared, CausesAreKnown, ChainsAreEdges
<1>3. ASSUME NEW l \in Loop, Start(l)
      PROVE  RunsAsDeclared' /\ CausesAreKnown' /\ ChainsAreEdges'
  <2>1. fleet' = fleet /\ (Coherent' <=> Coherent)
    BY <1>3, SameDeployment DEF Start
  <2>2. RunsAsDeclared'
    BY <1>0, <1>3, <2>1 DEF Start, IInv, RunsAsDeclared, TypeOK
  <2>3. \A m \in Loop : /\ dueTo'[m] = IF m = l THEN {} ELSE dueTo[m]
                        /\ ranFor'[m] = IF m = l THEN dueTo[l] ELSE ranFor[m]
    BY <1>0, <1>3 DEF Start, TypeOK
  <2>4. CausesAreKnown'
    BY <2>1, <2>3 DEF IInv, CausesAreKnown
  <2>5. ASSUME Coherent, NEW m \in DOMAIN fleet
        PROVE  LeadsTo(fleet, dueTo'[m], m) /\ LeadsTo(fleet, ranFor'[m], m)
    <3>1. m \in Loop
      BY <1>0 DEF TypeOK, IsFleet
    <3>2. LeadsTo(fleet, dueTo[m], m) /\ LeadsTo(fleet, ranFor[m], m)
      BY <2>5 DEF IInv, ChainsAreEdges
    <3>3. LeadsTo(fleet, {}, m)
      BY DEF LeadsTo
    <3>4. QED
      BY <2>3, <3>1, <3>2, <3>3
  <2>6. ChainsAreEdges'
    BY <2>1, <2>5 DEF ChainsAreEdges
  <2>7. QED
    BY <2>2, <2>4, <2>6
<1>4. ASSUME NEW l \in Loop, StartFails(l)
      PROVE  RunsAsDeclared' /\ CausesAreKnown' /\ ChainsAreEdges'
  <2>1. fleet' = fleet /\ (Coherent' <=> Coherent) /\ UNCHANGED <<tracked, writes, ranFor>>
    BY <1>4, SameDeployment DEF StartFails
  <2>2. \A m \in Loop : dueTo'[m] = IF m = l THEN {} ELSE dueTo[m]
    BY <1>0, <1>4 DEF StartFails, TypeOK
  <2>3. RunsAsDeclared' /\ CausesAreKnown'
    BY <2>1, <2>2 DEF IInv, RunsAsDeclared, CausesAreKnown
  <2>4. ChainsAreEdges'
    <3>1. ASSUME Coherent, NEW m \in DOMAIN fleet
          PROVE  LeadsTo(fleet, dueTo'[m], m) /\ LeadsTo(fleet, ranFor[m], m)
      <4>1. m \in Loop
        BY <1>0 DEF TypeOK, IsFleet
      <4>2. LeadsTo(fleet, dueTo[m], m) /\ LeadsTo(fleet, ranFor[m], m)
        BY <3>1 DEF IInv, ChainsAreEdges
      <4>3. dueTo'[m] = {} \/ dueTo'[m] = dueTo[m]
        BY <2>2, <4>1
      <4>4. QED
        BY <4>2, <4>3 DEF LeadsTo
    <3>2. QED
      BY <2>1, <3>1 DEF ChainsAreEdges
  <2>5. QED
    BY <2>3, <2>4
<1>5. ASSUME NEW l \in Loop, End(l)
      PROVE  RunsAsDeclared' /\ CausesAreKnown' /\ ChainsAreEdges'
  <2>1. fleet' = fleet /\ (Coherent' <=> Coherent) /\ dueTo' = dueTo
    BY <1>5, SameDeployment DEF End
  <2>2. /\ tracked' = tracked \ {l}
        /\ \A m \in Loop : /\ ranFor'[m] = IF m = l THEN {} ELSE ranFor[m]
                           /\ m # l => writes'[m] = writes[m]
    BY <1>0, <1>5 DEF End, TypeOK
  <2>3. RunsAsDeclared' /\ CausesAreKnown'
    BY <1>0, <2>1, <2>2 DEF IInv, RunsAsDeclared, CausesAreKnown, TypeOK
  <2>4. ChainsAreEdges'
    BY <1>0, <2>1, <2>2 DEF IInv, ChainsAreEdges, LeadsTo, TypeOK, IsFleet
  <2>5. QED
    BY <2>3, <2>4
<1>6. ASSUME NEW f \in File, OutsideWrite(f)
      PROVE  RunsAsDeclared' /\ CausesAreKnown' /\ ChainsAreEdges'
  <2>1. UNCHANGED <<deployment, tracked, writes, dueTo, ranFor>>
    BY <1>0, <1>6, OutsideKeepsCauses DEF OutsideWrite
  <2>2. QED
    BY <2>1, SameDeployment DEF IInv, RunsAsDeclared, CausesAreKnown, ChainsAreEdges
<1>7. ASSUME NEW l \in Loop, NEW f \in File, Write(l, f)
      PROVE  RunsAsDeclared' /\ CausesAreKnown' /\ ChainsAreEdges'
  <2>1. RunsAsDeclared'
    BY <1>7, SameDeployment DEF Write, IInv, RunsAsDeclared
  <2>2. QED
    BY <1>7, <2>1, WriteKeepsChains
<1>8. CASE UNCHANGED vars
  <2>1. UNCHANGED <<deployment, tracked, writes, dueTo, ranFor>>
    BY <1>8 DEF vars, services, history
  <2>2. QED
    BY <2>1, SameDeployment DEF IInv, RunsAsDeclared, CausesAreKnown, ChainsAreEdges
<1>9. QED
  BY <1>1, <1>2, <1>3, <1>4, <1>5, <1>6, <1>7, <1>8 DEF Next

\* The invariant holds of every behaviour (FleetTriggers as a whole).
THEOREM Invariance == Spec => []IInv
  BY InitIInv, NextIInv, PTL DEF Spec

-----------------------------------------------------------------------------
(***************************************************************************)
(* What follows from it.                                                   *)
(***************************************************************************)
\* An accepted fleet, alone on its host, never causes its own runs: the cycle check of
\* load_all is enough for what the path units do.
THEOREM NoFeedbackSafe == Spec => []NoFeedback
<1>1. ASSUME IInv PROVE NoFeedback
  <2> SUFFICES ASSUME Coherent, NEW l \in Loop, l \in dueTo[l] \cup ranFor[l] PROVE FALSE
    BY DEF NoFeedback, NoLoopCausesItself
  <2>1. l \in DOMAIN fleet
    BY <1>1 DEF IInv, CausesAreKnown
  <2>2. PICK S \in SUBSET Loop : S \in {dueTo[l], ranFor[l]} /\ l \in S
    BY <1>1 DEF IInv, TypeOK
  <2>3. LeadsTo(fleet, S, l)
    BY <1>1, <2>1, <2>2 DEF IInv, ChainsAreEdges
  <2>4. HasCycle(Edges(fleet))
    BY <2>2, <2>3 DEF HasCycle, LeadsTo
  <2>5. QED
    BY <2>4 DEF Coherent, PlanOk
<1>2. QED
  BY <1>1, Invariance, PTL

\* Runs of an accepted fleet that overlap write different files, however its manifests
\* spell them.
THEOREM OneWriterSafe == Spec => []OneWriter
<1>1. ASSUME IInv PROVE OneWriter
  BY <1>1 DEF OneWriter, IInv, RunsAsDeclared, Coherent, PlanOk, SharedOutput
<1>2. QED
  BY <1>1, Invariance, PTL
-----------------------------------------------------------------------------
(***************************************************************************)
(* Why a cascade dies out.  A loop wakes those that watch what its         *)
(* manifest says it writes.  The loops that can still run are those led    *)
(* to from what is due or runs, and one of them is led to by none.         *)
(***************************************************************************)
Wakes(l, m) == l \in DOMAIN fleet /\ Written(fleet, l) \cap armed[m].watch # {}

\* The least set that holds what is due or runs and all that its members wake.
Closed(S) == \A l \in S, m \in Loop : Wakes(l, m) => m \in S
Alive == {l \in Loop : \A S \in SUBSET Loop : due \cup running \subseteq S /\ Closed(S) => l \in S}

\* A loop that is never woken again, and what it still has to do.
Source(l) == l \in Alive /\ \A k \in Alive : ~Wakes(k, l)
Turns(l) == (IF l \in due THEN 2 ELSE 0) + (IF l \in running THEN 1 ELSE 0)

\* Nothing that ran before the last change of the deployment runs any more.
Settled == Coherent /\ NoLoopWatchesItself /\ running \subseteq tracked

\* What the fleet does by itself.
Takes(l) == Start(l) \/ StartFails(l) \/ End(l)
Cascades == \E l \in Loop : Takes(l) \/ \E f \in File : Write(l, f)

HasASource == Settled /\ Alive # {} => \E l \in due \cup running : Source(l)

\* Old runs become fewer.  Once there are none, no loop comes back to life, and a source
\* only comes closer to its end; at its end there is one loop less alive.
RunsDown ==
  Cascades =>
    /\ running' \ tracked' \subseteq running \ tracked
    /\ Settled =>
         /\ Settled' /\ Alive' \subseteq Alive
         /\ \A l \in Loop : Source(l) =>
              /\ Turns(l)' \in 0..Turns(l)
              /\ Takes(l) => Turns(l)' < Turns(l)
              /\ Turns(l)' = 0 => l \notin Alive'

LEMMA AliveFacts ==
  ASSUME TypeOK
  PROVE  /\ due \cup running \subseteq Alive /\ Alive \subseteq Loop /\ Closed(Alive)
         /\ \A S \in SUBSET Loop : due \cup running \subseteq S /\ Closed(S) => Alive \subseteq S
<1>1. due \cup running \subseteq Alive
  BY DEF Alive, TypeOK
<1>2. Closed(Alive)
  <2> SUFFICES ASSUME NEW l \in Alive, NEW m \in Loop, Wakes(l, m),
                      NEW S \in SUBSET Loop, due \cup running \subseteq S, Closed(S)
               PROVE  m \in S
    BY DEF Alive, Closed
  <2>1. l \in S
    BY DEF Alive
  <2> QED
    BY <2>1 DEF Closed
<1> QED
  BY <1>1, <1>2 DEF Alive

\* Among loops each of which is woken by another of them there is a cycle of the graph the
\* plan looks at: the least such set has no member that wakes none of them.
LEMMA WokenInACircle ==
  ASSUME TypeOK, Coherent, NoLoopWatchesItself, IsFiniteSet(Loop),
         NEW S \in SUBSET Loop, S # {}, \A l \in S : \E k \in S : Wakes(k, l)
  PROVE  FALSE
<1> DEFINE Fed == {T \in SUBSET Loop : T # {} /\ \A l \in T : \E k \in T : Wakes(k, l)}
<1>1. PICK T \in Fed : \A U \in Fed : ~(U \subseteq T /\ U # T)
  <2>1. IsWellFoundedOn(StrictSubsetOrdering(Loop), SUBSET Loop)
    BY FS_StrictSubsetOrderingWellFounded, FS_FiniteSubsetsOfFinite
  <2>2. Fed \subseteq SUBSET Loop /\ Fed # {}
    BY DEF Fed
  <2> HIDE DEF Fed
  <2>3. PICK T \in Fed : \A U \in Fed : <<U, T>> \notin StrictSubsetOrdering(Loop)
    BY <2>1, <2>2, WFMin
  <2> QED
    BY <2>2, <2>3 DEF StrictSubsetOrdering
<1>2. ASSUME NEW k \in T PROVE \E l \in T : Wakes(k, l)
  <2> SUFFICES ASSUME \A l \in T : ~Wakes(k, l) PROVE FALSE
    OBVIOUS
  <2>1. \A l \in T \ {k} : \E m \in T \ {k} : Wakes(m, l)
    BY <1>1
  <2>2. T \ {k} # {}
    BY <1>1, <1>2
  <2>3. T \ {k} \in Fed
    BY <1>1, <2>1, <2>2
  <2> QED
    BY <1>1, <1>2, <2>3
<1>3. \A k \in T : k \in DOMAIN fleet
  BY <1>2 DEF Wakes
<1>4. \A k, l \in T : Wakes(k, l) => <<k, l>> \in Edges(fleet)
  <2> SUFFICES ASSUME NEW k \in T, NEW l \in T, Wakes(k, l) PROVE <<k, l>> \in Edges(fleet)
    OBVIOUS
  <2>1. PICK f \in Written(fleet, k) : f \in armed[l].watch
    BY DEF Wakes
  <2>2. k # l
    BY <1>3, <2>1 DEF NoLoopWatchesItself
  <2> QED
    BY <1>3, <2>1, <2>2, WakingIsAnEdge
<1>5. HasCycle(Edges(fleet))
  <2>1. \A k \in T : \E l \in T : <<k, l>> \in Edges(fleet)
    BY <1>2, <1>4
  <2>2. T \in (SUBSET Loop) \ {{}}
    BY <1>1
  <2> QED
    BY <2>1, <2>2 DEF HasCycle
<1> QED
  BY <1>5 DEF Coherent, PlanOk

LEMMA SourceExists ==
  ASSUME TypeOK, IsFiniteSet(Loop)
  PROVE  HasASource
<1> SUFFICES ASSUME Settled, Alive # {} PROVE \E l \in due \cup running : Source(l)
  BY DEF HasASource
<1>1. PICK l \in Alive : \A k \in Alive : ~Wakes(k, l)
  BY AliveFacts, WokenInACircle DEF Settled
<1>2. l \in due \cup running
  <2> SUFFICES ASSUME l \notin due \cup running PROVE FALSE
    OBVIOUS
  <2>1. Closed(Alive \ {l})
    BY <1>1, AliveFacts DEF Closed
  <2> QED
    BY <1>1, <2>1, AliveFacts
<1> QED
  BY <1>1, <1>2 DEF Source

\* While the deployment stays, so does who wakes whom.
LEMMA SameWaking ==
  ASSUME UNCHANGED deployment
  PROVE  /\ \A l, m : Wakes(l, m)' <=> Wakes(l, m)
         /\ \A S : Closed(S)' <=> Closed(S)
         /\ NoLoopWatchesItself' <=> NoLoopWatchesItself
BY DEF deployment, Wakes, Closed, NoLoopWatchesItself

\* What the fleet does by itself it does within what is alive.
LEMMA CascadeStaysAlive ==
  ASSUME IInv, TypeOK', Settled, Cascades
  PROVE  /\ UNCHANGED deployment
         /\ due' \cup running' \subseteq Alive
         /\ \A l \in Loop : l \in due' => l \in due \/ \E k \in Alive : Wakes(k, l)
         /\ running' \subseteq tracked'
<1> USE DEF IInv, TypeOK, Settled
<1>1. ASSUME NEW l \in Loop, Takes(l)
      PROVE  UNCHANGED deployment /\ due' \subseteq due /\ running' \subseteq due \cup running
             /\ running' \subseteq tracked'
  BY <1>1 DEF Takes, Start, StartFails, End
<1>2. ASSUME NEW l \in Loop, NEW f \in File, Write(l, f)
      PROVE  /\ UNCHANGED <<deployment, running, tracked>> /\ due' \subseteq Alive
             /\ \A m \in Loop : m \in due' => m \in due \/ \E k \in Alive : Wakes(k, m)
  <2>1. UNCHANGED <<deployment, running, tracked>> /\ l \in running /\ f \in writes[l]
    BY <1>2 DEF Write
  <2>2. PICK woken \in SUBSET {m \in Loop : f \in armed[m].watch} : due' = due \cup woken
    BY <1>2 DEF Write, Modified
  <2>3. l \in DOMAIN fleet /\ f \in Written(fleet, l)
    BY <2>1 DEF RunsAsDeclared
  <2>4. \A m \in woken : Wakes(l, m)
    BY <2>2, <2>3 DEF Wakes
  <2>5. l \in Alive /\ \A m \in woken : m \in Alive
    BY <2>1, <2>2, <2>4, AliveFacts DEF Closed
  <2> QED
    BY <2>1, <2>2, <2>4, <2>5, AliveFacts
<1> QED
  BY <1>1, <1>2, AliveFacts DEF Cascades

LEMMA CascadeShrinks ==
  ASSUME IInv, TypeOK', Settled, Cascades
  PROVE  Settled' /\ Alive' \subseteq Alive
<1>1. /\ UNCHANGED deployment /\ due' \cup running' \subseteq Alive /\ running' \subseteq tracked'
  BY CascadeStaysAlive
<1>2. Settled'
  BY <1>1, SameDeployment, SameWaking DEF Settled
<1>3. Closed(Alive) /\ Alive \in SUBSET Loop
  BY AliveFacts DEF IInv
<1>4. \A S : Closed(S)' <=> Closed(S)
  BY <1>1, SameWaking
<1>5. \A S \in SUBSET Loop : due' \cup running' \subseteq S /\ Closed(S) => Alive' \subseteq S
  BY <1>4 DEF Alive
<1> QED
  BY <1>1, <1>2, <1>3, <1>5

\* A source is woken by nothing, so it only comes closer to its end.
LEMMA SourceEnds ==
  ASSUME IInv, TypeOK', Settled, Cascades, NEW l \in Loop, Source(l)
  PROVE  /\ Turns(l)' \in 0..Turns(l)
         /\ Takes(l) => Turns(l)' < Turns(l)
         /\ Turns(l)' = 0 => l \notin Alive'
<1> USE DEF IInv, TypeOK
<1>1. l \in due' => l \in due
  BY CascadeStaysAlive DEF Source
<1>2. ASSUME Takes(l) PROVE Turns(l)' \in 0..Turns(l) /\ Turns(l)' < Turns(l)
  BY <1>2 DEF Takes, Start, StartFails, End, Turns
<1>3. ASSUME NEW k \in Loop, k # l, Takes(k) PROVE l \in running' <=> l \in running
  BY <1>3 DEF Takes, Start, StartFails, End
<1>4. ASSUME NEW k \in Loop, NEW f \in File, Write(k, f) PROVE l \in running' <=> l \in running
  BY <1>4 DEF Write
<1>5. Turns(l)' \in 0..Turns(l)
  <2>1. CASE Takes(l)
    BY <1>2, <2>1
  <2>2. CASE l \in running' <=> l \in running
    BY <1>1, <2>2 DEF Turns
  <2> QED
    BY <1>3, <1>4, <2>1, <2>2 DEF Cascades
<1>6. ASSUME Turns(l)' = 0 PROVE l \notin Alive'
  <2>1. l \notin due' \cup running'
    BY <1>6 DEF Turns
  <2>2. UNCHANGED deployment /\ due' \cup running' \subseteq Alive
    BY CascadeStaysAlive
  <2>3. Closed(Alive \ {l}) /\ Alive \ {l} \in SUBSET Loop
    BY AliveFacts DEF Closed, Source
  <2>4. \A S : Closed(S)' <=> Closed(S)
    BY <2>2, SameWaking
  <2>5. \A S \in SUBSET Loop : due' \cup running' \subseteq S /\ Closed(S) => Alive' \subseteq S
    BY <2>4 DEF Alive
  <2>6. due' \cup running' \subseteq Alive \ {l}
    BY <2>1, <2>2
  <2>7. Alive' \subseteq Alive \ {l}
    <3> DEFINE rest == Alive \ {l}
    <3> QED
      BY <2>3, <2>5, <2>6
  <2> QED
    BY <2>7
<1> QED
  BY <1>2, <1>5, <1>6

\* A cascade runs down, in every finite fleet: a loop woken by no loop alive is always among
\* those due or running, and what the fleet does by itself wakes no loop but those alive and
\* brings such a loop closer to its end, after which it is not alive any more.
THEOREM CascadesRunDown ==
  ASSUME IsFiniteSet(Loop)
  PROVE  Spec => []HasASource /\ [][RunsDown]_vars
<1>1. IInv => HasASource
  BY SourceExists DEF IInv
<1>2. IInv /\ IInv' /\ [Next]_vars => [RunsDown]_vars
  <2> SUFFICES ASSUME IInv, IInv', Cascades PROVE RunsDown
    BY DEF RunsDown
  <2>1. running' \ tracked' \subseteq running \ tracked
    BY DEF Cascades, Takes, Start, StartFails, End, Write
  <2> QED
    BY <2>1, CascadeShrinks, SourceEnds DEF RunsDown, IInv
<1> QED
  BY <1>1, <1>2, Invariance, PTL DEF Spec

-----------------------------------------------------------------------------
(***************************************************************************)
(* What HasCycle says of a graph.                                          *)
(***************************************************************************)
\* A set of loops each with a successor in it is what an endless walk needs, and no more
\* (_detect_cycles, manifest.py:548-551): without one the graph has no cycle of any length.
THEOREM CycleIsAnEndlessWalk ==
  ASSUME NEW edges
  PROVE  HasCycle(edges) <=>
           \E walk \in [Nat -> Loop] : \A n \in Nat : <<walk[n], walk[n+1]>> \in edges
<1> DEFINE Back == {e \in Loop \X Loop : <<e[2], e[1]>> \in edges}
<1>1. (\E walk \in [Nat -> Loop] : \A n \in Nat : <<walk[n], walk[n+1]>> \in edges)
        <=> ~IsWellFoundedOn(Back, Loop)
  <2>1. ASSUME NEW walk \in [Nat -> Loop], NEW n \in Nat
        PROVE  <<walk[n], walk[n+1]>> \in edges <=> <<walk[n+1], walk[n]>> \in Back
    <3>1. walk[n] \in Loop /\ walk[n+1] \in Loop
      OBVIOUS
    <3> QED
      BY <3>1
  <2> HIDE DEF Back
  <2> QED
    BY <2>1 DEF IsWellFoundedOn
<1>2. ASSUME IsWellFoundedOn(Back, Loop), HasCycle(edges) PROVE FALSE
  <2> HIDE DEF Back
  <2>1. PICK S \in (SUBSET Loop) \ {{}} : \A k \in S : \E l \in S : <<k, l>> \in edges
    BY <1>2 DEF HasCycle
  <2>2. PICK x \in S : \A y \in S : <<y, x>> \notin Back
    <3>1. S \subseteq Loop /\ S # {}
      BY <2>1
    <3> QED
      BY <1>2, <3>1, WFMin
  <2> QED
    BY <2>1, <2>2 DEF Back
<1>3. ASSUME ~HasCycle(edges) PROVE IsWellFoundedOn(Back, Loop)
  <2>1. ASSUME NEW S \in SUBSET Loop, S # {} PROVE \E x \in S : \A y \in S : <<y, x>> \notin Back
    BY <1>3, <2>1 DEF HasCycle
  <2> HIDE DEF Back
  <2> QED
    BY <2>1, MinWF
<1> QED
  BY <1>1, <1>2, <1>3

\* The loops of path come each but once, and lead round: one of nx.simple_cycles.
SimpleCycle(edges, n, path) ==
  /\ path[n] = path[0]
  /\ \A i \in 0 .. (n - 1) : <<path[i], path[i+1]>> \in edges
  /\ \A i, j \in 0 .. (n - 1) : path[i] = path[j] => i = j

\* The first place where a walk through finitely many loops is again where it was before.
LEMMA WalkMeetsItself ==
  ASSUME IsFiniteSet(Loop), NEW walk \in [Nat -> Loop]
  PROVE  \E a, b \in Nat : /\ a < b /\ walk[a] = walk[b]
                           /\ \A c, d \in Nat : c < d /\ d < b => walk[c] # walk[d]
<1> DEFINE N == Cardinality(Loop)
           first == [i \in 0 .. N |-> walk[i]]
           earlier == {e \in Nat \X Nat : e[1] < e[2]}
           Met == {b \in Nat : \E a \in Nat : a < b /\ walk[a] = walk[b]}
<1>1. N \in Nat
  BY FS_CardinalityType
<1>2. IsFiniteSet(0 .. N) /\ Cardinality(0 .. N) = N + 1
  BY <1>1, FS_Interval
<1>3. first \in [0 .. N -> Loop]
  BY <1>1
<1>4. \E a, b \in 0 .. N : a # b /\ first[a] = first[b]
  <2> HIDE DEF first
  <2>1. Cardinality(Loop) < Cardinality(0 .. N)
    BY <1>1, <1>2
  <2> HIDE DEF N
  <2> QED
    BY <1>2, <1>3, <2>1, FS_PigeonHole
<1>5. Met \subseteq Nat /\ Met # {}
  BY <1>1, <1>4
<1>6. IsWellFoundedOn(earlier, Nat)
  BY NatLessThanWellFounded DEF OpToRel
<1>7. PICK b \in Met : \A c \in Met : ~(c < b)
  <2> HIDE DEF Met
  <2>1. PICK b \in Met : \A c \in Met : <<c, b>> \notin earlier
    <3> HIDE DEF earlier
    <3> QED
      BY <1>5, <1>6, WFMin
  <2> QED
    BY <1>5, <2>1
<1>8. PICK a \in Nat : b \in Nat /\ a < b /\ walk[a] = walk[b]
  OBVIOUS
<1>9. ASSUME NEW c \in Nat, NEW d \in Nat, c < d, d < b PROVE walk[c] # walk[d]
  <2>1. walk[c] = walk[d] => d \in Met
    BY <1>9
  <2> HIDE DEF Met
  <2> QED
    BY <1>7, <1>9, <2>1
<1> QED
  BY <1>8, <1>9

\* In a finite fleet an endless walk meets itself: HasCycle holds exactly when nx.simple_cycles,
\* on which _detect_cycles reports (manifest.py:548-551), has a cycle to give.
THEOREM CycleIsASimpleCycle ==
  ASSUME IsFiniteSet(Loop), NEW edges
  PROVE  HasCycle(edges) <=>
           \E n \in Nat \ {0} : \E path \in [0 .. n -> Loop] : SimpleCycle(edges, n, path)
<1>1. ASSUME HasCycle(edges)
      PROVE  \E n \in Nat \ {0} : \E path \in [0 .. n -> Loop] : SimpleCycle(edges, n, path)
  <2>1. PICK walk \in [Nat -> Loop] : \A n \in Nat : <<walk[n], walk[n+1]>> \in edges
    BY <1>1, CycleIsAnEndlessWalk
  <2>2. PICK a \in Nat, b \in Nat :
          /\ a < b /\ walk[a] = walk[b]
          /\ \A c, d \in Nat : c < d /\ d < b => walk[c] # walk[d]
    BY WalkMeetsItself
  <2> DEFINE path == [i \in 0 .. (b - a) |-> walk[a + i]]
  <2>3. b - a \in Nat \ {0} /\ path \in [0 .. (b - a) -> Loop]
    BY <2>2
  <2>4. path[b - a] = path[0]
    BY <2>2
  <2>5. ASSUME NEW i \in 0 .. ((b - a) - 1) PROVE <<path[i], path[i+1]>> \in edges
    <3>1. i \in 0 .. (b - a) /\ i + 1 \in 0 .. (b - a) /\ a + i \in Nat /\ a + (i + 1) = (a + i) + 1
      BY <2>2
    <3>2. path[i] = walk[a + i] /\ path[i+1] = walk[(a + i) + 1]
      BY <3>1
    <3> QED
      BY <2>1, <3>1, <3>2
  <2>6. ASSUME NEW i \in 0 .. ((b - a) - 1), NEW j \in 0 .. ((b - a) - 1), path[i] = path[j]
        PROVE  i = j
    <3>1. /\ a + i \in Nat /\ a + j \in Nat /\ a + i < b /\ a + j < b
          /\ i \in 0 .. (b - a) /\ j \in 0 .. (b - a)
      BY <2>2
    <3>2. walk[a + i] = walk[a + j]
      BY <2>6, <3>1
    <3>3. ~(a + i < a + j) /\ ~(a + j < a + i)
      BY <2>2, <3>1, <3>2
    <3> QED
      BY <3>1, <3>3
  <2> HIDE DEF path
  <2>7. SimpleCycle(edges, b - a, path)
    BY <2>4, <2>5, <2>6 DEF SimpleCycle
  <2> QED
    BY <2>3, <2>7
<1>2. ASSUME NEW n \in Nat \ {0}, NEW path \in [0 .. n -> Loop], SimpleCycle(edges, n, path)
      PROVE  HasCycle(edges)
  <2> DEFINE S == {path[i] : i \in 0 .. (n - 1)}
  <2>1. \A i \in 0 .. (n - 1) : path[i] \in Loop
    OBVIOUS
  <2>2. S \in (SUBSET Loop) \ {{}}
    <3>1. 0 \in 0 .. (n - 1) /\ S \subseteq Loop
      BY <2>1
    <3>2. path[0] \in S
      BY <3>1
    <3> HIDE DEF S
    <3> QED
      BY <3>1, <3>2
  <2>3. ASSUME NEW i \in 0 .. (n - 1) PROVE path[i+1] \in S
    <3>1. CASE i + 1 \in 0 .. (n - 1)
      BY <3>1
    <3>2. CASE i + 1 \notin 0 .. (n - 1)
      <4>1. i + 1 = n /\ 0 \in 0 .. (n - 1)
        BY <3>2
      <4> QED
        BY <1>2, <4>1 DEF SimpleCycle
    <3> QED
      BY <3>1, <3>2
  <2>4. \A k \in S : \E l \in S : <<k, l>> \in edges
    BY <1>2, <2>3 DEF SimpleCycle
  <2> HIDE DEF S
  <2> QED
    BY <2>2, <2>4 DEF HasCycle
<1> QED
  BY <1>1, <1>2
=============================================================================
