---------------------------- MODULE StagingProofs ----------------------------
(***************************************************************************)
(* Proofs about Staging, for every skill tree, every set of files and any  *)
(* number of edits: the agent starts on a usable config, and what it finds *)
(* in the worktree was effective.  The first argument follows the config's *)
(* copies through the stages: what is copied of the skill never stands in  *)
(* the config's place, so that the sibling, if it is staged, and else the  *)
(* public file is what the shadowing leaves there.  The second follows     *)
(* each place of the skill from the directory that leads to it, through    *)
(* the list of what is to be copied, to the one file that is left there.   *)
(***************************************************************************)
EXTENDS Staging, FiniteSetTheorems, SequenceTheorems, TLAPS

Judged ==
  {"resolve", "read", "skill", "manifest", "config", "sibling", "private", "shadow", "env", "extras",
   "agent"}
Begun == Judged \cup {"find", "judge", "seek"}
Resolved == Judged \ {"resolve"}
Asked == Resolved \ {"read"}
\* Nobody has edited the content config since preflight began.
Untouched == \A k \in Kind : <<"config", k>> \notin touched

TypeInv ==
  /\ tree \in [Inside -> SUBSET Dir]
  /\ files \in [Asset \X Kind -> Text \cup {Absent}]
  /\ pc \in Stages \cup {"agent", "failed"} /\ picked \in Kind

\* Entries of the skill stand under its root.
SkillPlace == {at \in Seq(Dir) : at # <<>>}
SkillItem == [op : {"dir"} \cup Kind, at : SkillPlace]
TodoInv == todo \in Seq(SkillItem)

\* What preflight found in order is so until it is edited.
JudgedInv ==
  /\ pc = "find" /\ Untouched => files[<<"config", "public">>] # Absent
  /\ pc = "judge" /\ Untouched => Read = Effective("config")
  /\ pc \in Judged \cup {"seek"} /\ Untouched => Effective("config") \in Valid

\* What content_assets found of the config is so until it is edited.
AskedInv ==
  /\ pc \in Resolved /\ Untouched => ~reedited
  /\ pc = "read" /\ ~reedited => Read = Effective("config")
  /\ pc \in Asked /\ ~reedited => wanted = (Effective("config") \in Valid \cap Refers)

\* Before the sibling is staged, nothing local stands in the config's place.
PlaceInv ==
  pc \in Stages \ {"shadow", "env", "extras"} =>
    \A c \in work : c.at = Config => c.kind = "public"

\* The copy of the config that the agent will find.
CopyInv ==
  /\ pc \in {"sibling", "private"} =>
       \E c \in work : c.at = Config /\ (~reedited => c.text = files[<<"config", "public">>])
  /\ pc = "private" /\ ~reedited => files[<<"config", "local">>] # Absent
  /\ pc = "shadow" =>
       \E c \in work : c.at = Config /\ ~Shadowed(c) /\ (~reedited => c.text = Effective("config"))
  /\ pc \in {"env", "extras", "agent"} =>
       \E c \in work : c.at = Config /\ (~reedited => c.text = Effective("config"))

SnapshotInv == pc = "agent" /\ wanted => \E d \in work : d.at = Snapshot /\ d.kind = "local"

\* A copy is a record of three fields.
WorkInv == \A c \in work : c = [at |-> c.at, kind |-> c.kind, text |-> c.text]

Inv == TypeInv /\ TodoInv /\ JudgedInv /\ AskedInv /\ PlaceInv /\ CopyInv /\ SnapshotInv /\ WorkInv

\* The config's files are files, and its place is not one of the skill.
LEMMA ConfigFacts ==
  /\ \A k \in Kind : <<"config", k>> \in Asset \X Kind
  /\ Config \in Place /\ Snapshot \in Place /\ Manifest \in Place
  /\ Config \notin SkillPlace /\ Manifest \notin SkillPlace
  /\ Config # Manifest /\ Config # Snapshot /\ Manifest # Snapshot
  /\ SkillPlace \subseteq Place
<1>1. "config" \in Asset
  BY DEF Asset
<1>2. Config \notin Seq(Dir) /\ Manifest \notin Seq(Dir)
  <2>1. Config[1] = "config" /\ Len(Config) = 1 /\ Manifest[1] = "manifest" /\ Len(Manifest) = 1
    BY DEF Config, Manifest
  <2> QED
    BY <2>1, TreeAssumption
<1>3. Config # Manifest /\ Config # Snapshot /\ Manifest # Snapshot
  BY DEF Config, Manifest, Snapshot
<1> QED
  BY <1>1, <1>2, <1>3 DEF Config, Snapshot, Manifest, SkillPlace, Place

LEMMA InitInv == Init => Inv
<1>1. SUFFICES ASSUME Init PROVE Inv
  OBVIOUS
<1>2. TypeInv
  BY <1>1, TreeAssumption, SourcesAssumption DEF Init, TypeInv, Stages, Kind
<1>3. TodoInv
  BY <1>1 DEF Init, TodoInv
<1> QED
  BY <1>1, <1>2, <1>3 DEF Init, Inv, JudgedInv, AskedInv, PlaceInv, CopyInv, SnapshotInv, WorkInv,
                          Judged, Resolved, Asked

\* An edit leaves what is staged, and touches the config if it changes it.
LEMMA EditInv ==
  ASSUME Inv, NEW a \in Asset, NEW kind \in Kind, NEW text \in Text \cup {Absent}, Edit(a, kind, text)
  PROVE  Inv'
<1> USE DEF Inv
<1>1. /\ files' = [files EXCEPT ![<<a, kind>>] = text] /\ touched' = touched \cup {<<a, kind>>}
      /\ reedited' = (reedited \/ a = "config")
  BY DEF Edit
<1>2. UNCHANGED <<tree, pc, todo, picked, wanted, work>>
  BY DEF Edit, staged, config
<1>3. TypeInv'
  BY <1>1, <1>2 DEF TypeInv
<1>4. CASE a = "config"
  <2>1. ~Untouched' /\ reedited'
    BY <1>1, <1>4 DEF Untouched
  <2>2. JudgedInv' /\ AskedInv'
    BY <2>1 DEF JudgedInv, AskedInv
  <2>3. CopyInv'
    BY <1>2, <2>1 DEF CopyInv, Shadowed
  <2> QED
    BY <1>2, <1>3, <2>2, <2>3 DEF TodoInv, PlaceInv, SnapshotInv, WorkInv
<1>5. CASE a # "config"
  <2>1. \A k \in Kind : files'[<<"config", k>>] = files[<<"config", k>>]
    <3>1. files \in [Asset \X Kind -> Text \cup {Absent}] /\ \A k \in Kind : <<"config", k>> \in Asset \X Kind
      BY ConfigFacts DEF TypeInv
    <3>2. \A k \in Kind : <<"config", k>> # <<a, kind>>
      BY <1>5
    <3> HIDE DEF Inv
    <3> QED
      BY <1>1, <3>1, <3>2, Zenon
  <2>2. (Untouched' <=> Untouched) /\ (reedited' <=> reedited)
    BY <1>1, <1>5 DEF Untouched
  <2>3. Effective("config")' = Effective("config")
    BY <2>1 DEF Effective, EffectiveOf, Kind
  <2>4. /\ files'[<<"config", "public">>] = files[<<"config", "public">>]
        /\ files'[<<"config", "local">>] = files[<<"config", "local">>]
    BY <2>1 DEF Kind
  <2>5. Read' = Read
    BY <1>2, <2>1 DEF Read, TypeInv
  <2>6. JudgedInv' /\ AskedInv'
    BY <1>2, <2>2, <2>3, <2>4, <2>5 DEF JudgedInv, AskedInv
  <2>7. CopyInv'
    BY <1>2, <2>2, <2>3, <2>4 DEF CopyInv, Shadowed
  <2> QED
    BY <1>2, <1>3, <2>6, <2>7 DEF TodoInv, PlaceInv, SnapshotInv, WorkInv
<1> QED
  BY <1>4, <1>5

\* A step to another stage that has no more to say of what is as it was.
LEMMA GoInv ==
  ASSUME Inv, NEW next, Go(next),
         next = "failed" \/ (next \in Stages \cup {"agent"} /\ JudgedInv' /\ AskedInv' /\ PlaceInv'
                             /\ CopyInv' /\ SnapshotInv')
  PROVE  Inv'
<1>1. pc' = next /\ UNCHANGED <<tree, files, todo, picked, wanted, work, touched, reedited>>
  BY DEF Go, source, config, staged, history
<1> QED
  BY <1>1 DEF Inv, TypeInv, TodoInv, JudgedInv, AskedInv, PlaceInv, CopyInv, SnapshotInv, WorkInv,
              Judged, Resolved, Asked, Stages

LEMMA FailInv ==
  ASSUME Inv, Fail
  PROVE  Inv'
BY GoInv DEF Fail

\* What is picked is effective at that moment.
LEMMA PickFacts ==
  ASSUME Pick, UNCHANGED files
  PROVE  Read' = Effective("config")' /\ picked' \in Kind
BY DEF Pick, Read, Effective, EffectiveOf, Kind

LEMMA PreflightInv ==
  ASSUME Inv, Preflight
  PROVE  Inv'
<1>1. CASE files[<<"config", "public">>] # Absent
  <2>1. pc = "preflight" /\ pc' = "find" /\ UNCHANGED <<tree, files, todo, picked, wanted, work>>
    BY <1>1 DEF Preflight, source, config, staged
  <2>2. JudgedInv'
    BY <1>1, <2>1 DEF JudgedInv, Judged
  <2> QED
    BY <2>1, <2>2 DEF Inv, TypeInv, TodoInv, AskedInv, PlaceInv, CopyInv, SnapshotInv, WorkInv,
                      Judged, Resolved, Asked, Stages
<1>2. CASE files[<<"config", "public">>] = Absent
  BY <1>2, FailInv DEF Preflight
<1> QED
  BY <1>1, <1>2

LEMMA FindInv ==
  ASSUME Inv, FindConfig
  PROVE  Inv'
<1>1. CASE files[<<"config", "public">>] = Absent
  <2>1. pc = "find" /\ Go("resolve") /\ pc' = "resolve" /\ UNCHANGED <<files, work, touched>>
    BY <1>1 DEF FindConfig, Go, source, staged, history
  <2>2. ~Untouched'
    BY <1>1, <2>1 DEF Inv, JudgedInv, Untouched
  <2>3. JudgedInv' /\ AskedInv' /\ PlaceInv' /\ CopyInv' /\ SnapshotInv'
    BY <2>1, <2>2 DEF Inv, JudgedInv, AskedInv, PlaceInv, CopyInv, SnapshotInv, Judged, Resolved, Asked,
                      Stages
  <2> QED
    BY <2>1, <2>3, GoInv DEF Stages
<1>2. CASE files[<<"config", "public">>] # Absent
  <2>1. pc = "find" /\ pc' = "judge" /\ Pick /\ UNCHANGED <<tree, files, todo, wanted, work, touched>>
    BY <1>2 DEF FindConfig, source, staged, history
  <2>2. Read' = Effective("config")' /\ picked' \in Kind
    BY <2>1, PickFacts
  <2> QED
    BY <2>1, <2>2 DEF Inv, TypeInv, TodoInv, JudgedInv, AskedInv, PlaceInv, CopyInv, SnapshotInv, WorkInv,
                      Judged, Resolved, Asked, Stages
<1> QED
  BY <1>1, <1>2

LEMMA JudgeInv ==
  ASSUME Inv, JudgeConfig
  PROVE  Inv'
<1>1. CASE Read \notin Valid
  BY <1>1, FailInv DEF JudgeConfig
<1>2. CASE Read \in Valid
  <2>1. PICK next \in {"seek", "resolve"} : Go(next)
    BY <1>2 DEF JudgeConfig
  <2>2. pc = "judge" /\ pc' = next /\ UNCHANGED <<files, work, touched>>
    BY <2>1 DEF JudgeConfig, Go, source, staged, history
  <2>3. JudgedInv'
    BY <1>2, <2>2 DEF Inv, JudgedInv, Judged, Untouched, Effective
  <2>4. AskedInv' /\ PlaceInv' /\ CopyInv' /\ SnapshotInv'
    BY <2>2 DEF Inv, AskedInv, PlaceInv, CopyInv, SnapshotInv, Judged, Resolved, Asked, Stages
  <2> QED
    BY <2>1, <2>3, <2>4, GoInv DEF Stages
<1> QED
  BY <1>1, <1>2

LEMMA SeekInv ==
  ASSUME Inv, SeekSnapshot
  PROVE  Inv'
<1>1. CASE ~snapshot
  BY <1>1, FailInv DEF SeekSnapshot
<1>2. CASE snapshot
  <2>1. Go("resolve") /\ pc = "seek" /\ pc' = "resolve" /\ UNCHANGED <<files, work, touched>>
    BY <1>2 DEF SeekSnapshot, Go, source, staged, history
  <2>2. JudgedInv' /\ AskedInv' /\ PlaceInv' /\ CopyInv' /\ SnapshotInv'
    BY <2>1 DEF Inv, JudgedInv, AskedInv, PlaceInv, CopyInv, SnapshotInv, Judged, Resolved, Asked, Stages,
                Untouched, Effective
  <2> QED
    BY <2>1, <2>2, GoInv DEF Stages
<1> QED
  BY <1>1, <1>2

LEMMA ResolveInv ==
  ASSUME Inv, Resolve
  PROVE  Inv'
<1>1. /\ pc = "resolve" /\ pc' = "read" /\ Pick /\ ~reedited'
      /\ UNCHANGED <<tree, files, todo, wanted, work, touched>>
  BY DEF Resolve, source, staged
<1>2. Read' = Effective("config")' /\ picked' \in Kind
  BY <1>1, PickFacts
<1>3. JudgedInv'
  BY <1>1 DEF Inv, JudgedInv, Judged, Untouched, Effective
<1>4. AskedInv'
  BY <1>1, <1>2 DEF AskedInv, Resolved, Asked, Judged
<1> QED
  BY <1>1, <1>2, <1>3, <1>4 DEF Inv, TypeInv, TodoInv, PlaceInv, CopyInv, SnapshotInv, WorkInv, Stages

LEMMA ReadInv ==
  ASSUME Inv, ReadAssets
  PROVE  Inv'
<1>1. /\ pc = "read" /\ pc' = "skill" /\ UNCHANGED <<tree, files, picked, work, touched, reedited>>
      /\ wanted' = (Read \in Valid \cap Refers)
      /\ todo' = <<[op |-> "dir", at |-> <<Root>>]>>
  BY DEF ReadAssets, source, history
<1>2. TodoInv'
  <2>1. <<Root>> \in SkillPlace
    BY TreeAssumption DEF SkillPlace
  <2> QED
    BY <1>1, <2>1 DEF TodoInv, SkillItem
<1>3. JudgedInv'
  BY <1>1 DEF Inv, JudgedInv, Judged, Untouched, Effective
<1>4. AskedInv'
  <2>1. ~reedited => wanted' = (Effective("config")' \in Valid \cap Refers)
    BY <1>1 DEF Inv, AskedInv, Effective
  <2> QED
    BY <1>1, <2>1 DEF Inv, AskedInv, Resolved, Judged, Untouched
<1> QED
  BY <1>1, <1>2, <1>3, <1>4 DEF Inv, TypeInv, PlaceInv, CopyInv, SnapshotInv, WorkInv, Stages

\* What is next to be copied stands under the skill's root.
LEMMA NextItem ==
  ASSUME TodoInv, todo # <<>>
  PROVE  /\ Head(todo) \in SkillItem
         /\ Head(todo).at \in SkillPlace /\ Head(todo).op \in {"dir"} \cup Kind
         /\ Tail(todo) \in Seq(SkillItem)
<1>1. Head(todo) \in SkillItem /\ Tail(todo) \in Seq(SkillItem)
  BY HeadTailProperties DEF TodoInv
<1> QED
  BY <1>1 DEF SkillItem

LEMMA CopyDirInv ==
  ASSUME Inv, pc = "skill", todo # <<>>, CopyDir(Head(todo))
  PROVE  Inv'
<1> DEFINE item == Head(todo)
<1>1. UNCHANGED <<tree, files, pc, picked, wanted, work, touched, reedited>>
  BY DEF CopyDir, source, config, history
<1>2. item.at \in SkillPlace /\ Tail(todo) \in Seq(SkillItem)
  BY NextItem DEF Inv
<1>3. TodoInv'
  <2>1. CASE Cyclic(item.at)
    BY <1>2, <2>1 DEF CopyDir, TodoInv
  <2>2. CASE ~Cyclic(item.at)
    <3>1. End(item.at) \in Inside
      BY <2>2 DEF CopyDir
    <3>2. PICK order \in SetToSeqs(tree[End(item.at)]) :
            todo' = Items(item.at)
                    \o [i \in DOMAIN order |-> [op |-> "dir", at |-> Append(item.at, order[i])]]
                    \o Tail(todo)
      BY <2>2 DEF CopyDir
    <3>3. Items(item.at) \in Seq(SkillItem)
      <4>1. \A k \in Kind : Item(item.at, k) \in Seq(SkillItem)
        <5>1. TAKE k \in Kind
        <5>2. [op |-> k, at |-> item.at] \in SkillItem
          BY <1>2 DEF SkillItem
        <5> QED
          BY <5>2 DEF Item, Kind
      <4> QED
        BY <4>1 DEF Items, Kind
    <3>4. [i \in DOMAIN order |-> [op |-> "dir", at |-> Append(item.at, order[i])]] \in Seq(SkillItem)
      <4>1. tree[End(item.at)] \subseteq Dir
        BY <3>1 DEF Inv, TypeInv
      <4>2. PICK n \in Nat : order \in [1..n -> Dir]
        <5>1. order \in [1..Cardinality(tree[End(item.at)]) -> tree[End(item.at)]]
          BY DEF SetToSeqs
        <5>2. Cardinality(tree[End(item.at)]) \in Nat
          BY <4>1, FS_Subset, FS_CardinalityType, TreeAssumption
        <5> QED
          BY <5>1, <5>2, <4>1
      <4>3. \A i \in 1..n : [op |-> "dir", at |-> Append(item.at, order[i])] \in SkillItem
        <5>1. TAKE i \in 1..n
        <5>2. order[i] \in Dir /\ item.at \in Seq(Dir)
          BY <1>2, <4>2 DEF SkillPlace
        <5>3. Append(item.at, order[i]) \in SkillPlace
          <6>1. Append(item.at, order[i]) \in Seq(Dir)
            BY <5>2
          <6>2. Append(item.at, order[i]) # <<>>
            BY <5>2, AppendProperties
          <6> QED
            BY <6>1, <6>2 DEF SkillPlace
        <5> QED
          BY <5>3 DEF SkillItem
      <4> QED
        BY <4>2, <4>3
    <3> QED
      BY <1>2, <3>2, <3>3, <3>4 DEF TodoInv
  <2> QED
    BY <2>1, <2>2
<1> QED
  BY <1>1, <1>3 DEF Inv, TypeInv, JudgedInv, AskedInv, PlaceInv, CopyInv, SnapshotInv, WorkInv,
                    Untouched, Effective, Shadowed, Read

LEMMA CopyFileInv ==
  ASSUME Inv, pc = "skill", todo # <<>>, CopyFile(Head(todo))
  PROVE  Inv'
<1> DEFINE item == Head(todo)
           text == files[<<End(item.at), item.op>>]
           copy == [at |-> item.at, kind |-> item.op, text |-> text]
<1>1. /\ UNCHANGED <<tree, files, pc, picked, wanted, touched, reedited>> /\ item.op \in Kind
      /\ todo' = Tail(todo) /\ work' = work \cup {copy}
  BY DEF CopyFile, source, config, history
<1>2. item.at \in SkillPlace
  BY NextItem DEF Inv
<1>3. TodoInv'
  BY <1>1, NextItem DEF Inv, TodoInv
<1>4. PlaceInv'
  BY <1>1, <1>2, ConfigFacts DEF Inv, PlaceInv
<1>5. WorkInv'
  BY <1>1 DEF Inv, WorkInv
<1> QED
  BY <1>1, <1>3, <1>4, <1>5 DEF Inv, TypeInv, JudgedInv, AskedInv, CopyInv, SnapshotInv, Untouched,
                                Effective, Read

LEMMA CopySkillInv ==
  ASSUME Inv, CopySkill
  PROVE  Inv'
<1>1. CASE todo # <<>> /\ CopyDir(Head(todo))
  BY <1>1, CopyDirInv DEF CopySkill
<1>2. CASE todo # <<>> /\ CopyFile(Head(todo))
  BY <1>2, CopyFileInv DEF CopySkill
<1>3. CASE todo # <<>> /\ CopyFails(Head(todo))
  BY <1>3, FailInv DEF CopyFails
<1>4. CASE todo = <<>> /\ Go("manifest")
  <2>1. pc = "skill" /\ pc' = "manifest" /\ UNCHANGED <<files, wanted, work, touched, reedited>>
    BY <1>4 DEF CopySkill, Go, source, config, staged, history
  <2>2. JudgedInv' /\ AskedInv' /\ PlaceInv' /\ CopyInv' /\ SnapshotInv'
    BY <2>1 DEF Inv, JudgedInv, AskedInv, PlaceInv, CopyInv, SnapshotInv, Judged, Resolved, Asked, Stages,
                Untouched, Effective
  <2> QED
    BY <1>4, <2>2, GoInv DEF Stages
<1> QED
  BY <1>1, <1>2, <1>3, <1>4 DEF CopySkill

\* What is added or changed in the worktree is a copy, and changes nothing else.
LEMMA ReworkInv ==
  ASSUME Inv, NEW copies, NEW next \in Stages \cup {"agent"}, Rework(copies, next),
         pc \in Asked, next \in Asked, PlaceInv', CopyInv', SnapshotInv', WorkInv'
  PROVE  Inv'
<1>1. pc' = next /\ UNCHANGED <<tree, files, todo, picked, wanted, touched, reedited>>
  BY DEF Rework, source, config, history
<1>2. JudgedInv' /\ AskedInv'
  BY <1>1 DEF Inv, JudgedInv, AskedInv, Judged, Resolved, Asked, Untouched, Effective
<1> QED
  BY <1>1, <1>2 DEF Inv, TypeInv, TodoInv

LEMMA PutInv ==
  ASSUME Inv, NEW place, NEW kind, NEW text, NEW next \in Stages \cup {"agent"},
         Put(place, kind, text, next), pc \in Asked, next \in Asked, PlaceInv', CopyInv', SnapshotInv'
  PROVE  Inv'
<1> DEFINE copy == [at |-> place, kind |-> kind, text |-> text]
<1>1. Rework(work \cup {copy}, next)
  BY DEF Put
<1>2. WorkInv'
  <2>1. work' = work \cup {copy} /\ copy = [at |-> copy.at, kind |-> copy.kind, text |-> copy.text]
    BY <1>1 DEF Rework
  <2> QED
    BY <2>1 DEF Inv, WorkInv
<1> HIDE DEF copy
<1> QED
  BY <1>1, <1>2, ReworkInv

LEMMA StageManifestInv ==
  ASSUME Inv, StageManifest
  PROVE  Inv'
<1>1. CASE Go("config")
  <2>1. pc = "manifest" /\ pc' = "config" /\ UNCHANGED <<files, wanted, work, touched, reedited>>
    BY <1>1 DEF StageManifest, Go, source, config, staged, history
  <2>2. JudgedInv' /\ AskedInv' /\ PlaceInv' /\ CopyInv' /\ SnapshotInv'
    BY <2>1 DEF Inv, JudgedInv, AskedInv, PlaceInv, CopyInv, SnapshotInv, Judged, Resolved, Asked, Stages,
                Untouched, Effective
  <2> QED
    BY <1>1, <2>2, GoInv DEF Stages
<1>2. CASE Put(Manifest, "public", "manifest", "config")
  <2>1. /\ pc = "manifest" /\ pc' = "config"
        /\ work' = work \cup {[at |-> Manifest, kind |-> "public", text |-> "manifest"]}
    BY <1>2 DEF StageManifest, Put, Rework
  <2>2. PlaceInv'
    BY <2>1 DEF Inv, PlaceInv, Stages
  <2>3. CopyInv' /\ SnapshotInv'
    BY <2>1 DEF CopyInv, SnapshotInv
  <2> QED
    BY <1>2, <2>1, <2>2, <2>3, PutInv DEF Stages, Asked, Resolved, Judged
<1> QED
  BY <1>1, <1>2 DEF StageManifest

LEMMA StageConfigInv ==
  ASSUME Inv, StageConfig
  PROVE  Inv'
<1> DEFINE text == files[<<"config", "public">>]
           copy == [at |-> Config, kind |-> "public", text |-> text]
<1>1. CASE text = Absent
  BY <1>1, FailInv DEF StageConfig
<1>2. CASE text # Absent
  <2>1. /\ pc = "config" /\ pc' = "sibling" /\ work' = work \cup {copy} /\ UNCHANGED files
        /\ Put(Config, "public", text, "sibling")
    BY <1>2 DEF StageConfig, Put, Rework, source
  <2>2. copy \in work' /\ copy.at = Config /\ copy.text = text'
    BY <2>1
  <2>3. CopyInv' /\ SnapshotInv'
    BY <2>1, <2>2 DEF CopyInv, SnapshotInv
  <2>4. PlaceInv'
    BY <2>1 DEF Inv, PlaceInv, Stages
  <2> QED
    BY <2>1, <2>3, <2>4, PutInv DEF Stages, Asked, Resolved, Judged
<1> QED
  BY <1>1, <1>2

\* Where there is no sibling, the public file is effective, and nothing shadows its copy.
LEMMA StageSiblingInv ==
  ASSUME Inv, StageSibling
  PROVE  Inv'
<1> DEFINE next == IF files[<<"config", "local">>] = Absent THEN "shadow" ELSE "private"
<1>1. /\ pc = "sibling" /\ pc' = next /\ Go(next)
      /\ UNCHANGED <<files, wanted, work, touched, reedited>>
  BY DEF StageSibling, Go, source, config, staged, history
<1>2. PICK c \in work : c.at = Config /\ (~reedited => c.text = files[<<"config", "public">>])
  BY <1>1 DEF Inv, CopyInv
<1>3. CopyInv'
  <2>1. CASE files[<<"config", "local">>] = Absent
    <3>1. ~Shadowed(c)'
      BY <1>1, <1>2 DEF Inv, PlaceInv, Shadowed, Stages
    <3>2. Effective("config")' = files[<<"config", "public">>]
      BY <1>1, <2>1 DEF Effective, EffectiveOf
    <3> QED
      BY <1>1, <1>2, <2>1, <3>1, <3>2 DEF CopyInv
  <2>2. CASE files[<<"config", "local">>] # Absent
    BY <1>1, <1>2, <2>2 DEF CopyInv
  <2> QED
    BY <2>1, <2>2
<1>4. JudgedInv' /\ AskedInv' /\ PlaceInv' /\ SnapshotInv'
  BY <1>1 DEF Inv, JudgedInv, AskedInv, PlaceInv, SnapshotInv, Judged, Resolved, Asked, Stages,
              Untouched, Effective
<1> QED
  BY <1>1, <1>3, <1>4, GoInv DEF Stages

\* Where it is copied, nothing shadows it.
LEMMA CopySiblingInv ==
  ASSUME Inv, CopySibling
  PROVE  Inv'
<1> DEFINE text == files[<<"config", "local">>]
           copy == [at |-> Config, kind |-> "local", text |-> text]
<1>1. CASE text = Absent
  BY <1>1, FailInv DEF CopySibling
<1>2. CASE text # Absent
  <2>1. /\ pc = "private" /\ pc' = "shadow" /\ work' = work \cup {copy} /\ UNCHANGED files
        /\ Put(Config, "local", text, "shadow")
    BY <1>2 DEF CopySibling, Put, Rework, source
  <2>2. copy \in work' /\ copy.at = Config /\ copy.kind = "local" /\ copy.text = text
    BY <2>1
  <2>3. ~Shadowed(copy)'
    BY <2>2 DEF Shadowed
  <2>4. Effective("config")' = text
    BY <1>2, <2>1 DEF Effective, EffectiveOf
  <2>5. CopyInv' /\ PlaceInv' /\ SnapshotInv'
    BY <2>1, <2>2, <2>3, <2>4 DEF CopyInv, PlaceInv, SnapshotInv, Stages
  <2> QED
    BY <2>1, <2>5, PutInv DEF Stages, Asked, Resolved, Judged
<1> QED
  BY <1>1, <1>2

LEMMA ShadowInv ==
  ASSUME Inv, ApplyLocalShadowing
  PROVE  Inv'
<1>1. /\ pc = "shadow" /\ pc' = "env" /\ work' = Shadowing
      /\ UNCHANGED <<files, wanted, reedited>> /\ Rework(Shadowing, "env")
  BY DEF ApplyLocalShadowing, Rework, source, config, history
<1>2. PICK c \in work : c.at = Config /\ ~Shadowed(c) /\ (~reedited => c.text = Effective("config"))
  BY <1>1 DEF Inv, CopyInv
<1>3. c = [at |-> c.at, kind |-> c.kind, text |-> c.text]
  BY DEF Inv, WorkInv
<1>4. CopyInv'
  <2> DEFINE bareCopy == [c EXCEPT !.kind = "public"]
  <2>1. bareCopy \in work' /\ bareCopy.at = Config /\ bareCopy.text = c.text
    BY <1>1, <1>2, <1>3 DEF Shadowing
  <2> QED
    BY <1>1, <1>2, <2>1 DEF CopyInv, Effective
<1>5. WorkInv'
  <2>1. \A d \in work : [d EXCEPT !.kind = "public"] = [at |-> d.at, kind |-> "public", text |-> d.text]
    BY DEF Inv, WorkInv
  <2> QED
    <3>1. \A x \in Shadowing : \E d \in work : x = [d EXCEPT !.kind = "public"]
      BY DEF Shadowing
    <3>2. \A x \in Shadowing : x = [at |-> x.at, kind |-> x.kind, text |-> x.text]
      <4> TAKE x \in Shadowing
      <4>1. PICK d \in work : x = [d EXCEPT !.kind = "public"]
        BY <3>1
      <4>2. x = [at |-> d.at, kind |-> "public", text |-> d.text]
        BY <2>1, <4>1
      <4> QED
        BY <4>2
    <3> QED
      BY <1>1, <3>2 DEF WorkInv
<1>6. PlaceInv' /\ SnapshotInv'
  BY <1>1 DEF PlaceInv, SnapshotInv
<1> QED
  BY <1>1, <1>4, <1>5, <1>6, ReworkInv DEF Stages, Asked, Resolved, Judged

LEMMA EnvInv ==
  ASSUME Inv, ApplyEnvOverrides
  PROVE  Inv'
<1> DEFINE Over(d) == [d EXCEPT !.text = IF d.at \in environ \ {Config, Manifest} THEN FromEnv ELSE @]
           copies == {Over(d) : d \in work}
<1>1. /\ pc = "env" /\ pc' = "extras" /\ work' = copies
      /\ UNCHANGED <<files, reedited>> /\ Rework(copies, "extras")
  BY DEF ApplyEnvOverrides, Rework, source, history
<1>2. \A d \in work : /\ Over(d) = [at |-> d.at, kind |-> d.kind, text |-> Over(d).text]
                      /\ d.at = Config => Over(d).text = d.text
  BY DEF Inv, WorkInv
<1>3. CopyInv'
  <2>1. PICK c \in work : c.at = Config /\ (~reedited => c.text = Effective("config"))
    BY <1>1 DEF Inv, CopyInv
  <2>2. Over(c) \in work' /\ Over(c).at = Config /\ Over(c).text = c.text
    BY <1>1, <1>2, <2>1
  <2> HIDE DEF Over, copies
  <2> QED
    BY <1>1, <2>1, <2>2 DEF CopyInv, Effective
<1>4. WorkInv'
  <2>1. \A d \in work : Over(d).at = d.at /\ Over(d).kind = d.kind
    BY DEF Inv, WorkInv
  <2>2. \A d \in work : Over(d) = [at |-> Over(d).at, kind |-> Over(d).kind, text |-> Over(d).text]
    BY <1>2, <2>1
  <2> HIDE DEF Over
  <2> QED
    BY <1>1, <2>2 DEF WorkInv
<1>5. PlaceInv' /\ SnapshotInv'
  BY <1>1 DEF PlaceInv, SnapshotInv
<1> HIDE DEF Over, copies
<1> QED
  BY <1>1, <1>3, <1>4, <1>5, ReworkInv DEF Stages, Asked, Resolved, Judged

LEMMA ExtrasInv ==
  ASSUME Inv, StageExtras
  PROVE  Inv'
<1> DEFINE copy == [at |-> Snapshot, kind |-> "local", text |-> "snapshot"]
<1>1. CASE wanted /\ ~snapshot
  BY <1>1, FailInv DEF StageExtras
<1>2. CASE wanted /\ snapshot
  <2>1. /\ pc = "extras" /\ pc' = "agent" /\ work' = work \cup {copy} /\ UNCHANGED <<files, reedited>>
        /\ Put(Snapshot, "local", "snapshot", "agent")
    BY <1>2 DEF StageExtras, Put, Rework, source, history
  <2>2. copy \in work' /\ copy.at = Snapshot /\ copy.kind = "local"
    BY <2>1
  <2>3. CopyInv' /\ SnapshotInv' /\ PlaceInv'
    BY <2>1, <2>2 DEF Inv, CopyInv, SnapshotInv, PlaceInv, Stages, Effective
  <2> QED
    BY <2>1, <2>3, PutInv DEF Asked, Resolved, Judged
<1>3. CASE ~wanted
  <2>1. /\ pc = "extras" /\ pc' = "agent" /\ UNCHANGED <<files, wanted, work, touched, reedited>>
        /\ Go("agent")
    BY <1>3 DEF StageExtras, Go, source, config, staged, history
  <2>2. JudgedInv' /\ AskedInv' /\ PlaceInv' /\ CopyInv' /\ SnapshotInv'
    BY <1>3, <2>1 DEF Inv, JudgedInv, AskedInv, PlaceInv, CopyInv, SnapshotInv, Judged, Resolved, Asked,
                      Stages, Untouched, Effective
  <2> QED
    BY <2>1, <2>2, GoInv
<1> QED
  BY <1>1, <1>2, <1>3

LEMMA InvInductive == Spec => []Inv
<1>1. Inv /\ [Next]_vars => Inv'
  <2>1. SUFFICES ASSUME Inv, [Next]_vars PROVE Inv'
    OBVIOUS
  <2>2. CASE EditSnapshot
    <3>1. UNCHANGED <<tree, files, pc, todo, picked, wanted, work, touched, reedited>>
      BY <2>2 DEF EditSnapshot, config, staged, history
    <3> QED
      BY <2>1, <3>1 DEF Inv, TypeInv, TodoInv, JudgedInv, AskedInv, PlaceInv, CopyInv, SnapshotInv,
                        WorkInv, Untouched, Effective, Shadowed, Read
  <2>3. CASE UNCHANGED vars
    <3>1. UNCHANGED <<tree, files, pc, todo, picked, wanted, work, touched, reedited>>
      BY <2>3 DEF vars, source, config, staged, history
    <3> QED
      BY <2>1, <3>1 DEF Inv, TypeInv, TodoInv, JudgedInv, AskedInv, PlaceInv, CopyInv, SnapshotInv,
                        WorkInv, Untouched, Effective, Shadowed, Read
  <2> QED
    BY <2>1, <2>2, <2>3, EditInv, PreflightInv, FindInv, JudgeInv, SeekInv, ResolveInv, ReadInv,
       CopySkillInv, StageManifestInv, StageConfigInv, StageSiblingInv, CopySiblingInv, ShadowInv,
       EnvInv, ExtrasInv DEF Next
<1> QED
  BY <1>1, InitInv, PTL DEF Spec

\* The agent starts on a config its typed model accepts unless it was edited after preflight
\* found it, and with the snapshot that config refers to unless it was edited after
\* content_assets looked for it, between its look and its read included (capabilities.py:209-263,
\* worktree.py:185-265), for every tree, every set of files and any number of edits.
THEOREM ConfigIsUsable == Spec => []ConfigUsable
<1>1. Inv => ConfigUsable
  <2>1. SUFFICES ASSUME Inv, pc = "agent" PROVE ConfigUsable
    BY DEF ConfigUsable
  <2>2. PICK c \in work : c.at = Config /\ (~reedited => c.text = Effective("config"))
    BY <2>1 DEF Inv, CopyInv
  <2>3. Untouched => ~reedited /\ Effective("config") \in Valid
    BY <2>1 DEF Inv, JudgedInv, AskedInv, Judged, Resolved
  <2>4. ~reedited /\ c.text \in Valid \cap Refers => wanted
    BY <2>1, <2>2 DEF Inv, AskedInv, Asked, Resolved, Judged
  <2>5. wanted => \E d \in work : d.at = Snapshot /\ d.kind = "local"
    BY <2>1 DEF Inv, SnapshotInv
  <2> QED
    BY <2>2, <2>3, <2>4, <2>5 DEF ConfigUsable, Untouched
<1> QED
  BY <1>1, InvInductive, PTL

-----------------------------------------------------------------------------
(* What is staged was effective.  While the skill is copied, each place    *)
(* that is walked to is still led to by a listed directory, or has been    *)
(* listed; what is listed and what is copied stand apart, so that nothing  *)
(* is staged twice.                                                        *)

Early == {"preflight", "find", "judge", "seek", "resolve", "read"}
Late == {"manifest", "config", "sibling", "private", "shadow", "env", "extras", "agent"}
Copying == {"skill", "manifest", "config", "sibling", "private", "shadow"}

WasInv ==
  /\ was \in [Asset -> SUBSET (Text \cup {Absent})]
  /\ pc \in Begun => \A a \in Asset : Effective(a) \in was[a]

EmptyInv == (pc \in Early => work = {}) /\ (pc \in Early \cup Late => todo = <<>>)

\* The way to one place leads through, or ends at, the other.
Leads(p, q) == Len(p) <= Len(q) /\ \A i \in 1..Len(p) : p[i] = q[i]

\* A walk from the root, and one step further, which may lead anywhere.
Steps(p) ==
  /\ p # <<>> /\ p[1] = Root
  /\ \A i \in 1..Len(p) - 1 : p[i] \in Inside /\ p[i + 1] \in tree[p[i]]
  /\ \A i, j \in 1..Len(p) - 1 : p[i] = p[j] => i = j

Pending(op, p) == \E x \in Range(todo) : x.op = op /\ x.at = p
Listed(kind, p) == Pending(kind, p) \/ \E c \in work : c.kind = kind /\ c.at = p

WalkInv ==
  /\ pc = "skill" =>
       \A x \in Range(todo) : IF x.op = "dir" THEN Steps(x.at) ELSE x.at \in Walks
  /\ pc \in Copying =>
       \A c \in work : /\ c.kind \in Kind
                       /\ \/ c.at \in Walks
                          \/ c.at = Config /\ pc \notin {"skill", "manifest", "config"}
                          \/ c.at = Manifest /\ c.kind = "public" /\ pc \notin {"skill", "manifest"}

\* Two entries, neither of them a directory that the way to the other leads through.
Apart(x, y) ==
  /\ x # y
  /\ x.op = "dir" => ~Leads(x.at, y.at)
  /\ y.op = "dir" => ~Leads(y.at, x.at)
AllApart(s) == \A i, j \in 1..Len(s) : i # j => Apart(s[i], s[j])
ItemOf(c) == [op |-> c.kind, at |-> c.at]

QueueInv ==
  pc = "skill" => AllApart(todo) /\ \A c \in work, x \in Range(todo) : Apart(ItemOf(c), x)

OnceInv == pc \in Copying => \A c, d \in work : ItemOf(c) = ItemOf(d) => c = d

\* Every place that is walked to will be, or has been, listed.
CoverInv ==
  /\ pc = "skill" =>
       \A p \in Walks :
         \/ \E x \in Range(todo) : x.op = "dir" /\ Leads(x.at, p)
         \/ /\ p \in bare \/ \E kind \in Kind : Listed(kind, p)
            /\ \A d \in tree[End(p)] : d \in Inside \/ Pending("dir", Append(p, d))
  /\ pc \in Late =>
       \A p \in Walks : /\ tree[End(p)] \subseteq Inside
                        /\ p \in bare \/ \E c \in work : c.at = p

\* A public file that was listed without a local one is effective, or will have been.
PendingInv ==
  pc = "skill" =>
    \A x \in Range(todo) :
      x.op = "public" =>
        \/ BothEdited(End(x.at)) \/ Listed("local", x.at)
        \/ files[<<End(x.at), "local">>] = Absent
        \/ files[<<End(x.at), "public">>] \in was[End(x.at)] /\ <<End(x.at), "local">> \in touched

\* So is the public config that is staged, before it is known whether there is a sibling.
ConfigTextInv ==
  pc \in {"sibling", "private"} =>
    \A c \in work :
      c.at = Config =>
        \/ BothEdited("config") \/ c.text \in was["config"]
        \/ c.text = files[<<"config", "public">>]
        \/ files[<<"config", "local">>] # Absent /\ <<"config", "public">> \in touched

TextInv ==
  pc \in Copying =>
    \A c \in work :
      \/ c.at = Config /\ pc \in {"sibling", "private"}
      \/ c.at = Manifest
      \/ BothEdited(End(c.at)) \/ c.text \in was[End(c.at)]
      \/ c.kind = "public" /\ Listed("local", c.at)

\* Once the local files have taken the place of the public ones.
BundleInv ==
  pc \in {"env", "extras", "agent"} =>
    /\ \A c \in work :
         \/ pc = "agent" /\ c.at = Snapshot
         \/ c.at = Manifest /\ c.kind = "public"
         \/ /\ c.at \in Walks \cup {Config} /\ c.kind = "public"
            /\ \/ BothEdited(End(c.at)) \/ c.text \in was[End(c.at)]
               \/ c.at \in environ \cap Walks
            /\ pc # "env" /\ c.at \in environ \cap Walks => c.text = FromEnv
    /\ \A c, d \in work : c.at = d.at => c = d

StagedInv ==
  /\ WasInv /\ EmptyInv /\ WalkInv /\ QueueInv /\ OnceInv /\ CoverInv
  /\ PendingInv /\ ConfigTextInv /\ TextInv /\ BundleInv

-----------------------------------------------------------------------------
\* On ways through the tree.
LEMMA LeadsFacts ==
  ASSUME NEW p \in Seq(Dir), NEW q \in Seq(Dir)
  PROVE  /\ \A r \in Seq(Dir) : Leads(p, q) /\ Leads(q, r) => Leads(p, r)
         /\ \A r \in Seq(Dir) : Leads(p, r) /\ Leads(q, r) => Leads(p, q) \/ Leads(q, p)
         /\ Leads(p, p)
         /\ Leads(p, q) /\ Len(p) = Len(q) => p = q
<1>1. Len(p) \in Nat /\ Len(q) \in Nat
  BY LenProperties
<1>2. ASSUME NEW r \in Seq(Dir), Leads(p, q), Leads(q, r) PROVE Leads(p, r)
  <2>1. Len(r) \in Nat
    BY LenProperties
  <2> QED
    BY <1>1, <1>2, <2>1 DEF Leads
<1>3. ASSUME NEW r \in Seq(Dir), Leads(p, r), Leads(q, r) PROVE Leads(p, q) \/ Leads(q, p)
  <2>1. Len(r) \in Nat
    BY LenProperties
  <2> QED
    BY <1>1, <1>3, <2>1 DEF Leads
<1>4. Leads(p, q) /\ Len(p) = Len(q) => p = q
  BY SeqEqual DEF Leads
<1> QED
  BY <1>1, <1>2, <1>3, <1>4 DEF Leads

\* One step further.
LEMMA StepFacts ==
  ASSUME NEW q \in Seq(Dir), NEW d \in Dir
  PROVE  /\ Append(q, d) \in Seq(Dir) /\ End(Append(q, d)) = d
         /\ Leads(q, Append(q, d)) /\ ~Leads(Append(q, d), q)
         /\ \A p \in Seq(Dir) :
              Leads(q, p) /\ q # p /\ p[Len(q) + 1] = d => Leads(Append(q, d), p)
         /\ \A e \in Dir : Leads(Append(q, d), Append(q, e)) => d = e
<1>1. /\ Len(q) \in Nat /\ Append(q, d) \in Seq(Dir) /\ Len(Append(q, d)) = Len(q) + 1
      /\ \A i \in 1..Len(q) : Append(q, d)[i] = q[i]
      /\ Append(q, d)[Len(q) + 1] = d
  BY LenProperties, AppendProperties
<1>2. ASSUME NEW p \in Seq(Dir), Leads(q, p), q # p, p[Len(q) + 1] = d
      PROVE  Leads(Append(q, d), p)
  <2>1. Len(p) \in Nat /\ Len(q) <= Len(p) /\ Len(q) # Len(p)
    BY <1>2, LeadsFacts, LenProperties DEF Leads
  <2> QED
    BY <1>1, <1>2, <2>1 DEF Leads
<1>3. ASSUME NEW e \in Dir, Leads(Append(q, d), Append(q, e)) PROVE d = e
  <2>1. Append(q, e)[Len(q) + 1] = e
    BY AppendProperties
  <2> QED
    BY <1>1, <1>3, <2>1 DEF Leads
<1> QED
  BY <1>1, <1>2, <1>3 DEF Leads, End

\* A place that is walked to is a sequence of directories of the skill.
LEMMA WalkFacts ==
  ASSUME NEW p \in Walks
  PROVE  /\ p \in Seq(Dir) /\ p \in SkillPlace /\ p # Config /\ p # Snapshot /\ p # Manifest
         /\ Len(p) \in Nat \ {0} /\ End(p) \in Inside /\ End(p) \in Asset
         /\ \A i \in 1..Len(p) : p[i] \in Inside
         /\ p[1] = Root /\ \A i \in 1..Len(p) - 1 : p[i + 1] \in tree[p[i]]
         /\ \A i, j \in 1..Len(p) : p[i] = p[j] => i = j
<1>1. PICK n \in 1..Cardinality(Inside) : p \in [1..n -> Inside]
  BY DEF Walks
<1>2. n \in Nat \ {0}
  <2>1. Cardinality(Inside) \in Nat
    BY FS_Subset, FS_CardinalityType, TreeAssumption
  <2> QED
    BY <2>1
<1>3. p \in Seq(Inside) /\ Len(p) = n
  BY <1>1, <1>2
<1>4. p \in Seq(Dir) /\ p # <<>>
  BY <1>1, <1>2, <1>3, TreeAssumption
<1>5. p \in SkillPlace
  BY <1>4 DEF SkillPlace
<1>6. p # Snapshot
  <2>1. Snapshot[1] = "snapshot" /\ Len(Snapshot) = 1
    BY DEF Snapshot
  <2> QED
    BY <1>1, <1>2, <1>3, <2>1, TreeAssumption
<1> QED
  BY <1>1, <1>2, <1>3, <1>4, <1>5, <1>6, ConfigFacts DEF Walks, End, Asset

\* Going round in a circle is told by the cycle check, so that no walk is longer than
\* there are directories.
LEMMA StepsAreWalks ==
  ASSUME NEW p \in Seq(Dir), Steps(p), ~Cyclic(p), End(p) \in Inside
  PROVE  p \in Walks
<1> DEFINE n == Len(p)
<1>1. n \in Nat \ {0} /\ p \in [1..n -> Dir]
  BY LenProperties, EmptySeq DEF Steps
<1>2. \A i \in 1..n : p[i] \in Inside
  BY <1>1 DEF Steps, End
<1>3. p \in [1..n -> Inside]
  BY <1>1, <1>2
<1>4. \A i, j \in 1..n : p[i] = p[j] => i = j
  BY <1>1 DEF Steps, Cyclic, End
<1>5. IsFiniteSet(Inside) /\ Cardinality(Inside) \in Nat
  BY FS_Subset, FS_CardinalityType, TreeAssumption
<1>6. Cardinality(1..n) = n
  BY <1>1, FS_Interval
<1>7. n <= Cardinality(Inside)
  <2>1. p \in Injection(1..n, Inside)
    BY <1>3, <1>4 DEF Injection, IsInjective
  <2> QED
    BY <1>5, <1>6, <2>1, FS_Injection
<1> QED
  BY <1>1, <1>3, <1>4, <1>5, <1>7 DEF Walks, Steps

\* From a walk, each subdirectory is one step further.
LEMMA WalksGoOn ==
  ASSUME NEW p \in Walks, NEW d \in tree[End(p)], d \in Dir
  PROVE  Append(p, d) \in SkillPlace /\ Steps(Append(p, d)) /\ (d \notin Inside => ~Cyclic(Append(p, d)))
<1> DEFINE q == Append(p, d)
<1>1. /\ p \in Seq(Dir) /\ Len(p) \in Nat \ {0} /\ p[1] = Root
      /\ \A i \in 1..Len(p) : p[i] \in Inside
      /\ \A i \in 1..Len(p) - 1 : p[i + 1] \in tree[p[i]]
      /\ \A i, j \in 1..Len(p) : p[i] = p[j] => i = j
  BY WalkFacts
<1>2. /\ q \in Seq(Dir) /\ q # <<>> /\ Len(q) = Len(p) + 1 /\ q[Len(p) + 1] = d
      /\ \A i \in 1..Len(p) : q[i] = p[i]
  BY <1>1, AppendProperties
<1> HIDE DEF q
<1>3. \A i \in 1..Len(q) - 1 : q[i] \in Inside /\ q[i + 1] \in tree[q[i]]
  <2> TAKE i \in 1..Len(q) - 1
  <2>1. i \in 1..Len(p) /\ q[i] = p[i]
    BY <1>1, <1>2
  <2>2. CASE i = Len(p)
    BY <1>1, <1>2, <2>1, <2>2 DEF End
  <2>3. CASE i # Len(p)
    <3>1. i + 1 \in 1..Len(p) /\ i \in 1..Len(p) - 1
      BY <1>1, <2>1, <2>3
    <3> QED
      BY <1>1, <1>2, <2>1, <3>1
  <2> QED
    BY <2>2, <2>3
<1>4. q[1] = Root /\ \A i, j \in 1..Len(q) - 1 : q[i] = q[j] => i = j
  BY <1>1, <1>2
<1>5. Steps(q)
  BY <1>2, <1>3, <1>4 DEF Steps
<1>6. d \notin Inside => ~Cyclic(q)
  BY <1>1, <1>2 DEF Cyclic, End
<1> QED
  BY <1>2, <1>5, <1>6 DEF q, SkillPlace

\* The first entry and the rest.
LEMMA TodoFacts ==
  ASSUME TodoInv, todo # <<>>
  PROVE  /\ Tail(todo) \in Seq(SkillItem) /\ Range(Tail(todo)) \subseteq SkillItem
         /\ Range(todo) = {Head(todo)} \cup Range(Tail(todo))
         /\ AllApart(todo) => AllApart(Tail(todo)) /\ \A x \in Range(Tail(todo)) : Apart(Head(todo), x)
<1> DEFINE t == Tail(todo)
<1>1. /\ t \in Seq(SkillItem) /\ Len(todo) \in Nat \ {0} /\ Len(t) = Len(todo) - 1
      /\ \A i \in 1..Len(t) : t[i] = todo[i + 1]
      /\ Head(todo) = todo[1]
  BY HeadTailProperties, EmptySeq DEF TodoInv
<1>2. DOMAIN todo = 1..Len(todo) /\ DOMAIN t = 1..Len(t)
  BY <1>1, LenProperties DEF TodoInv
<1> HIDE DEF t
<1>3. Range(t) \subseteq SkillItem
  BY <1>1, <1>2, ElementOfSeq DEF Range
<1>4. Range(todo) = {Head(todo)} \cup Range(t)
  <2>1. \A i \in 1..Len(todo) : i = 1 \/ (i - 1 \in 1..Len(t) /\ t[i - 1] = todo[i])
    BY <1>1
  <2>2. \A i \in 1..Len(t) : i + 1 \in 1..Len(todo)
    BY <1>1
  <2>3. 1 \in 1..Len(todo)
    BY <1>1
  <2>4. Range(todo) \subseteq {Head(todo)} \cup Range(t)
    <3> SUFFICES ASSUME NEW i \in 1..Len(todo) PROVE todo[i] \in {Head(todo)} \cup Range(t)
      BY <1>2 DEF Range
    <3> QED
      BY <1>1, <1>2, <2>1 DEF Range
  <2>5. Range(t) \subseteq Range(todo)
    <3> SUFFICES ASSUME NEW i \in 1..Len(t) PROVE t[i] \in Range(todo)
      BY <1>2 DEF Range
    <3> QED
      BY <1>1, <1>2, <2>2 DEF Range
  <2>6. Head(todo) \in Range(todo)
    BY <1>1, <1>2, <2>3 DEF Range
  <2> QED
    BY <2>4, <2>5, <2>6
<1>5. ASSUME AllApart(todo) PROVE AllApart(t) /\ \A x \in Range(t) : Apart(Head(todo), x)
  <2>1. \A i \in 1..Len(t) : i + 1 \in 1..Len(todo) /\ i + 1 # 1
    BY <1>1
  <2>2. 1 \in 1..Len(todo) /\ \A i, j \in 1..Len(t) : i # j => i + 1 # j + 1
    BY <1>1
  <2> QED
    BY <1>1, <1>2, <1>5, <2>1, <2>2 DEF AllApart, Range
<1> QED
  BY <1>1, <1>3, <1>4, <1>5 DEF t

\* Two sequences of entries that stand apart, one after the other.
LEMMA ApartConcat ==
  ASSUME NEW s \in Seq(SkillItem), NEW t \in Seq(SkillItem), AllApart(s), AllApart(t),
         \A x \in Range(s), y \in Range(t) : Apart(x, y)
  PROVE  AllApart(s \o t)
<1>1. /\ Len(s) \in Nat /\ Len(t) \in Nat /\ Len(s \o t) = Len(s) + Len(t)
      /\ \A i \in 1..Len(s) + Len(t) : (s \o t)[i] = IF i <= Len(s) THEN s[i] ELSE t[i - Len(s)]
      /\ DOMAIN s = 1..Len(s) /\ DOMAIN t = 1..Len(t)
  BY ConcatProperties, LenProperties
<1>2. \A i \in 1..Len(s), j \in 1..Len(t) : Apart(s[i], t[j]) /\ Apart(t[j], s[i])
  <2>1. \A i \in 1..Len(s), j \in 1..Len(t) : Apart(s[i], t[j])
    BY <1>1 DEF Range
  <2> QED
    BY <2>1 DEF Apart
<1>3. ASSUME NEW i \in 1..Len(s) + Len(t), NEW j \in 1..Len(s) + Len(t), i # j
      PROVE  Apart((s \o t)[i], (s \o t)[j])
  <2>1. CASE i <= Len(s) /\ j <= Len(s)
    BY <1>1, <1>3, <2>1 DEF AllApart
  <2>2. CASE i <= Len(s) /\ ~(j <= Len(s))
    <3>1. i \in 1..Len(s) /\ j - Len(s) \in 1..Len(t)
      BY <1>1, <2>2
    <3> QED
      BY <1>1, <1>2, <2>2, <3>1
  <2>3. CASE ~(i <= Len(s)) /\ j <= Len(s)
    <3>1. j \in 1..Len(s) /\ i - Len(s) \in 1..Len(t)
      BY <1>1, <2>3
    <3> QED
      BY <1>1, <1>2, <2>3, <3>1
  <2>4. CASE ~(i <= Len(s)) /\ ~(j <= Len(s))
    <3>1. i - Len(s) \in 1..Len(t) /\ j - Len(s) \in 1..Len(t) /\ i - Len(s) # j - Len(s)
      BY <1>1, <1>3, <2>4
    <3> QED
      BY <1>1, <2>4, <3>1 DEF AllApart
  <2> QED
    BY <2>1, <2>2, <2>3, <2>4
<1> QED
  BY <1>1, <1>3 DEF AllApart

\* What is listed of a directory: its files, and its subdirectories.
FilesOf(q) == {x \in [op : Kind, at : {q}] : files[<<End(q), x.op>>] # Absent}
SubdirsOf(q) == {[op |-> "dir", at |-> Append(q, d)] : d \in tree[End(q)]}

\* An order of the subdirectories names each of them once.
LEMMA OrderFacts ==
  ASSUME NEW S \in SUBSET Dir, NEW order \in SetToSeqs(S)
  PROVE  /\ order \in Seq(S) /\ Range(order) = S /\ DOMAIN order = 1..Len(order) /\ Len(order) \in Nat
         /\ \A i, j \in 1..Len(order) : i # j => order[i] # order[j]
<1> DEFINE n == Cardinality(S)
<1>1. IsFiniteSet(S) /\ n \in Nat
  BY FS_Subset, FS_CardinalityType, TreeAssumption
<1>2. order \in [1..n -> S] /\ \A i, j \in 1..n : i # j => order[i] # order[j]
  BY DEF SetToSeqs
<1>3. order \in Injection(1..n, S)
  BY <1>2 DEF Injection, IsInjective
<1>4. Cardinality(1..n) = n
  BY <1>1, FS_Interval
<1>5. order \in Surjection(1..n, S)
  BY <1>1, <1>3, <1>4, FS_Injection
<1>6. \A d \in S : \E i \in 1..n : order[i] = d
  BY <1>5 DEF Surjection
<1>7. order \in Seq(S) /\ Len(order) = n
  BY <1>1, <1>2
<1> QED
  BY <1>1, <1>2, <1>6, <1>7 DEF Range

\* copy_dir puts what it lists before what was listed earlier, each entry once.
LEMMA CopyDirLists ==
  ASSUME Inv, pc = "skill", todo # <<>>, CopyDir(Head(todo)), ~Cyclic(Head(todo).at)
  PROVE  LET q == Head(todo).at IN
           /\ End(q) \in Inside
           /\ \E new \in Seq(SkillItem) :
                /\ todo' = new \o Tail(todo) /\ AllApart(new)
                /\ Range(new) = FilesOf(q) \cup SubdirsOf(q)
<1> DEFINE q == Head(todo).at
<1>1. q \in Seq(Dir) /\ q \in SkillPlace
  BY NextItem DEF Inv, SkillPlace
<1>2. End(q) \in Inside
  BY DEF CopyDir
<1>3. PICK order \in SetToSeqs(tree[End(q)]) :
        todo' = Items(q) \o [i \in DOMAIN order |-> [op |-> "dir", at |-> Append(q, order[i])]]
                \o Tail(todo)
  BY DEF CopyDir
<1> DEFINE subs == [i \in DOMAIN order |-> [op |-> "dir", at |-> Append(q, order[i])]]
<1>4. tree[End(q)] \in SUBSET Dir
  BY <1>2 DEF Inv, TypeInv
<1>5. /\ order \in Seq(tree[End(q)]) /\ Range(order) = tree[End(q)]
      /\ DOMAIN order = 1..Len(order) /\ Len(order) \in Nat
      /\ \A i, j \in 1..Len(order) : i # j => order[i] # order[j]
  BY <1>4, OrderFacts
<1>6. \A i \in 1..Len(order) : order[i] \in Dir
  BY <1>4, <1>5, ElementOfSeq
<1> HIDE DEF q
<1>7. subs \in Seq(SkillItem) /\ Len(subs) = Len(order) /\ DOMAIN subs = 1..Len(order)
  <2>1. \A i \in 1..Len(order) : [op |-> "dir", at |-> Append(q, order[i])] \in SkillItem
    <3> TAKE i \in 1..Len(order)
    <3>1. Append(q, order[i]) \in SkillPlace
      BY <1>1, <1>6, AppendProperties DEF SkillPlace
    <3> QED
      BY <3>1 DEF SkillItem
  <2> QED
    BY <1>5, <2>1
<1>8. Range(subs) = SubdirsOf(q)
  <2>1. \A i \in 1..Len(order) : subs[i] = [op |-> "dir", at |-> Append(q, order[i])]
    BY <1>5
  <2>2. \A d \in tree[End(q)] : \E i \in 1..Len(order) : order[i] = d
    BY <1>5 DEF Range
  <2>3. \A i \in 1..Len(order) : order[i] \in tree[End(q)]
    BY <1>5, ElementOfSeq
  <2> HIDE DEF subs
  <2>4. Range(subs) \subseteq SubdirsOf(q)
    BY <1>7, <2>1, <2>3 DEF Range, SubdirsOf
  <2>5. SubdirsOf(q) \subseteq Range(subs)
    <3> SUFFICES ASSUME NEW d \in tree[End(q)]
                 PROVE  [op |-> "dir", at |-> Append(q, d)] \in Range(subs)
      BY DEF SubdirsOf
    <3>1. PICK i \in 1..Len(order) : order[i] = d
      BY <2>2
    <3>2. subs[i] = [op |-> "dir", at |-> Append(q, d)]
      BY <2>1, <3>1
    <3> QED
      BY <1>7, <3>2 DEF Range
  <2> QED
    BY <2>4, <2>5
<1>9. AllApart(subs)
  <2>1. ASSUME NEW i \in 1..Len(order), NEW j \in 1..Len(order), i # j PROVE Apart(subs[i], subs[j])
    <3>1. /\ subs[i] = [op |-> "dir", at |-> Append(q, order[i])]
          /\ subs[j] = [op |-> "dir", at |-> Append(q, order[j])]
      BY <1>5
    <3>2. ~Leads(Append(q, order[i]), Append(q, order[j])) /\ ~Leads(Append(q, order[j]), Append(q, order[i]))
      BY <1>1, <1>5, <1>6, <2>1, StepFacts
    <3>3. Leads(Append(q, order[i]), Append(q, order[i]))
      BY <1>1, <1>6, StepFacts, LeadsFacts
    <3> HIDE DEF subs
    <3> QED
      BY <3>1, <3>2, <3>3 DEF Apart
  <2> QED
    BY <1>7, <2>1 DEF AllApart
<1> HIDE DEF subs
<1>10. /\ Items(q) \in Seq(SkillItem) /\ AllApart(Items(q)) /\ Range(Items(q)) = FilesOf(q)
  <2> DEFINE local == [op |-> "local", at |-> q]
             public == [op |-> "public", at |-> q]
  <2>1. local \in SkillItem /\ public \in SkillItem /\ Apart(local, public) /\ Apart(public, local)
    BY <1>1 DEF SkillItem, Kind, Apart
  <2>2. FilesOf(q) = (IF files[<<End(q), "local">>] = Absent THEN {} ELSE {local})
                     \cup (IF files[<<End(q), "public">>] = Absent THEN {} ELSE {public})
    BY DEF FilesOf, Kind
  <2>3. /\ Item(q, "local") = IF files[<<End(q), "local">>] = Absent THEN <<>> ELSE <<local>>
        /\ Item(q, "public") = IF files[<<End(q), "public">>] = Absent THEN <<>> ELSE <<public>>
    BY DEF Item
  <2> HIDE DEF local, public
  <2>4. /\ Range(<<>>) = {} /\ Range(<<local>>) = {local} /\ Range(<<public>>) = {public}
        /\ AllApart(<<>>) /\ AllApart(<<local>>) /\ AllApart(<<public>>)
    <3>1. \A x : DOMAIN <<x>> = {1} /\ <<x>>[1] = x /\ Len(<<x>>) = 1
      OBVIOUS
    <3>2. DOMAIN <<>> = {} /\ Len(<<>>) = 0
      OBVIOUS
    <3>3. \A x : Range(<<x>>) = {x} /\ AllApart(<<x>>)
      BY <3>1 DEF Range, AllApart
    <3>4. Range(<<>>) = {} /\ AllApart(<<>>)
      BY <3>2 DEF Range, AllApart
    <3> QED
      BY <3>3, <3>4
  <2>5. \A k \in Kind : Item(q, k) \in Seq(SkillItem) /\ AllApart(Item(q, k))
    <3>1. <<>> \in Seq(SkillItem) /\ <<local>> \in Seq(SkillItem) /\ <<public>> \in Seq(SkillItem)
      BY <2>1
    <3> QED
      BY <2>3, <2>4, <3>1 DEF Kind
  <2>6. \A x \in Range(Item(q, "local")), y \in Range(Item(q, "public")) : Apart(x, y)
    BY <2>1, <2>3, <2>4
  <2>7. Items(q) \in Seq(SkillItem) /\ AllApart(Items(q))
    BY <2>5, <2>6, ApartConcat DEF Items, Kind
  <2>8. Range(Items(q)) = Range(Item(q, "local")) \cup Range(Item(q, "public"))
    BY <2>5, RangeConcatenation DEF Items, Kind
  <2> QED
    BY <2>2, <2>3, <2>4, <2>7, <2>8
<1>11. \A x \in Range(Items(q)), y \in Range(subs) : Apart(x, y)
  <2> TAKE x \in Range(Items(q)), y \in Range(subs)
  <2>1. PICK d \in tree[End(q)] : y = [op |-> "dir", at |-> Append(q, d)]
    BY <1>8 DEF SubdirsOf
  <2>2. x.op \in Kind /\ x.at = q
    BY <1>10 DEF FilesOf
  <2>3. ~Leads(Append(q, d), q)
    BY <1>1, <1>4, StepFacts
  <2> QED
    BY <2>1, <2>2, <2>3 DEF Apart, Kind
<1>12. Items(q) \o subs \in Seq(SkillItem) /\ AllApart(Items(q) \o subs)
       /\ Range(Items(q) \o subs) = FilesOf(q) \cup SubdirsOf(q)
  BY <1>7, <1>8, <1>9, <1>10, <1>11, ApartConcat, ConcatProperties, RangeConcatenation
<1>13. todo' = (Items(q) \o subs) \o Tail(todo)
  BY <1>3, <1>7, <1>10, NextItem, ConcatAssociative DEF Inv, subs
<1> QED
  BY <1>2, <1>12, <1>13 DEF q

\* What is listed of a directory stands apart from whatever the directory stood apart from.
LEMMA ApartListed ==
  ASSUME NEW dir \in SkillItem, dir.op = "dir", tree[End(dir.at)] \in SUBSET Dir,
         NEW x \in FilesOf(dir.at) \cup SubdirsOf(dir.at), NEW y \in SkillItem, Apart(dir, y)
  PROVE  Apart(x, y) /\ Apart(y, x)
<1> DEFINE q == dir.at
<1>1. q \in Seq(Dir) /\ y.at \in Seq(Dir)
  BY DEF SkillItem, SkillPlace
<1>2. x.at \in Seq(Dir) /\ Leads(q, x.at)
  <2>1. CASE x \in FilesOf(q)
    BY <1>1, <2>1, LeadsFacts DEF FilesOf
  <2>2. CASE x \in SubdirsOf(q)
    <3>1. PICK d \in tree[End(q)] : x = [op |-> "dir", at |-> Append(q, d)]
      BY <2>2 DEF SubdirsOf
    <3> QED
      BY <1>1, <3>1, StepFacts
  <2> QED
    BY <2>1, <2>2
<1>3. ~Leads(q, y.at) /\ (y.op = "dir" => ~Leads(y.at, q))
  BY DEF Apart
<1>4. ~Leads(x.at, y.at)
  BY <1>1, <1>2, <1>3, LeadsFacts
<1>5. y.op = "dir" => ~Leads(y.at, x.at)
  BY <1>1, <1>2, <1>3, LeadsFacts
<1>6. x # y
  BY <1>2, <1>3
<1> QED
  BY <1>4, <1>5, <1>6 DEF Apart

\* At first nothing is listed and nothing staged.
LEMMA StagedInit == Init => StagedInv
<1>1. SUFFICES ASSUME Init PROVE StagedInv
  OBVIOUS
<1>2. was \in [Asset -> SUBSET (Text \cup {Absent})]
  BY <1>1 DEF Init
<1> QED
  BY <1>1, <1>2 DEF Init, StagedInv, WasInv, EmptyInv, WalkInv, QueueInv, OnceInv, CoverInv, PendingInv,
                    ConfigTextInv, TextInv, BundleInv, Begun, Judged, Early, Late, Copying

\* Nothing but the stage changes, and the run fails.
LEMMA StagedFail ==
  ASSUME StagedInv, Fail
  PROVE  StagedInv'
<1>1. pc' = "failed" /\ was' = was
  BY DEF Fail, Go, history
<1> QED
  BY <1>1 DEF StagedInv, WasInv, EmptyInv, WalkInv, QueueInv, OnceInv, CoverInv, PendingInv,
              ConfigTextInv, TextInv, BundleInv, Begun, Judged, Early, Late, Copying

\* Preflight begins with what is effective, and so does the record of it.
LEMMA StagedPreflight ==
  ASSUME Inv, StagedInv, Preflight
  PROVE  StagedInv'
<1>1. CASE files[<<"config", "public">>] = Absent
  BY <1>1, StagedFail DEF Preflight
<1>2. CASE files[<<"config", "public">>] # Absent
  <2>1. /\ pc = "preflight" /\ pc' = "find" /\ UNCHANGED <<files, todo, work>>
        /\ was' = [a \in Asset |-> {Effective(a)}]
    BY <1>2 DEF Preflight, source, staged
  <2>2. \A a \in Asset : Effective(a) \in Text \cup {Absent}
    <3> TAKE a \in Asset
    <3>1. <<a, "local">> \in Asset \X Kind /\ <<a, "public">> \in Asset \X Kind
      BY DEF Kind
    <3> QED
      BY <3>1 DEF Inv, TypeInv, Effective, EffectiveOf
  <2>3. \A a \in Asset : Effective(a)' = Effective(a)
    BY <2>1 DEF Effective
  <2>4. WasInv'
    BY <2>1, <2>2, <2>3 DEF WasInv
  <2> QED
    BY <2>1, <2>4 DEF StagedInv, EmptyInv, WalkInv, QueueInv, OnceInv, CoverInv, PendingInv,
                      ConfigTextInv, TextInv, BundleInv, Early, Late, Copying
<1> QED
  BY <1>1, <1>2

\* While the config is judged and looked for, nothing is staged.
LEMMA StagedEarly ==
  ASSUME StagedInv, FindConfig \/ JudgeConfig \/ SeekSnapshot \/ Resolve
  PROVE  StagedInv'
<1>1. /\ pc \in Early \cap Begun /\ pc' \in Early \cup {"failed"}
      /\ UNCHANGED <<files, todo, work, was>>
  BY DEF FindConfig, JudgeConfig, SeekSnapshot, Resolve, Go, Fail, source, staged, history, Early,
         Begun, Judged
<1>2. WasInv'
  BY <1>1 DEF StagedInv, WasInv, Effective
<1> QED
  BY <1>1, <1>2 DEF StagedInv, EmptyInv, WalkInv, QueueInv, OnceInv, CoverInv, PendingInv,
                    ConfigTextInv, TextInv, BundleInv, Early, Late, Copying

\* The root leads to every place.
LEMMA StagedRead ==
  ASSUME Inv, StagedInv, ReadAssets
  PROVE  StagedInv'
<1> DEFINE item == [op |-> "dir", at |-> <<Root>>]
<1>1. /\ pc = "read" /\ pc' = "skill" /\ todo' = <<item>> /\ work = {}
      /\ UNCHANGED <<tree, files, work, was, touched>>
  BY DEF ReadAssets, source, history, StagedInv, EmptyInv, Early
<1>2. Range(todo') = {item} /\ Len(todo') = 1
  <2>1. DOMAIN <<item>> = {1} /\ <<item>>[1] = item
    OBVIOUS
  <2> QED
    BY <1>1, <2>1 DEF Range
<1>3. WasInv'
  BY <1>1 DEF StagedInv, WasInv, Begun, Judged, Effective
<1>4. WalkInv'
  <2>1. Steps(<<Root>>)'
    BY DEF Steps
  <2> QED
    BY <1>1, <1>2, <2>1 DEF WalkInv, Copying
<1>5. QueueInv'
  BY <1>1, <1>2 DEF QueueInv, AllApart
<1>6. CoverInv'
  <2>1. ASSUME NEW p \in Walks PROVE Leads(<<Root>>, p)
    BY WalkFacts DEF Leads
  <2>2. Walks' = Walks
    BY <1>1 DEF Walks
  <2> QED
    BY <1>1, <1>2, <2>1, <2>2 DEF CoverInv, Late
<1>7. PendingInv'
  BY <1>1, <1>2 DEF PendingInv
<1> QED
  BY <1>1, <1>3, <1>4, <1>5, <1>6, <1>7 DEF StagedInv, EmptyInv, OnceInv, ConfigTextInv, TextInv,
                                            BundleInv, Early, Late, Copying

\* What an edit changes.
LEMMA EditFacts ==
  ASSUME Inv, StagedInv, NEW a \in Asset, NEW kind \in Kind, NEW text \in Text \cup {Absent},
         Edit(a, kind, text)
  PROVE  /\ UNCHANGED <<tree, environ, pc, todo, work, bare>>
         /\ touched' = touched \cup {<<a, kind>>}
         /\ \A b \in Asset, k \in Kind : <<b, k>> # <<a, kind>> => files'[<<b, k>>] = files[<<b, k>>]
         /\ \A b \in Asset : was[b] \subseteq was'[b] /\ (BothEdited(b) => BothEdited(b)')
         /\ WasInv'
<1>1. /\ UNCHANGED <<tree, environ, pc, todo, work, bare>> /\ touched' = touched \cup {<<a, kind>>}
      /\ files' = [files EXCEPT ![<<a, kind>>] = text]
      /\ was' = [was EXCEPT ![a] = @ \cup {EffectiveOf(files', a)}]
  BY DEF Edit, staged
<1>2. files' \in [Asset \X Kind -> Text \cup {Absent}]
  BY <1>1 DEF Inv, TypeInv
<1>3. \A b \in Asset : Effective(b)' = EffectiveOf(files', b) /\ EffectiveOf(files', b) \in Text \cup {Absent}
  <2> TAKE b \in Asset
  <2>1. <<b, "local">> \in Asset \X Kind /\ <<b, "public">> \in Asset \X Kind
    BY DEF Kind
  <2> QED
    BY <1>2, <2>1 DEF Effective, EffectiveOf
<1>4. was \in [Asset -> SUBSET (Text \cup {Absent})]
  BY DEF StagedInv, WasInv
<1>5. \A b \in Asset, k \in Kind : <<b, k>> # <<a, kind>> => files'[<<b, k>>] = files[<<b, k>>]
  BY <1>1 DEF Inv, TypeInv
<1>6. /\ was' \in [Asset -> SUBSET (Text \cup {Absent})]
      /\ \A b \in Asset : was[b] \subseteq was'[b]
      /\ EffectiveOf(files', a) \in was'[a]
  BY <1>1, <1>3, <1>4
<1>7. \A b \in Asset : b # a => Effective(b)' = Effective(b)
  BY <1>3, <1>5 DEF Effective, EffectiveOf, Kind
<1>8. WasInv'
  <2> SUFFICES ASSUME pc \in Begun, NEW b \in Asset PROVE Effective(b)' \in was'[b]
    BY <1>1, <1>6 DEF WasInv
  <2>1. Effective(b) \in was[b]
    BY DEF StagedInv, WasInv
  <2> QED
    BY <1>3, <1>6, <1>7, <2>1
<1>9. \A b \in Asset : BothEdited(b) => BothEdited(b)'
  BY <1>1 DEF BothEdited
<1> QED
  BY <1>1, <1>5, <1>6, <1>8, <1>9

\* An edit makes something else effective, which is recorded; two edits may do what they like.
LEMMA StagedEdit ==
  ASSUME Inv, StagedInv, NEW a \in Asset, NEW kind \in Kind, NEW text \in Text \cup {Absent},
         Edit(a, kind, text)
  PROVE  StagedInv'
<1>1. UNCHANGED <<tree, environ, pc, todo, work, bare>> /\ touched' = touched \cup {<<a, kind>>}
  BY EditFacts
<1>2. \A b \in Asset, k \in Kind : <<b, k>> # <<a, kind>> => files'[<<b, k>>] = files[<<b, k>>]
  BY EditFacts
<1>3. \A b \in Asset : was[b] \subseteq was'[b] /\ (BothEdited(b) => BothEdited(b)')
  BY EditFacts
<1>4. Walks' = Walks
  BY <1>1 DEF Walks
<1>5. \A k, p : Listed(k, p)' <=> Listed(k, p)
  BY <1>1 DEF Listed, Pending
<1>6. \A p \in Walks : End(p) \in Asset
  BY WalkFacts
<1>7. "config" \in Asset /\ End(Config) = "config"
  BY DEF Asset, Config, End
<1>8. pc \in Begun => \A b \in Asset : Effective(b) \in was[b]
  BY DEF StagedInv, WasInv
<1>9. EmptyInv'
  BY <1>1 DEF StagedInv, EmptyInv
<1>10. WalkInv'
  BY <1>1, <1>4 DEF StagedInv, WalkInv, Steps
<1>11. QueueInv' /\ OnceInv'
  BY <1>1 DEF StagedInv, QueueInv, OnceInv, AllApart, ItemOf
<1>12. CoverInv'
  BY <1>1, <1>3, <1>4, <1>5, <1>6 DEF StagedInv, CoverInv, Pending
<1>13. PendingInv'
  <2> SUFFICES ASSUME pc = "skill", NEW x \in Range(todo), x.op = "public"
               PROVE  \/ BothEdited(End(x.at))' \/ Listed("local", x.at)'
                      \/ files'[<<End(x.at), "local">>] = Absent
                      \/ /\ files'[<<End(x.at), "public">>] \in was'[End(x.at)]
                         /\ <<End(x.at), "local">> \in touched'
    BY <1>1 DEF PendingInv
  <2> DEFINE b == End(x.at)
  <2>1. b \in Asset
    BY <1>6 DEF StagedInv, WalkInv
  <2>2. \/ BothEdited(b) \/ Listed("local", x.at)
        \/ files[<<b, "local">>] = Absent
        \/ files[<<b, "public">>] \in was[b] /\ <<b, "local">> \in touched
    BY DEF StagedInv, PendingInv
  <2>3. EffectiveOf(files, b) \in was[b]
    BY <1>8, <2>1 DEF Begun, Judged, Effective
  <2> HIDE DEF b
  <2>4. CASE <<b, "local">> = <<a, kind>>
    <3>1. files'[<<b, "public">>] = files[<<b, "public">>]
      BY <1>2, <2>1, <2>4 DEF Kind
    <3>2. <<b, "local">> \in touched'
      BY <1>1, <2>4
    <3>3. files[<<b, "local">>] = Absent => files[<<b, "public">>] \in was[b]
      BY <2>3 DEF EffectiveOf
    <3> QED
      BY <1>3, <1>5, <2>1, <2>2, <3>1, <3>2, <3>3 DEF b
  <2>5. CASE <<b, "local">> # <<a, kind>>
    <3>1. files'[<<b, "local">>] = files[<<b, "local">>]
      BY <1>2, <2>1, <2>5 DEF Kind
    <3>2. CASE <<b, "public">> = <<a, kind>>
      <4>1. <<b, "local">> \in touched => BothEdited(b)'
        BY <1>1, <3>2 DEF BothEdited, Kind
      <4> QED
        BY <1>3, <1>5, <2>1, <2>2, <3>1, <4>1 DEF b
    <3>3. CASE <<b, "public">> # <<a, kind>>
      <4>1. files'[<<b, "public">>] = files[<<b, "public">>]
        BY <1>2, <2>1, <3>3 DEF Kind
      <4>2. touched \subseteq touched'
        BY <1>1
      <4> QED
        BY <1>3, <1>5, <2>1, <2>2, <3>1, <4>1, <4>2 DEF b
    <3> QED
      BY <3>2, <3>3
  <2> QED
    BY <2>4, <2>5
<1>14. ConfigTextInv'
  <2> SUFFICES ASSUME pc \in {"sibling", "private"}, NEW c \in work, c.at = Config
               PROVE  \/ BothEdited("config")' \/ c.text \in was'["config"]
                      \/ c.text = files'[<<"config", "public">>]
                      \/ files'[<<"config", "local">>] # Absent /\ <<"config", "public">> \in touched'
    BY <1>1 DEF ConfigTextInv
  <2> DEFINE public == files[<<"config", "public">>]
             local == files[<<"config", "local">>]
  <2>1. \/ BothEdited("config") \/ c.text \in was["config"] \/ c.text = public
        \/ local # Absent /\ <<"config", "public">> \in touched
    BY DEF StagedInv, ConfigTextInv
  <2>2. local = Absent => public \in was["config"]
    BY <1>7, <1>8 DEF Begun, Judged, Effective, EffectiveOf
  <2>3. CASE <<a, kind>> = <<"config", "local">>
    <3>1. files'[<<"config", "public">>] = public
      BY <1>2, <1>7, <2>3 DEF Kind
    <3>2. <<"config", "public">> \in touched => BothEdited("config")'
      BY <1>1, <2>3 DEF BothEdited, Kind
    <3> QED
      BY <1>3, <1>7, <2>1, <3>1, <3>2
  <2>4. CASE <<a, kind>> # <<"config", "local">>
    <3>1. files'[<<"config", "local">>] = local
      BY <1>2, <1>7, <2>4 DEF Kind
    <3>2. CASE <<a, kind>> = <<"config", "public">>
      <4>1. <<"config", "public">> \in touched'
        BY <1>1, <3>2
      <4> QED
        BY <1>3, <1>7, <2>1, <2>2, <3>1, <4>1
    <3>3. CASE <<a, kind>> # <<"config", "public">>
      <4>1. files'[<<"config", "public">>] = public /\ touched \subseteq touched'
        BY <1>1, <1>2, <1>7, <3>3 DEF Kind
      <4> QED
        BY <1>3, <1>7, <2>1, <3>1, <4>1
    <3> QED
      BY <3>2, <3>3
  <2> QED
    BY <2>3, <2>4
<1>15. TextInv'
  <2> SUFFICES ASSUME pc \in Copying, NEW c \in work
               PROVE  \/ c.at = Config /\ pc \in {"sibling", "private"}
                      \/ c.at = Manifest
                      \/ BothEdited(End(c.at))' \/ c.text \in was'[End(c.at)]
                      \/ c.kind = "public" /\ Listed("local", c.at)'
    BY <1>1 DEF TextInv
  <2>1. End(c.at) \in Asset \/ c.at = Manifest
    BY <1>6, <1>7 DEF StagedInv, WalkInv
  <2> QED
    BY <1>3, <1>5, <2>1 DEF StagedInv, TextInv
<1>16. BundleInv'
  <2>1. ASSUME NEW c \in work, c.at \in Walks \cup {Config} PROVE End(c.at) \in Asset
    BY <1>6, <1>7, <2>1
  <2> QED
    BY <1>1, <1>3, <1>4, <2>1 DEF StagedInv, BundleInv
<1>17. WasInv'
  BY EditFacts
<1> QED
  BY <1>9, <1>10, <1>11, <1>12, <1>13, <1>14, <1>15, <1>16, <1>17 DEF StagedInv

\* A directory is listed: whoever it led to is led to by a subdirectory, or has been listed.
LEMMA StagedCopyDir ==
  ASSUME Inv, Inv', StagedInv, pc = "skill", todo # <<>>, CopyDir(Head(todo))
  PROVE  StagedInv'
<1> DEFINE dir == Head(todo)
           q == dir.at
           rest == Range(Tail(todo))
<1>1. /\ UNCHANGED <<tree, files, environ, pc, work, was, touched>> /\ dir.op = "dir"
      /\ bare \subseteq bare' /\ (~Cyclic(q) /\ Items(q) = <<>> => q \in bare')
  BY DEF CopyDir, source, history
<1>2. Walks' = Walks
  BY <1>1 DEF Walks
<1>3. /\ dir \in SkillItem /\ q \in SkillPlace /\ q \in Seq(Dir)
      /\ Tail(todo) \in Seq(SkillItem) /\ rest \subseteq SkillItem /\ Range(todo) = {dir} \cup rest
      /\ AllApart(Tail(todo)) /\ \A x \in rest : Apart(dir, x)
      /\ \A c \in work, x \in Range(todo) : Apart(ItemOf(c), x)
  BY NextItem, TodoFacts DEF Inv, StagedInv, QueueInv, SkillPlace
<1>4. Steps(q)
  BY <1>1, <1>3 DEF StagedInv, WalkInv
<1>5. \A c \in work : c.kind \in Kind /\ c.at \in Walks
  BY DEF StagedInv, WalkInv, Copying
<1>6. WasInv' /\ EmptyInv' /\ OnceInv' /\ ConfigTextInv' /\ BundleInv'
  BY <1>1 DEF StagedInv, WasInv, EmptyInv, OnceInv, ConfigTextInv, BundleInv, Effective, Early, Late,
              Copying, Begun, Judged
<1>7. CASE Cyclic(q)
  <2>1. todo' = Tail(todo)
    BY <1>7 DEF CopyDir
  <2>2. Range(todo') = rest
    BY <2>1
  <2>3. \A p, k : k \in Kind => (Listed(k, p)' <=> Listed(k, p))
    BY <1>1, <1>3, <2>2 DEF Listed, Pending, Kind
  <2>4. WalkInv'
    BY <1>1, <1>2, <1>3, <2>2 DEF StagedInv, WalkInv, Steps, Copying
  <2>5. QueueInv'
    BY <1>1, <1>3, <2>1, <2>2 DEF QueueInv, AllApart
  <2>6. CoverInv'
    <3> SUFFICES ASSUME NEW p \in Walks
                 PROVE  \/ \E x \in rest : x.op = "dir" /\ Leads(x.at, p)
                        \/ /\ p \in bare \/ \E kind \in Kind : Listed(kind, p)
                           /\ \A d \in tree[End(p)] : d \in Inside \/ \E x \in rest : x.op = "dir" /\ x.at = Append(p, d)
      BY <1>1, <1>2, <2>2, <2>3 DEF CoverInv, Late, Pending
    <3>1. ~Leads(q, p)
      <4>1. /\ p \in Seq(Dir) /\ Len(p) \in Nat
            /\ \A i, j \in 1..Len(p) : p[i] = p[j] => i = j
        BY WalkFacts
      <4>2. PICK i \in 1..Len(q) - 1 : q[i] = q[Len(q)]
        BY <1>7 DEF Cyclic, End
      <4>3. Len(q) \in Nat
        BY <1>3, LenProperties
      <4> QED
        BY <4>1, <4>2, <4>3 DEF Leads
    <3>2. \A d \in tree[End(p)] : d \notin Inside => q # Append(p, d)
      <4> SUFFICES ASSUME NEW d \in tree[End(p)], d \notin Inside PROVE q # Append(p, d)
        OBVIOUS
      <4>1. tree[End(p)] \subseteq Dir
        BY WalkFacts DEF Inv, TypeInv
      <4> QED
        BY <1>7, <4>1, WalksGoOn
    <3> HIDE DEF q, dir, rest
    <3>3. CASE \E x \in Range(todo) : x.op = "dir" /\ Leads(x.at, p)
      BY <1>3, <3>1, <3>3 DEF q
    <3>4. CASE /\ p \in bare \/ \E kind \in Kind : Listed(kind, p)
               /\ \A d \in tree[End(p)] : d \in Inside \/ Pending("dir", Append(p, d))
      BY <1>3, <3>2, <3>4 DEF q, Pending
    <3> QED
      BY <3>3, <3>4 DEF StagedInv, CoverInv
  <2>7. PendingInv' /\ TextInv'
    BY <1>1, <1>3, <2>2, <2>3 DEF StagedInv, PendingInv, TextInv, BothEdited, Kind
  <2> QED
    BY <1>6, <2>4, <2>5, <2>6, <2>7 DEF StagedInv
<1>8. CASE ~Cyclic(q)
  <2> DEFINE listed == FilesOf(q) \cup SubdirsOf(q)
  <2>1. End(q) \in Inside
    BY <1>8, CopyDirLists
  <2>2. PICK new \in Seq(SkillItem) :
          todo' = new \o Tail(todo) /\ AllApart(new) /\ Range(new) = listed
    BY <1>8, CopyDirLists
  <2>3. Range(todo') = listed \cup rest
    <3>1. Range(new \o Tail(todo)) = Range(new) \cup Range(Tail(todo))
      <4>1. Tail(todo) \in Seq(SkillItem)
        BY <1>3
      <4> QED
        BY <4>1, RangeConcatenation
    <3> QED
      BY <2>2, <3>1
  <2>4. q \in Walks /\ tree[End(q)] \in SUBSET Dir
    BY <1>3, <1>4, <1>8, <2>1, StepsAreWalks DEF Inv, TypeInv
  <2>5. Effective(End(q)) \in was[End(q)] /\ End(q) \in Asset
    BY <2>1 DEF StagedInv, WasInv, Begun, Judged, Asset
  <2>6. \A x \in FilesOf(q) : x.op \in Kind /\ x.at = q /\ files[<<End(q), x.op>>] # Absent
    BY DEF FilesOf
  <2>7. \A k \in Kind : files[<<End(q), k>>] # Absent => [op |-> k, at |-> q] \in FilesOf(q)
    BY DEF FilesOf
  <2>8. \A x \in SubdirsOf(q) : x.op = "dir" /\ \E d \in tree[End(q)] : x = [op |-> "dir", at |-> Append(q, d)]
    BY DEF SubdirsOf
  <2>9. \A d \in tree[End(q)] : [op |-> "dir", at |-> Append(q, d)] \in SubdirsOf(q)
    BY DEF SubdirsOf
  <2>10. \A x \in listed, y \in SkillItem : Apart(dir, y) => Apart(x, y) /\ Apart(y, x)
    BY <1>1, <1>3, <2>4, ApartListed
  <2> HIDE DEF q, dir, listed
  <2>11. \A p, k : k \in Kind => (Listed(k, p) => Listed(k, p)')
    BY <1>1, <1>3, <2>3 DEF Listed, Pending, Kind
  <2>12. \A op, at : [op |-> op, at |-> at] \in listed => Pending(op, at)'
    BY <2>3 DEF Pending
  <2>13. \A at : \A k \in Kind : at = q /\ files[<<End(q), k>>] # Absent => Listed(k, at)'
    BY <2>7, <2>12 DEF Listed, listed
  <2>14. WalkInv'
    <3>1. ASSUME NEW x \in listed PROVE IF x.op = "dir" THEN Steps(x.at) ELSE x.at \in Walks
      <4>1. CASE x \in FilesOf(q)
        BY <2>4, <2>6, <4>1 DEF Kind
      <4>2. CASE x \in SubdirsOf(q)
        <5>1. PICK d \in tree[End(q)] : x = [op |-> "dir", at |-> Append(q, d)]
          BY <2>8, <4>2
        <5> QED
          BY <2>4, <5>1, WalksGoOn
      <4> QED
        BY <4>1, <4>2 DEF listed
    <3>2. \A x \in rest : IF x.op = "dir" THEN Steps(x.at) ELSE x.at \in Walks
      BY <1>3 DEF StagedInv, WalkInv
    <3>3. \A x : Steps(x.at)' <=> Steps(x.at)
      BY <1>1 DEF Steps
    <3> QED
      BY <1>1, <1>2, <1>5, <2>3, <3>1, <3>2, <3>3 DEF WalkInv, Copying
  <2>15. QueueInv'
    <3>1. \A x \in listed, y \in rest : Apart(x, y)
      BY <1>3, <2>10
    <3>2. AllApart(todo')
      BY <1>3, <2>2, <3>1, ApartConcat DEF listed
    <3>3. \A c \in work, x \in listed : Apart(ItemOf(c), x)
      <4> TAKE c \in work, x \in listed
      <4>1. ItemOf(c) \in SkillItem
        BY <1>5, WalkFacts DEF ItemOf, SkillItem
      <4>2. Apart(dir, ItemOf(c))
        BY <1>3 DEF Apart, dir
      <4> QED
        BY <2>10, <4>1, <4>2
    <3> QED
      BY <1>1, <1>3, <2>3, <3>2, <3>3 DEF QueueInv, AllApart, ItemOf
  <2>16. CoverInv'
    <3> SUFFICES ASSUME NEW p \in Walks
                 PROVE  \/ \E x \in Range(todo') : x.op = "dir" /\ Leads(x.at, p)
                        \/ /\ p \in bare' \/ \E kind \in Kind : Listed(kind, p)'
                           /\ \A d \in tree[End(p)] : d \in Inside \/ Pending("dir", Append(p, d))'
      BY <1>1, <1>2 DEF CoverInv, Late
    <3>1. CASE p = q
      <4>1. p \in bare' \/ \E kind \in Kind : Listed(kind, p)'
        <5>1. CASE \E k \in Kind : files[<<End(q), k>>] # Absent
          BY <2>13, <3>1, <5>1
        <5>2. CASE ~\E k \in Kind : files[<<End(q), k>>] # Absent
          <6>1. Items(q) = <<>>
            BY <5>2 DEF Items, Item, Kind
          <6> QED
            BY <1>1, <1>8, <3>1, <6>1
        <5> QED
          BY <5>1, <5>2
      <4>2. \A d \in tree[End(p)] : Pending("dir", Append(p, d))'
        BY <2>9, <2>12, <3>1 DEF listed
      <4> QED
        BY <4>1, <4>2
    <3>2. CASE p # q /\ Leads(q, p)
      <4>1. /\ p \in Seq(Dir) /\ Len(p) \in Nat
            /\ \A i \in 1..Len(p) - 1 : p[i + 1] \in tree[p[i]]
        BY WalkFacts
      <4>2. Len(q) \in Nat \ {0} /\ Len(q) < Len(p) /\ q[Len(q)] = p[Len(q)]
        <5>1. Len(q) # Len(p)
          BY <1>3, <3>2, <4>1, LeadsFacts
        <5> QED
          BY <1>3, <3>2, <4>1, <5>1, EmptySeq DEF Leads, SkillPlace
      <4> DEFINE d == p[Len(q) + 1]
      <4>3. d \in tree[End(q)]
        <5>1. Len(q) \in 1..Len(p) - 1
          BY <4>1, <4>2
        <5> QED
          BY <4>1, <4>2, <5>1 DEF End
      <4>4. Leads(Append(q, d), p)
        BY <1>3, <2>4, <3>2, <4>1, <4>3, StepFacts
      <4>5. [op |-> "dir", at |-> Append(q, d)] \in Range(todo')
        BY <2>3, <2>9, <4>3 DEF listed
      <4> QED
        BY <4>4, <4>5
    <3>3. CASE ~Leads(q, p)
      <4>1. \A d \in tree[End(p)] : d \notin Inside => Append(p, d) # q
        <5> SUFFICES ASSUME NEW d \in tree[End(p)], d \notin Inside PROVE Append(p, d) # q
          OBVIOUS
        <5>1. tree[End(p)] \subseteq Dir /\ p \in Seq(Dir)
          BY WalkFacts DEF Inv, TypeInv
        <5>2. End(Append(p, d)) = d
          BY <5>1, StepFacts
        <5> QED
          BY <2>1, <5>2
      <4>2. CASE \E x \in Range(todo) : x.op = "dir" /\ Leads(x.at, p)
        BY <1>3, <2>3, <3>3, <4>2 DEF q
      <4>3. CASE /\ p \in bare \/ \E kind \in Kind : Listed(kind, p)
                 /\ \A d \in tree[End(p)] : d \in Inside \/ Pending("dir", Append(p, d))
        BY <1>1, <1>3, <2>3, <2>11, <4>1, <4>3 DEF q, Pending
      <4> QED
        BY <4>2, <4>3 DEF StagedInv, CoverInv
    <3> QED
      BY <1>3, <3>1, <3>2, <3>3
  <2>17. PendingInv'
    <3> SUFFICES ASSUME NEW x \in Range(todo'), x.op = "public"
                 PROVE  \/ BothEdited(End(x.at)) \/ Listed("local", x.at)'
                        \/ files[<<End(x.at), "local">>] = Absent
                        \/ files[<<End(x.at), "public">>] \in was[End(x.at)] /\ <<End(x.at), "local">> \in touched
      BY <1>1 DEF PendingInv, BothEdited
    <3>1. CASE x \in rest
      BY <1>3, <2>11, <3>1 DEF StagedInv, PendingInv, Kind
    <3>2. CASE x \in listed
      <4>1. x.at = q
        BY <2>6, <2>8, <3>2 DEF listed
      <4>2. files[<<End(q), "local">>] # Absent => Listed("local", x.at)'
        BY <2>13, <4>1 DEF Kind
      <4> QED
        BY <4>1, <4>2
    <3> QED
      BY <2>3, <3>1, <3>2
  <2>18. TextInv'
    BY <1>1, <2>11 DEF StagedInv, TextInv, BothEdited, Kind
  <2> QED
    BY <1>6, <2>14, <2>15, <2>16, <2>17, <2>18 DEF StagedInv
<1> QED
  BY <1>7, <1>8

\* A file is copied: a local one is what is effective, and so is a public one that was listed
\* without a local one, unless both were edited.
LEMMA StagedCopyFile ==
  ASSUME Inv, StagedInv, pc = "skill", todo # <<>>, CopyFile(Head(todo))
  PROVE  StagedInv'
<1> DEFINE item == Head(todo)
           text == files[<<End(item.at), item.op>>]
           copy == [at |-> item.at, kind |-> item.op, text |-> text]
           rest == Range(Tail(todo))
<1>1. /\ UNCHANGED <<tree, files, environ, pc, bare, was, touched>> /\ item.op \in Kind
      /\ text # Absent /\ todo' = Tail(todo) /\ work' = work \cup {copy}
  BY DEF CopyFile, source, history
<1>2. Walks' = Walks
  BY <1>1 DEF Walks
<1>3. /\ Range(todo') = rest /\ Range(todo) = {item} \cup rest
      /\ AllApart(Tail(todo)) /\ \A x \in rest : Apart(item, x)
      /\ \A c \in work, x \in Range(todo) : Apart(ItemOf(c), x)
      /\ item = [op |-> item.op, at |-> item.at]
  BY <1>1, NextItem, TodoFacts DEF Inv, StagedInv, QueueInv, SkillItem
<1>4. item.at \in Walks /\ End(item.at) \in Asset
  BY <1>1, <1>3, WalkFacts DEF StagedInv, WalkInv, Kind
<1>5. copy.at = item.at /\ copy.kind = item.op /\ copy.text = text /\ ItemOf(copy) = item
  BY <1>3 DEF ItemOf
<1>6. Effective(End(item.at)) \in was[End(item.at)]
  BY <1>4 DEF StagedInv, WasInv, Begun, Judged
<1> HIDE DEF item, text, copy, rest
<1>7. \A op, p : Pending(op, p) => Pending(op, p)' \/ (op = item.op /\ p = item.at)
  BY <1>3 DEF Pending
<1>8. \A k, p : Listed(k, p) => Listed(k, p)'
  BY <1>1, <1>5, <1>7 DEF Listed
<1>9. WalkInv'
  <2>1. \A x : Steps(x.at)' <=> Steps(x.at)
    BY <1>1 DEF Steps
  <2> QED
    BY <1>1, <1>2, <1>3, <1>4, <1>5, <2>1 DEF StagedInv, WalkInv, Copying
<1>10. QueueInv'
  BY <1>1, <1>3, <1>5 DEF QueueInv, AllApart, ItemOf
<1>11. OnceInv'
  <2>1. \A c \in work : ItemOf(c) # item
    BY <1>3 DEF Apart
  <2> QED
    BY <1>1, <1>5, <2>1 DEF StagedInv, OnceInv, Copying, ItemOf
<1>12. CoverInv'
  <2> SUFFICES ASSUME NEW p \in Walks
               PROVE  \/ \E x \in rest : x.op = "dir" /\ Leads(x.at, p)
                      \/ /\ p \in bare \/ \E kind \in Kind : Listed(kind, p)'
                         /\ \A d \in tree[End(p)] : d \in Inside \/ Pending("dir", Append(p, d))'
    BY <1>1, <1>2, <1>3 DEF CoverInv, Late
  <2>1. item.op # "dir"
    BY <1>1 DEF Kind
  <2>2. CASE \E x \in Range(todo) : x.op = "dir" /\ Leads(x.at, p)
    BY <1>3, <2>1, <2>2
  <2>3. CASE /\ p \in bare \/ \E kind \in Kind : Listed(kind, p)
             /\ \A d \in tree[End(p)] : d \in Inside \/ Pending("dir", Append(p, d))
    BY <1>7, <1>8, <2>1, <2>3
  <2> QED
    BY <2>2, <2>3 DEF StagedInv, CoverInv
<1>13. PendingInv'
  BY <1>1, <1>3, <1>8 DEF StagedInv, PendingInv, BothEdited
<1>14. TextInv'
  <2>1. ASSUME NEW c \in work PROVE BothEdited(End(c.at)) \/ c.text \in was[End(c.at)]
                                    \/ (c.kind = "public" /\ Listed("local", c.at)')
    <3>1. c.at \in Walks /\ c.at \notin {Config, Manifest}
      BY WalkFacts DEF StagedInv, WalkInv, Copying
    <3> QED
      BY <1>1, <1>8, <3>1 DEF StagedInv, TextInv, Copying
  <2>2. BothEdited(End(copy.at)) \/ copy.text \in was[End(copy.at)]
        \/ (copy.kind = "public" /\ Listed("local", copy.at))
    <3>1. CASE item.op = "local"
      BY <1>1, <1>5, <1>6, <3>1 DEF Effective, EffectiveOf, text
    <3>2. CASE item.op = "public"
      <4>1. \/ BothEdited(End(item.at)) \/ Listed("local", item.at)
            \/ files[<<End(item.at), "local">>] = Absent
            \/ files[<<End(item.at), "public">>] \in was[End(item.at)]
        BY <1>3, <3>2 DEF StagedInv, PendingInv
      <4>2. CASE files[<<End(item.at), "local">>] = Absent
        BY <1>1, <1>5, <1>6, <3>2, <4>2 DEF Effective, EffectiveOf, text
      <4> QED
        BY <1>5, <3>2, <4>1, <4>2 DEF text
    <3> QED
      BY <1>1, <3>1, <3>2 DEF Kind
  <2>3. ASSUME NEW c, c = copy PROVE BothEdited(End(c.at)) \/ c.text \in was[End(c.at)]
                                    \/ (c.kind = "public" /\ Listed("local", c.at)')
    BY <1>8, <2>2, <2>3
  <2> QED
    BY <1>1, <2>1, <2>3 DEF TextInv, BothEdited
<1> QED
  BY <1>1, <1>9, <1>10, <1>11, <1>12, <1>13, <1>14
     DEF StagedInv, WasInv, EmptyInv, ConfigTextInv, BundleInv, Effective, Early, Late, Begun, Judged

\* When nothing is listed any more, every place has been listed and copied.
LEMMA StagedCopySkill ==
  ASSUME Inv, Inv', StagedInv, CopySkill
  PROVE  StagedInv'
<1>1. CASE todo # <<>> /\ CopyDir(Head(todo))
  BY <1>1, StagedCopyDir DEF CopySkill
<1>2. CASE todo # <<>> /\ CopyFile(Head(todo))
  BY <1>2, StagedCopyFile DEF CopySkill
<1>3. CASE todo # <<>> /\ CopyFails(Head(todo))
  BY <1>3, StagedFail DEF CopyFails
<1>4. CASE todo = <<>> /\ Go("manifest")
  <2>1. /\ pc = "skill" /\ pc' = "manifest" /\ todo = <<>>
        /\ UNCHANGED <<tree, files, environ, todo, work, bare, was, touched>>
    BY <1>4 DEF CopySkill, Go, source, staged, history
  <2>2. Range(todo) = {}
    <3>1. DOMAIN <<>> = {}
      OBVIOUS
    <3> QED
      BY <2>1, <3>1 DEF Range
  <2>3. Walks' = Walks
    BY <2>1 DEF Walks
  <2>4. \A op, p : ~Pending(op, p) /\ (Listed(op, p)' <=> Listed(op, p))
    BY <2>1, <2>2 DEF Pending, Listed
  <2>5. WalkInv' /\ OnceInv'
    BY <2>1, <2>3 DEF StagedInv, WalkInv, OnceInv, Copying, ItemOf
  <2>6. CoverInv'
    <3> SUFFICES ASSUME NEW p \in Walks
                 PROVE  /\ tree[End(p)] \subseteq Inside
                        /\ p \in bare \/ \E c \in work : c.at = p
      BY <2>1, <2>3 DEF CoverInv
    <3>1. /\ p \in bare \/ \E kind \in Kind : Listed(kind, p)
          /\ \A d \in tree[End(p)] : d \in Inside \/ Pending("dir", Append(p, d))
      BY <2>1, <2>2 DEF StagedInv, CoverInv
    <3> QED
      BY <2>4, <3>1 DEF Listed
  <2>7. TextInv'
    <3> SUFFICES ASSUME NEW c \in work
                 PROVE  \/ BothEdited(End(c.at)) \/ c.text \in was[End(c.at)]
                        \/ c.kind = "public" /\ Listed("local", c.at)
      BY <2>1, <2>4 DEF TextInv, BothEdited
    <3>1. c.at \in Walks /\ c.at \notin {Config, Manifest}
      BY <2>1, WalkFacts DEF StagedInv, WalkInv, Copying
    <3> QED
      BY <2>1, <3>1 DEF StagedInv, TextInv, Copying
  <2> QED
    BY <2>1, <2>5, <2>6, <2>7 DEF StagedInv, WasInv, EmptyInv, QueueInv, PendingInv, ConfigTextInv,
                                  BundleInv, Effective, Early, Late, Begun, Judged
<1> QED
  BY <1>1, <1>2, <1>3, <1>4 DEF CopySkill

\* The manifest goes where nothing else is.
LEMMA StagedManifest ==
  ASSUME StagedInv, StageManifest
  PROVE  StagedInv'
<1> DEFINE copy == [at |-> Manifest, kind |-> "public", text |-> "manifest"]
<1>1. PICK copies \in SUBSET {copy} :
        /\ pc = "manifest" /\ pc' = "config" /\ work' = work \cup copies
        /\ UNCHANGED <<tree, files, environ, todo, bare, was, touched>>
  <2>1. CASE Go("config")
    <3>1. /\ pc = "manifest" /\ pc' = "config" /\ work' = work \cup {}
          /\ UNCHANGED <<tree, files, environ, todo, bare, was, touched>>
      BY <2>1 DEF StageManifest, Go, source, staged, history
    <3> QED
      BY <3>1
  <2>2. CASE Put(Manifest, "public", "manifest", "config")
    BY <2>2 DEF StageManifest, Put, Rework, source, history
  <2> QED
    BY <2>1, <2>2 DEF StageManifest
<1>2. Walks' = Walks
  BY <1>1 DEF Walks
<1>3. \A c \in copies : c = copy /\ c.at = Manifest /\ c.kind = "public"
  OBVIOUS
<1>4. \A c \in work : c.kind \in Kind /\ c.at \in Walks /\ c.at # Manifest
  BY <1>1, WalkFacts, ConfigFacts DEF StagedInv, WalkInv, Copying
<1> HIDE DEF copy
<1>5. \A k, p : Listed(k, p) => Listed(k, p)'
  BY <1>1 DEF Listed, Pending
<1>6. WalkInv'
  BY <1>1, <1>2, <1>3, <1>4 DEF WalkInv, Copying, Kind
<1>7. OnceInv'
  BY <1>1, <1>3, <1>4 DEF StagedInv, OnceInv, Copying, ItemOf
<1>8. CoverInv'
  BY <1>1, <1>2 DEF StagedInv, CoverInv, Late
<1>9. TextInv'
  <2> SUFFICES ASSUME NEW c \in work'
               PROVE  \/ c.at = Manifest
                      \/ BothEdited(End(c.at)) \/ c.text \in was[End(c.at)]
                      \/ c.kind = "public" /\ Listed("local", c.at)'
    BY <1>1 DEF TextInv, BothEdited
  <2>1. CASE c \in work
    BY <1>1, <1>5, <2>1 DEF StagedInv, TextInv, Copying
  <2> QED
    BY <1>1, <1>3, <2>1
<1> QED
  BY <1>1, <1>6, <1>7, <1>8, <1>9 DEF StagedInv, WasInv, EmptyInv, QueueInv, PendingInv, ConfigTextInv,
                                      BundleInv, Effective, Early, Late, Begun, Judged

\* The public config is staged as it is then, whatever shadows it by then.
LEMMA StagedConfig ==
  ASSUME StagedInv, StageConfig
  PROVE  StagedInv'
<1> DEFINE text == files[<<"config", "public">>]
           copy == [at |-> Config, kind |-> "public", text |-> text]
<1>1. CASE text = Absent
  BY <1>1, StagedFail DEF StageConfig
<1>2. CASE text # Absent
  <2>1. /\ pc = "config" /\ pc' = "sibling" /\ work' = work \cup {copy}
        /\ UNCHANGED <<tree, files, environ, todo, bare, was, touched>>
    BY <1>2 DEF StageConfig, Put, Rework, source, history
  <2>2. Walks' = Walks
    BY <2>1 DEF Walks
  <2>3. copy.at = Config /\ copy.kind = "public" /\ copy.text = text
    OBVIOUS
  <2>4. \A c \in work : /\ c.kind \in Kind /\ c.at # Config
                        /\ c.at \in Walks \/ (c.at = Manifest /\ c.kind = "public")
    BY <2>1, WalkFacts, ConfigFacts DEF StagedInv, WalkInv, Copying
  <2> HIDE DEF copy, text
  <2>5. \A k, p : Listed(k, p) => Listed(k, p)'
    BY <2>1 DEF Listed, Pending
  <2>6. WalkInv'
    BY <2>1, <2>2, <2>3, <2>4 DEF WalkInv, Copying, Kind
  <2>7. OnceInv'
    BY <2>1, <2>3, <2>4 DEF StagedInv, OnceInv, Copying, ItemOf
  <2>8. CoverInv'
    BY <2>1, <2>2 DEF StagedInv, CoverInv, Late
  <2>9. ConfigTextInv'
    BY <2>1, <2>3, <2>4 DEF ConfigTextInv, text
  <2>10. TextInv'
    <3> SUFFICES ASSUME NEW c \in work'
                 PROVE  \/ c.at \in {Config, Manifest}
                        \/ BothEdited(End(c.at)) \/ c.text \in was[End(c.at)]
                        \/ c.kind = "public" /\ Listed("local", c.at)'
      BY <2>1 DEF TextInv, BothEdited
    <3>1. CASE c \in work
      BY <2>1, <2>5, <3>1 DEF StagedInv, TextInv, Copying
    <3> QED
      BY <2>1, <2>3, <3>1
  <2> QED
    BY <2>1, <2>6, <2>7, <2>8, <2>9, <2>10 DEF StagedInv, WasInv, EmptyInv, QueueInv, PendingInv,
                                               BundleInv, Effective, Early, Late, Begun, Judged
<1> QED
  BY <1>1, <1>2

\* The sibling is what is effective; where there is none, the public file was.
LEMMA StagedBoth ==
  ASSUME Inv, StagedInv, pc \in {"sibling", "private"}, pc' = "shadow",
         UNCHANGED <<tree, files, environ, todo, bare, was, touched>>,
         work' = work \cup (IF files[<<"config", "local">>] = Absent THEN {}
                          ELSE {[at |-> Config, kind |-> "local", text |-> files[<<"config", "local">>]]})
  PROVE  StagedInv'
<1> DEFINE text == files[<<"config", "local">>]
           copy == [at |-> Config, kind |-> "local", text |-> text]
           copies == IF text = Absent THEN {} ELSE {copy}
<1>1. /\ pc \in {"sibling", "private"} /\ pc' = "shadow" /\ work' = work \cup copies
      /\ UNCHANGED <<tree, files, environ, todo, bare, was, touched>>
  OBVIOUS
<1>2. Walks' = Walks
  BY <1>1 DEF Walks
<1>3. copy.at = Config /\ copy.kind = "local" /\ copy.text = text /\ End(Config) = "config"
  BY DEF Config, End
<1>4. \A c \in work : /\ c.kind \in Kind
                      /\ c.at \in Walks \cup {Config} \/ (c.at = Manifest /\ c.kind = "public")
                      /\ c.at = Config => c.kind = "public"
  BY <1>1 DEF Inv, PlaceInv, StagedInv, WalkInv, Copying, Stages
<1>5. EffectiveOf(files, "config") \in was["config"]
  BY <1>1 DEF StagedInv, WasInv, Begun, Judged, Asset, Effective
<1> HIDE DEF copy, text
<1>6. \A k, p : Listed(k, p) => Listed(k, p)'
  BY <1>1 DEF Listed, Pending
<1>7. WalkInv'
  BY <1>1, <1>2, <1>3, <1>4 DEF WalkInv, Copying, Kind
<1>8. OnceInv'
  BY <1>1, <1>3, <1>4 DEF StagedInv, OnceInv, Copying, ItemOf
<1>9. CoverInv'
  BY <1>1, <1>2 DEF StagedInv, CoverInv, Late
<1>10. TextInv'
  <2> SUFFICES ASSUME NEW c \in work'
               PROVE  \/ c.at = Manifest
                      \/ BothEdited(End(c.at)) \/ c.text \in was[End(c.at)]
                      \/ c.kind = "public" /\ Listed("local", c.at)'
    BY <1>1 DEF TextInv, BothEdited
  <2>1. CASE c \in work /\ c.at # Config
    BY <1>1, <1>6, <2>1 DEF StagedInv, TextInv, Copying
  <2>2. CASE c \in work /\ c.at = Config
    <3>1. CASE text = Absent
      <4>1. files[<<"config", "public">>] \in was["config"]
        BY <1>5, <3>1 DEF EffectiveOf, text
      <4> QED
        BY <1>1, <1>3, <2>2, <3>1, <4>1 DEF StagedInv, ConfigTextInv, text
    <3>2. CASE text # Absent
      <4>1. copy \in work'
        BY <1>1, <3>2
      <4>2. Listed("local", Config)'
        BY <1>3, <4>1 DEF Listed, Config
      <4> QED
        BY <1>4, <2>2, <4>2
    <3> QED
      BY <3>1, <3>2
  <2>3. CASE c = copy /\ text # Absent
    BY <1>3, <1>5, <2>3 DEF EffectiveOf, text
  <2> QED
    BY <1>1, <2>1, <2>2, <2>3
<1> QED
  BY <1>1, <1>7, <1>8, <1>9, <1>10 DEF StagedInv, WasInv, EmptyInv, QueueInv, PendingInv, ConfigTextInv,
                                       BundleInv, Effective, Early, Late, Begun, Judged

LEMMA StagedSibling ==
  ASSUME Inv, StagedInv, StageSibling
  PROVE  StagedInv'
<1>1. /\ pc = "sibling" /\ UNCHANGED <<tree, files, environ, todo, work, bare, was, touched>>
      /\ pc' = IF files[<<"config", "local">>] = Absent THEN "shadow" ELSE "private"
  BY DEF StageSibling, Go, source, staged, history
<1>2. CASE files[<<"config", "local">>] = Absent
  BY <1>1, <1>2, StagedBoth
<1>3. CASE files[<<"config", "local">>] # Absent
  <2>1. pc' = "private"
    BY <1>1, <1>3
  <2>2. Walks' = Walks /\ \A k, p : Listed(k, p)' <=> Listed(k, p)
    BY <1>1 DEF Walks, Listed, Pending
  <2>3. WalkInv' /\ OnceInv' /\ CoverInv'
    BY <1>1, <2>1, <2>2 DEF StagedInv, WalkInv, OnceInv, CoverInv, Copying, Late, ItemOf
  <2>4. TextInv' /\ ConfigTextInv'
    BY <1>1, <2>1, <2>2 DEF StagedInv, TextInv, ConfigTextInv, Copying, BothEdited
  <2> QED
    BY <1>1, <2>1, <2>3, <2>4 DEF StagedInv, WasInv, EmptyInv, QueueInv, PendingInv, BundleInv,
                                  Effective, Early, Late, Begun, Judged
<1> QED
  BY <1>2, <1>3

LEMMA StagedCopySibling ==
  ASSUME Inv, StagedInv, CopySibling
  PROVE  StagedInv'
<1>1. CASE files[<<"config", "local">>] = Absent
  BY <1>1, StagedFail DEF CopySibling
<1>2. CASE files[<<"config", "local">>] # Absent
  BY <1>2, StagedBoth DEF CopySibling, Put, Rework, source, history
<1> QED
  BY <1>1, <1>2

\* What is shadowed goes: one file is left at each place, under the public name.
LEMMA StagedShadow ==
  ASSUME Inv, StagedInv, ApplyLocalShadowing
  PROVE  StagedInv'
<1> DEFINE Bare(c) == [c EXCEPT !.kind = "public"]
           Kept == {c \in work : ~Shadowed(c)}
<1>1. /\ pc = "shadow" /\ pc' = "env" /\ work' = {Bare(c) : c \in Kept} /\ todo = <<>>
      /\ UNCHANGED <<tree, files, environ, todo, bare, was, touched>>
  BY DEF ApplyLocalShadowing, Rework, source, history, Shadowing, StagedInv, EmptyInv, Early, Late
<1>2. Walks' = Walks
  BY <1>1 DEF Walks
<1>3. \A c \in work : Bare(c).at = c.at /\ Bare(c).kind = "public" /\ Bare(c).text = c.text
  <2> TAKE c \in work
  <2>1. c = [at |-> c.at, kind |-> c.kind, text |-> c.text]
    BY DEF Inv, WorkInv
  <2> QED
    BY <2>1
<1> HIDE DEF Bare, Kept
<1>4. \A c \in work : /\ c.kind \in Kind
                      /\ \/ c.at = Manifest /\ c.kind = "public"
                         \/ /\ c.at \in Walks \cup {Config}
                            /\ \/ BothEdited(End(c.at)) \/ c.text \in was[End(c.at)]
                               \/ c.kind = "public" /\ Listed("local", c.at)
  <2>1. \A p \in Walks \cup {Config} : p # Manifest
    BY WalkFacts, ConfigFacts
  <2> QED
    BY <1>1, <2>1 DEF StagedInv, WalkInv, TextInv, Copying
<1>5. \A op, p : ~Pending(op, p)
  <2>1. DOMAIN <<>> = {}
    OBVIOUS
  <2> QED
    BY <1>1, <2>1 DEF Range, Pending
<1>6. \A c \in work : c \in Kept <=> ~(c.kind = "public" /\ Listed("local", c.at))
  BY <1>5 DEF Kept, Shadowed, Listed
<1>7. Kept \subseteq work
  BY DEF Kept
<1>8. \A x \in work' : \E c \in Kept : x = Bare(c)
  BY <1>1
<1>9. \A c \in Kept : Bare(c) \in work'
  BY <1>1
<1>10. CoverInv'
  <2> SUFFICES ASSUME NEW p \in Walks, NEW c \in work, c.at = p PROVE \E x \in work' : x.at = p
    BY <1>1, <1>2 DEF StagedInv, CoverInv, Late
  <2>1. CASE c \in Kept
    BY <1>3, <1>9, <2>1
  <2>2. CASE c \notin Kept
    <3>1. PICK l \in work : l.kind = "local" /\ l.at = c.at
      BY <1>5, <1>6, <2>2 DEF Listed
    <3>2. l \in Kept
      BY <1>6, <3>1
    <3> QED
      BY <1>3, <1>9, <3>1, <3>2
  <2> QED
    BY <2>1, <2>2
<1>11. BundleInv'
  <2>1. ASSUME NEW x \in work'
        PROVE  /\ x.kind = "public"
               /\ \/ x.at = Manifest
                  \/ /\ x.at \in Walks \cup {Config}
                     /\ BothEdited(End(x.at)) \/ x.text \in was[End(x.at)]
    <3>1. PICK c \in Kept : x = Bare(c)
      BY <1>8
    <3> QED
      BY <1>3, <1>4, <1>6, <1>7, <3>1
  <2>2. ASSUME NEW x \in work', NEW y \in work', x.at = y.at PROVE x = y
    <3>1. PICK c \in Kept : x = Bare(c)
      BY <1>8
    <3>2. PICK d \in Kept : y = Bare(d)
      BY <1>8
    <3>3. c.at = d.at /\ c.kind \in Kind /\ d.kind \in Kind /\ c \in work /\ d \in work
      BY <1>3, <1>4, <1>7, <2>2, <3>1, <3>2
    <3>4. c.kind = d.kind
      BY <1>6, <3>3 DEF Listed, Kind
    <3>5. c = d
      BY <1>1, <3>3, <3>4 DEF StagedInv, OnceInv, Copying, ItemOf
    <3> QED
      BY <3>1, <3>2, <3>5
  <2> QED
    BY <1>1, <1>2, <2>1, <2>2 DEF BundleInv, BothEdited
<1> QED
  BY <1>1, <1>10, <1>11 DEF StagedInv, WasInv, EmptyInv, WalkInv, QueueInv, OnceInv, PendingInv,
                            ConfigTextInv, TextInv, Effective, Early, Late, Begun, Judged, Copying

\* The environment overrides lists of the skill, and leaves each file where it is.
LEMMA StagedEnv ==
  ASSUME Inv, StagedInv, ApplyEnvOverrides
  PROVE  StagedInv'
<1> DEFINE Over(c) == [c EXCEPT !.text = IF c.at \in environ \ {Config, Manifest} THEN FromEnv ELSE @]
<1>1. /\ pc = "env" /\ pc' = "extras" /\ work' = {Over(c) : c \in work}
      /\ UNCHANGED <<tree, files, environ, todo, bare, was, touched>>
  BY DEF ApplyEnvOverrides, Rework, source, history
<1>2. Walks' = Walks
  BY <1>1 DEF Walks
<1>3. \A c \in work : /\ Over(c).at = c.at /\ Over(c).kind = c.kind
                      /\ Over(c).text = IF c.at \in environ \ {Config, Manifest} THEN FromEnv ELSE c.text
  <2> TAKE c \in work
  <2>1. c = [at |-> c.at, kind |-> c.kind, text |-> c.text]
    BY DEF Inv, WorkInv
  <2> QED
    BY <2>1
<1> HIDE DEF Over
<1>4. \A x \in work' : \E c \in work : x = Over(c)
  BY <1>1
<1>5. \A c \in work : Over(c) \in work'
  BY <1>1
<1>6. CoverInv'
  BY <1>1, <1>2, <1>3, <1>5 DEF StagedInv, CoverInv, Late
<1>7. BundleInv'
  <2>1. ASSUME NEW x \in work'
        PROVE  /\ x.kind = "public"
               /\ \/ x.at = Manifest
                  \/ /\ x.at \in Walks \cup {Config}
                     /\ \/ BothEdited(End(x.at)) \/ x.text \in was[End(x.at)]
                        \/ x.at \in environ \cap Walks
                     /\ x.at \in environ \cap Walks => x.text = FromEnv
    <3>1. PICK c \in work : x = Over(c)
      BY <1>4
    <3>2. /\ c.kind = "public"
          /\ \/ c.at = Manifest
             \/ /\ c.at \in Walks \cup {Config}
                /\ BothEdited(End(c.at)) \/ c.text \in was[End(c.at)] \/ c.at \in environ \cap Walks
      BY <1>1 DEF StagedInv, BundleInv
    <3>3. \A p \in Walks : p \notin {Config, Manifest}
      BY WalkFacts
    <3> QED
      BY <1>3, <3>1, <3>2, <3>3
  <2>2. ASSUME NEW x \in work', NEW y \in work', x.at = y.at PROVE x = y
    <3>1. PICK c \in work : x = Over(c)
      BY <1>4
    <3>2. PICK d \in work : y = Over(d)
      BY <1>4
    <3>3. c = d
      BY <1>1, <1>3, <2>2, <3>1, <3>2 DEF StagedInv, BundleInv
    <3> QED
      BY <3>1, <3>2, <3>3
  <2> QED
    BY <1>1, <1>2, <2>1, <2>2 DEF BundleInv, BothEdited
<1> QED
  BY <1>1, <1>6, <1>7 DEF StagedInv, WasInv, EmptyInv, WalkInv, QueueInv, OnceInv, PendingInv,
                          ConfigTextInv, TextInv, Effective, Early, Late, Begun, Judged, Copying

\* The snapshot goes where nothing else is.
LEMMA StagedExtras ==
  ASSUME StagedInv, StageExtras
  PROVE  StagedInv'
<1> DEFINE copy == [at |-> Snapshot, kind |-> "local", text |-> "snapshot"]
<1>1. CASE wanted /\ ~snapshot
  BY <1>1, StagedFail DEF StageExtras
<1>2. CASE ~(wanted /\ ~snapshot)
  <2>1. PICK copies \in SUBSET {copy} :
          /\ pc = "extras" /\ pc' = "agent" /\ work' = work \cup copies
          /\ UNCHANGED <<tree, files, environ, todo, bare, was, touched>>
    <3>1. CASE wanted
      BY <1>2, <3>1 DEF StageExtras, Put, Rework, source, history
    <3>2. CASE ~wanted
      <4>1. /\ pc = "extras" /\ pc' = "agent" /\ work' = work \cup {}
            /\ UNCHANGED <<tree, files, environ, todo, bare, was, touched>>
        BY <1>2, <3>2 DEF StageExtras, Go, source, staged, history
      <4> QED
        BY <4>1
    <3> QED
      BY <3>1, <3>2
  <2>2. Walks' = Walks
    BY <2>1 DEF Walks
  <2>3. \A c \in copies : c = copy /\ c.at = Snapshot
    OBVIOUS
  <2>4. \A c \in work : c.at # Snapshot
    BY <2>1, WalkFacts, ConfigFacts DEF StagedInv, BundleInv
  <2> HIDE DEF copy
  <2>5. CoverInv'
    BY <2>1, <2>2 DEF StagedInv, CoverInv, Late
  <2>6. BundleInv'
    <3>1. \A c \in work :
            \/ c.at = Manifest /\ c.kind = "public"
            \/ /\ c.at \in Walks \cup {Config} /\ c.kind = "public"
               /\ \/ BothEdited(End(c.at)) \/ c.text \in was[End(c.at)]
                  \/ c.at \in environ \cap Walks
               /\ c.at \in environ \cap Walks => c.text = FromEnv
      BY <2>1 DEF StagedInv, BundleInv
    <3>2. \A c, d \in work' : c.at = d.at => c = d
      BY <2>1, <2>3, <2>4 DEF StagedInv, BundleInv
    <3>3. \A c \in work' : c \in work \/ c.at = Snapshot
      BY <2>1, <2>3
    <3> QED
      BY <2>1, <2>2, <3>1, <3>2, <3>3 DEF BundleInv, BothEdited
  <2> QED
    BY <2>1, <2>5, <2>6 DEF StagedInv, WasInv, EmptyInv, WalkInv, QueueInv, OnceInv, PendingInv,
                            ConfigTextInv, TextInv, Effective, Early, Late, Begun, Judged, Copying
<1> QED
  BY <1>1, <1>2

\* No step of another kind changes what is staged or what it is compared with.
LEMMA StagedSame ==
  ASSUME StagedInv, UNCHANGED <<tree, files, environ, pc, todo, work, bare, was, touched>>
  PROVE  StagedInv'
<1>1. Walks' = Walks
  BY DEF Walks
<1>2. \A k, p : Listed(k, p)' <=> Listed(k, p)
  BY DEF Listed, Pending
<1>3. QueueInv' /\ OnceInv' /\ WasInv' /\ EmptyInv' /\ ConfigTextInv'
  BY DEF StagedInv, QueueInv, OnceInv, AllApart, ItemOf, WasInv, EmptyInv, ConfigTextInv, Effective,
         BothEdited
<1>4. WalkInv' /\ CoverInv'
  BY <1>1, <1>2 DEF StagedInv, WalkInv, CoverInv, Steps, Pending
<1>5. PendingInv' /\ TextInv' /\ BundleInv'
  BY <1>1, <1>2 DEF StagedInv, PendingInv, TextInv, BundleInv, BothEdited
<1> QED
  BY <1>3, <1>4, <1>5 DEF StagedInv

\* The invariant of the staging, which rests on that of the config.
LEMMA StagedInductive == Spec => []StagedInv
<1>1. Inv /\ Inv' /\ StagedInv /\ [Next]_vars => StagedInv'
  <2>1. SUFFICES ASSUME Inv, Inv', StagedInv, [Next]_vars PROVE StagedInv'
    OBVIOUS
  <2>2. CASE EditSnapshot
    BY <2>1, <2>2, StagedSame DEF EditSnapshot, staged, history
  <2>3. CASE UNCHANGED vars
    BY <2>1, <2>3, StagedSame DEF vars, source, staged, history
  <2> QED
    BY <2>1, <2>2, <2>3, StagedEdit, StagedPreflight, StagedEarly, StagedRead, StagedCopySkill,
       StagedManifest, StagedConfig, StagedSibling, StagedCopySibling, StagedShadow, StagedEnv,
       StagedExtras DEF Next
<1> QED
  BY <1>1, StagedInit, InvInductive, PTL DEF Spec

\* When the agent starts, each place of the skill that is walked to and the config are staged
\* once, none is left out but where no file was listed, and each with what was effective at
\* some moment of the staging unless both files were edited meanwhile, or with what the
\* environment overrides it with (worktree.py:268-340), for every skill tree, every order of
\* its entries, every set of files and any number of edits.
THEOREM StagedIsEffective == Spec => []BundleIsEffective
<1>1. Inv /\ StagedInv => BundleIsEffective
  <2>1. SUFFICES ASSUME Inv, StagedInv, pc = "agent" PROVE BundleIsEffective
    BY DEF BundleIsEffective
  <2>2. \A c \in work :
          \/ c.at \in {Manifest, Snapshot}
          \/ /\ c.at \in Walks \cup {Config} /\ c.kind = "public"
             /\ \/ BothEdited(End(c.at)) \/ c.text \in was[End(c.at)] \/ c.at \in environ \cap Walks
             /\ c.at \in environ \cap Walks => c.text = FromEnv
    BY <2>1 DEF StagedInv, BundleInv
  <2>3. \A c, d \in work : c.at = d.at => c = d
    BY <2>1 DEF StagedInv, BundleInv
  <2>4. \A p \in Walks : p # Config /\ p \notin {Manifest, Snapshot}
    BY WalkFacts
  <2>5. Config \notin {Manifest, Snapshot} /\ End(Config) = "config"
    BY ConfigFacts DEF Config, End
  <2>6. ASSUME NEW p \in Walks
        PROVE  /\ tree[End(p)] \subseteq Inside
               /\ p \in bare \/ \E c \in work : c.at = p
               /\ BothEdited(End(p)) \/ SeesEffective(p, End(p))
    <3>1. /\ tree[End(p)] \subseteq Inside
          /\ p \in bare \/ \E c \in work : c.at = p
      BY <2>1 DEF StagedInv, CoverInv, Late
    <3> QED
      BY <2>2, <2>4, <3>1 DEF SeesEffective
  <2>7. /\ \E c \in work : c.at = Config
        /\ BothEdited("config") \/ SeesEffective(Config, "config")
    <3>1. \E c \in work : c.at = Config
      BY <2>1 DEF Inv, CopyInv
    <3> QED
      BY <2>2, <2>4, <2>5, <3>1 DEF SeesEffective
  <2>8. \A c \in work : /\ \/ c.at \in {Manifest, Snapshot}
                           \/ c.at \in Walks \cup {Config} /\ c.kind = "public"
                        /\ c.at \in environ \cap Walks => c.text = FromEnv
                        /\ \A d \in work : c.at = d.at => c = d
    BY <2>2, <2>3, <2>4
  <2> QED
    BY <2>6, <2>7, <2>8 DEF BundleIsEffective
<1> QED
  BY <1>1, InvInductive, StagedInductive, PTL

-----------------------------------------------------------------------------
(* Links that go round in circles do not keep the copying going for ever.  *)

\* The places, one step beyond a walk at most, that listed directories lead to.
Ahead == {p \in SkillPlace : Steps(p) /\ \E x \in Range(todo) : x.op = "dir" /\ Leads(x.at, p)}

\* Each step of the copying leaves fewer places ahead, or as many and fewer entries; and no
\* edit gives it more to do.
CopyProgress ==
  pc = "skill" /\ pc' = "skill" =>
    \/ Ahead' \subseteq Ahead /\ Ahead' # Ahead
    \/ Ahead' = Ahead /\ Len(todo') < Len(todo) /\ Len(todo') \in Nat
    \/ Ahead' = Ahead /\ todo' = todo /\ edits' = edits + 1

\* There are finitely many such places: no step of a walk comes back to where it was.
LEMMA AheadIsFinite == IsFiniteSet(Ahead)
<1> DEFINE N == Cardinality(Inside) + 1
           Near == {p \in SkillPlace : Steps(p)}
           Graph(p) == {<<i, p[i]>> : i \in 1..Len(p)}
           graph == [p \in Near |-> Graph(p)]
<1>1. IsFiniteSet(Inside) /\ Cardinality(Inside) \in Nat
  BY FS_Subset, FS_CardinalityType, TreeAssumption
<1>2. \A p \in Near : /\ p \in Seq(Dir) /\ Len(p) \in 1..N
                      /\ \A i \in 1..Len(p) : p[i] \in Dir
  <2> TAKE p \in Near
  <2>1. p \in Seq(Dir) /\ Len(p) \in Nat \ {0} /\ p \in [1..Len(p) -> Dir]
    BY EmptySeq, LenProperties DEF SkillPlace
  <2> DEFINE n == Len(p) - 1
             front == [i \in 1..n |-> p[i]]
  <2>2. n \in Nat
    BY <2>1
  <2>3. front \in Injection(1..n, Inside)
    BY <2>1 DEF Steps, Injection, IsInjective
  <2>4. n <= Cardinality(Inside)
    <3>1. Cardinality(1..n) = n
      BY <2>2, FS_Interval
    <3> HIDE DEF front
    <3> QED
      BY <1>1, <2>3, <3>1, FS_Injection
  <2> QED
    BY <1>1, <2>1, <2>2, <2>4
<1>3. IsFiniteSet(SUBSET ((1..N) \X Dir))
  <2>1. IsFiniteSet(1..N)
    BY <1>1, FS_Interval
  <2>2. IsFiniteSet((1..N) \X Dir)
    BY <2>1, FS_Product, TreeAssumption
  <2> QED
    BY <2>2, FS_SUBSET
<1>4. graph \in Injection(Near, SUBSET ((1..N) \X Dir))
  <2>1. \A p \in Near : Graph(p) \in SUBSET ((1..N) \X Dir)
    BY <1>1, <1>2
  <2>2. ASSUME NEW p \in Near, NEW q \in Near, Graph(p) = Graph(q) PROVE p = q
    <3>1. \A i \in 1..Len(p) : i \in 1..Len(q) /\ q[i] = p[i]
      <4> TAKE i \in 1..Len(p)
      <4>1. <<i, p[i]>> \in Graph(q)
        BY <2>2
      <4> QED
        BY <4>1
    <3>2. \A i \in 1..Len(q) : i \in 1..Len(p)
      <4> TAKE i \in 1..Len(q)
      <4>1. <<i, q[i]>> \in Graph(p)
        BY <2>2
      <4> QED
        BY <4>1
    <3>3. Len(p) \in 1..Len(q) /\ Len(q) \in 1..Len(p) /\ Len(p) \in Nat /\ Len(q) \in Nat
      BY <1>1, <1>2, <3>1, <3>2
    <3>4. Len(p) = Len(q)
      BY <3>3
    <3> QED
      BY <1>2, <3>1, <3>4, SeqEqual
  <2> HIDE DEF Graph
  <2>3. graph \in [Near -> SUBSET ((1..N) \X Dir)]
    BY <2>1
  <2>4. \A p, q \in Near : graph[p] = graph[q] => p = q
    BY <2>2
  <2> QED
    BY <2>3, <2>4 DEF Injection, IsInjective
<1>5. IsFiniteSet(Near)
  <2> HIDE DEF graph, Near, N
  <2> QED
    BY <1>3, <1>4, FS_Injection
<1>6. Ahead \in SUBSET Near
  BY DEF Ahead
<1> QED
  BY <1>5, <1>6, FS_Subset

\* A directory is not ahead any more when it is listed, and only what it leads to takes its place.
LEMMA CopyDirProgress ==
  ASSUME Inv, StagedInv, pc = "skill", todo # <<>>, CopyDir(Head(todo))
  PROVE  Ahead' \subseteq Ahead /\ Ahead' # Ahead
<1> DEFINE dir == Head(todo)
           rest == Range(Tail(todo))
<1>1. PICK q : q = dir.at
  OBVIOUS
<1>2. UNCHANGED tree /\ dir.op = "dir"
  BY DEF CopyDir, source
<1>3. /\ q \in SkillPlace /\ q \in Seq(Dir) /\ rest \subseteq SkillItem
      /\ Tail(todo) \in Seq(SkillItem) /\ Range(todo) = {dir} \cup rest
      /\ \A x \in rest : Apart(dir, x)
  BY <1>1, NextItem, TodoFacts DEF Inv, StagedInv, QueueInv, SkillPlace
<1>4. Steps(q)
  BY <1>1, <1>2, <1>3 DEF StagedInv, WalkInv
<1>5. \A p : Steps(p)' <=> Steps(p)
  BY <1>2 DEF Steps
<1>6. ASSUME NEW x \in Range(todo'), x.op = "dir"
      PROVE  ~Leads(x.at, q) /\ (x \in rest \/ (x.at \in Seq(Dir) /\ Leads(q, x.at)))
  <2>1. CASE x \in rest
    BY <1>1, <1>3, <1>6, <2>1 DEF Apart
  <2>2. CASE x \notin rest
    <3>1. ~Cyclic(q)
      BY <1>1, <2>2 DEF CopyDir
    <3>2. PICK new \in Seq(SkillItem) :
            todo' = new \o Tail(todo) /\ Range(new) = FilesOf(q) \cup SubdirsOf(q)
      BY <1>1, <3>1, CopyDirLists
    <3>3. Range(new \o Tail(todo)) = Range(new) \cup rest
      <4>1. Tail(todo) \in Seq(SkillItem)
        BY <1>3
      <4> QED
        BY <4>1, RangeConcatenation
    <3>4. x \in SubdirsOf(q)
      BY <1>6, <2>2, <3>2, <3>3 DEF FilesOf, Kind
    <3>5. PICK d \in tree[End(q)] : x = [op |-> "dir", at |-> Append(q, d)]
      BY <3>4 DEF SubdirsOf
    <3>6. tree[End(q)] \subseteq Dir
      BY <1>1, <3>1, CopyDirLists DEF Inv, TypeInv
    <3> QED
      BY <1>3, <3>5, <3>6, StepFacts
  <2> QED
    BY <2>1, <2>2
<1>7. q \in Ahead /\ q \notin Ahead'
  BY <1>1, <1>2, <1>3, <1>4, <1>6, LeadsFacts DEF Ahead
<1>8. ASSUME NEW p \in Ahead' PROVE p \in Ahead
  <2>1. p \in SkillPlace /\ p \in Seq(Dir) /\ Steps(p)
    BY <1>5, <1>8 DEF Ahead, SkillPlace
  <2>2. PICK x \in Range(todo') : x.op = "dir" /\ Leads(x.at, p)
    BY <1>8 DEF Ahead
  <2>3. CASE x \in rest
    BY <1>3, <2>1, <2>2, <2>3 DEF Ahead
  <2>4. CASE x.at \in Seq(Dir) /\ Leads(q, x.at)
    <3>1. Leads(q, p)
      BY <1>3, <2>1, <2>2, <2>4, LeadsFacts
    <3> QED
      BY <1>1, <1>2, <1>3, <2>1, <3>1 DEF Ahead
  <2> QED
    BY <1>6, <2>2, <2>3, <2>4
<1> QED
  BY <1>7, <1>8

\* A file leaves what is ahead as it is, and one entry less.
LEMMA CopyFileProgress ==
  ASSUME Inv, StagedInv, pc = "skill", todo # <<>>, CopyFile(Head(todo))
  PROVE  Ahead' = Ahead /\ Len(todo') < Len(todo) /\ Len(todo') \in Nat
<1>1. UNCHANGED tree /\ Head(todo).op # "dir" /\ todo' = Tail(todo)
  BY DEF CopyFile, source, Kind
<1>2. Range(todo) = {Head(todo)} \cup Range(Tail(todo))
  BY TodoFacts DEF Inv
<1>3. Len(Tail(todo)) = Len(todo) - 1 /\ Len(todo) \in Nat \ {0}
  BY HeadTailProperties, EmptySeq DEF Inv, TodoInv
<1>4. \A p : Steps(p)' <=> Steps(p)
  BY <1>1 DEF Steps
<1>5. \A x : x.op = "dir" => (x \in Range(todo') <=> x \in Range(todo))
  BY <1>1, <1>2
<1>6. Ahead' = Ahead
  BY <1>4, <1>5 DEF Ahead
<1> QED
  BY <1>1, <1>3, <1>6

\* copy_dir's check for circles (worktree.py:124-142) is enough for the copying to end, for
\* every skill tree: the places ahead are finitely many, and with the entries still listed they
\* become fewer at each step.
THEOREM CopyingEnds == Spec => []IsFiniteSet(Ahead) /\ [][CopyProgress]_vars
<1>1. Inv /\ StagedInv /\ [Next]_vars => [CopyProgress]_vars
  <2>1. SUFFICES ASSUME Inv, StagedInv, Next, pc = "skill", pc' = "skill"
                 PROVE  \/ Ahead' \subseteq Ahead /\ Ahead' # Ahead
                        \/ Ahead' = Ahead /\ Len(todo') < Len(todo) /\ Len(todo') \in Nat
                        \/ Ahead' = Ahead /\ todo' = todo /\ edits' = edits + 1
    BY DEF CopyProgress
  <2>2. CASE CopySkill
    <3>1. todo # <<>> /\ (CopyDir(Head(todo)) \/ CopyFile(Head(todo)))
      BY <2>1, <2>2 DEF CopySkill, CopyFails, Fail, Go
    <3> QED
      BY <2>1, <3>1, CopyDirProgress, CopyFileProgress
  <2>3. CASE UNCHANGED <<tree, todo>> /\ edits' = edits + 1
    BY <2>3 DEF Ahead, Steps
  <2>4. CopySkill \/ (UNCHANGED <<tree, todo>> /\ edits' = edits + 1)
    BY <2>1 DEF Next, Edit, EditSnapshot, staged, Preflight, FindConfig, JudgeConfig, SeekSnapshot,
                Resolve, ReadAssets, StageManifest, StageConfig, StageSibling, CopySibling,
                ApplyLocalShadowing, ApplyEnvOverrides, StageExtras
  <2> QED
    BY <2>2, <2>3, <2>4
<1> QED
  BY <1>1, AheadIsFinite, InvInductive, StagedInductive, PTL DEF Spec
=============================================================================
