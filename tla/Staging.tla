------------------------------- MODULE Staging -------------------------------
(***************************************************************************)
(* What a run's agent finds in its worktree: preflight judges the loop's   *)
(* content config, content_assets asks it which snapshot it refers to,     *)
(* and stage_loop_assets copies the skill directory entry by entry, the    *)
(* manifest, the config and its .local sibling, lets .local files and then *)
(* the environment override what is public, and adds the snapshot          *)
(* (src/src/loopcraft/worktree.py, cli.py _run_execute,                    *)
(* runners/capabilities.py).  Meanwhile somebody edits the source tree:    *)
(* whether a file is there and what it holds are asked one after the       *)
(* other, and a step of its own each.                                      *)
(*                                                                         *)
(* Each directory of the skill holds one list asset, a .txt file, which a  *)
(* .local file may shadow; symlinked directories may lead up, across or    *)
(* out of it.  A place in the worktree is the sequence of the directories  *)
(* walked to it: an alias is told apart from another by where it stands.   *)
(***************************************************************************)
EXTENDS Naturals, SequencesExt

CONSTANTS
  Dir,        \* directories an entry of the skill tree can resolve to
  Root,       \* the skill directory
  Inside,     \* those that resolve to a place under it
  Trees,      \* the skill trees there can be: directory -> its subdirectories
  Sources,    \* the files a run can begin with
  Text,       \* what a file can hold
  Valid,      \* the texts the content config's typed model accepts
  Refers,     \* the texts that refer to the following snapshot
  FromEnv,    \* what a list asset holds that the environment overrides
  Absent,     \* there is no such file
  Overrides,  \* the sets of places whose lists the environment may override
  MaxEdits    \* bound: edits of the source tree

ASSUME TreeAssumption ==
  /\ IsFiniteSet(Dir) /\ Root \in Inside /\ Inside \subseteq Dir /\ Trees \subseteq [Inside -> SUBSET Dir]
  /\ {"config", "snapshot", "manifest"} \cap Dir = {}
ASSUME TextAssumption == Absent \notin Text \cup {FromEnv} /\ Valid \subseteq Text

Asset == Inside \cup {"config"}
Kind == {"public", "local"}
Place == Seq(Dir \cup {"config", "snapshot", "manifest"})
ASSUME SourcesAssumption == Sources \subseteq [Asset \X Kind -> Text \cup {Absent}]

Config == <<"config">>
Snapshot == <<"snapshot">>
Manifest == <<"manifest">>
Stages ==
  {"preflight", "find", "judge", "seek", "resolve", "read", "skill", "manifest", "config",
   "sibling", "private", "shadow", "env", "extras"}

VARIABLES
  tree,      \* directory -> its subdirectories
  files,     \* <<asset, kind>> -> what the file holds
  snapshot,  \* whether the snapshot exists
  environ,   \* the places of the lists the environment overrides
  edits,     \* edits so far
  pc,        \* where the run is
  todo,      \* what is listed of the skill and not copied yet, what is next first
  picked,    \* which of the config's two files is going to be read
  wanted,    \* whether the snapshot is an extra asset
  work,      \* the worktree: records of a place, a kind of name and a text
  bare,      \* ghost: the places where no file was listed
  was,       \* ghost: asset -> what it effectively was since preflight began
  touched,   \* ghost: the files edited since preflight began
  reedited   \* ghost: whether the config was edited since content_assets looked for it

source == <<tree, files, snapshot, environ, edits>>
config == <<picked, wanted>>
staged == <<todo, work, bare>>
history == <<was, touched, reedited>>
vars == <<source, pc, config, staged, history>>

\* local_override_path: the .local sibling if it exists.
EffectiveOf(fs, a) == IF fs[<<a, "local">>] # Absent THEN fs[<<a, "local">>] ELSE fs[<<a, "public">>]
Effective(a) == EffectiveOf(files, a)

Init ==
  /\ tree \in Trees /\ environ \in Overrides /\ snapshot \in BOOLEAN
  /\ files \in Sources
  /\ edits = 0 /\ pc = "preflight" /\ picked = "public" /\ wanted = FALSE
  /\ todo = <<>> /\ work = {} /\ bare = {}
  /\ was = [a \in Asset |-> {}] /\ touched = {} /\ reedited = FALSE

-----------------------------------------------------------------------------
(* The source tree, while the run is on its way. *)

Edit(a, kind, text) ==
  /\ pc \in Stages /\ edits < MaxEdits /\ edits' = edits + 1
  /\ text # files[<<a, kind>>] /\ files' = [files EXCEPT ![<<a, kind>>] = text]
  /\ touched' = touched \cup {<<a, kind>>}
  /\ was' = [was EXCEPT ![a] = @ \cup {EffectiveOf(files', a)}]
  /\ reedited' = (reedited \/ a = "config")
  /\ UNCHANGED <<tree, snapshot, environ, pc, config, staged>>

\* `loopctl x-intel snapshot` writes it, and somebody may remove it.
EditSnapshot ==
  /\ pc \in Stages /\ edits < MaxEdits /\ edits' = edits + 1 /\ snapshot' = ~snapshot
  /\ UNCHANGED <<tree, files, environ, pc, config, staged, history>>

-----------------------------------------------------------------------------
Go(next) == pc' = next /\ UNCHANGED <<source, config, staged, history>>
Fail == Go("failed")

\* local_override_path: the .local sibling, if it exists at that moment, is going to be read.
Pick == picked' = IF files[<<"config", "local">>] # Absent THEN "local" ELSE "public"
Read == files[<<"config", picked>>]

\* _check_source_asset: the public file exists.
Preflight ==
  /\ pc = "preflight"
  /\ IF files[<<"config", "public">>] = Absent THEN Fail
     ELSE /\ pc' = "find"
          /\ was' = [a \in Asset |-> {Effective(a)}] /\ touched' = {}
          /\ UNCHANGED <<source, config, staged, reedited>>

\* _check_content_config_validity judges nothing if the public file has gone; ...
FindConfig ==
  /\ pc = "find"
  /\ IF files[<<"config", "public">>] = Absent THEN Go("resolve")
     ELSE Pick /\ pc' = "judge" /\ UNCHANGED <<source, wanted, staged, history>>

\* mutant: the public file is judged, whatever shadows it.
JudgePublic ==
  /\ pc = "judge"
  /\ IF files[<<"config", "public">>] \notin Valid THEN Fail
     ELSE Go(IF files[<<"config", "public">>] \in Refers THEN "seek" ELSE "resolve")

\* ... else the file that was found must still be there, hold a config its model accepts, ...
JudgeConfig ==
  /\ pc = "judge"
  /\ IF Read \notin Valid THEN Fail
     ELSE Go(IF Read \in Refers THEN "seek" ELSE "resolve")

\* ... and what it refers to must exist.
SeekSnapshot == pc = "seek" /\ (IF snapshot THEN Go("resolve") ELSE Fail)

\* content_assets looks for the config once more ...
Resolve ==
  /\ pc = "resolve" /\ pc' = "read" /\ Pick /\ reedited' = FALSE
  /\ UNCHANGED <<source, wanted, staged, was, touched>>

\* ... and reads it: what has gone since, or no longer loads, has no assets, and nobody is told.
ReadAssets ==
  /\ pc = "read" /\ pc' = "skill" /\ wanted' = (Read \in Valid \cap Refers)
  /\ todo' = <<[op |-> "dir", at |-> <<Root>>]>>
  /\ UNCHANGED <<source, picked, work, bare, history>>

End(at) == at[Len(at)]
\* mutant: a directory copied anywhere is not copied again.
CopiedAnywhere(at) == \E c \in work : c.at # at /\ End(c.at) = End(at)
\* The directory is an ancestor of itself on this branch.
Cyclic(at) == \E i \in 1..Len(at) - 1 : at[i] = End(at)

\* The files of a directory that iterdir lists at that moment: list.local.txt, list.txt.
Item(at, kind) ==
  IF files[<<End(at), kind>>] = Absent THEN <<>> ELSE <<[op |-> kind, at |-> at]>>
Items(at) == Item(at, "local") \o Item(at, "public")

\* copy_dir; how the names of the subdirectories are sorted is not modelled.
CopyDir(item) ==
  /\ item.op = "dir"
  /\ IF Cyclic(item.at) THEN todo' = Tail(todo) /\ UNCHANGED bare
     ELSE /\ End(item.at) \in Inside
          /\ bare' = bare \cup {at \in {item.at} : Items(at) = <<>>}
          /\ \E order \in SetToSeqs(tree[End(item.at)]) :
               todo' = Items(item.at)
                       \o [i \in DOMAIN order |-> [op |-> "dir", at |-> Append(item.at, order[i])]]
                       \o Tail(todo)
  /\ UNCHANGED <<source, pc, config, work, history>>

CopyFile(item) ==
  /\ item.op \in Kind /\ files[<<End(item.at), item.op>>] # Absent
  /\ todo' = Tail(todo)
  /\ work' = work \cup {[at |-> item.at, kind |-> item.op, text |-> files[<<End(item.at), item.op>>]]}
  /\ UNCHANGED <<source, pc, config, bare, history>>

\* An entry that leads out of the skill directory, or went since it was listed.
CopyFails(item) ==
  /\ IF item.op = "dir" THEN ~Cyclic(item.at) /\ End(item.at) \notin Inside
     ELSE files[<<End(item.at), item.op>>] = Absent
  /\ Fail

CopySkill ==
  /\ pc = "skill"
  /\ \/ todo # <<>> /\ (CopyDir(Head(todo)) \/ CopyFile(Head(todo)) \/ CopyFails(Head(todo)))
     \/ todo = <<>> /\ Go("manifest")

\* Change the worktree and go on.
Rework(copies, next) ==
  /\ work' = copies /\ pc' = next
  /\ UNCHANGED <<source, config, todo, bare, history>>
Put(place, kind, text, next) == Rework(work \cup {[at |-> place, kind |-> kind, text |-> text]}, next)

\* The manifest the run was loaded from, if it is still there.
StageManifest == pc = "manifest" /\ (Go("config") \/ Put(Manifest, "public", "manifest", "config"))

\* _stage_content_config: the public file, which must exist, ...
StageConfig ==
  /\ pc = "config"
  /\ LET text == files[<<"config", "public">>] IN
       IF text = Absent THEN Fail ELSE Put(Config, "public", text, "sibling")

\* ... and its sibling, if there is one by then, ...
StageSibling ==
  /\ pc = "sibling"
  /\ Go(IF files[<<"config", "local">>] = Absent THEN "shadow" ELSE "private")

\* ... which must still be there to be copied.
CopySibling ==
  /\ pc = "private"
  /\ LET text == files[<<"config", "local">>] IN
       IF text = Absent THEN Fail ELSE Put(Config, "local", text, "shadow")

Shadowed(c) == c.kind = "public" /\ \E l \in work : l.at = c.at /\ l.kind = "local"
\* _apply_local_shadowing: a .local file takes the place and the name of the public one.
Shadowing == {[c EXCEPT !.kind = "public"] : c \in {c \in work : ~Shadowed(c)}}

ApplyLocalShadowing == pc = "shadow" /\ Rework(Shadowing, "env")

\* _apply_env_overrides: the lists of the skill, and nothing else.
ApplyEnvOverrides ==
  /\ pc = "env"
  /\ Rework({[c EXCEPT !.text = IF c.at \in environ \ {Config, Manifest} THEN FromEnv ELSE @] : c \in work},
            "extras")

\* _stage_extra_assets: under the very name the config refers to, a .local one.
StageExtras ==
  /\ pc = "extras"
  /\ IF wanted /\ ~snapshot THEN Fail
     ELSE IF wanted THEN Put(Snapshot, "local", "snapshot", "agent") ELSE Go("agent")

Next ==
  \/ \E a \in Asset, kind \in Kind, text \in Text \cup {Absent} : Edit(a, kind, text)
  \/ EditSnapshot
  \/ Preflight \/ FindConfig \/ JudgeConfig \/ SeekSnapshot \/ Resolve \/ ReadAssets
  \/ CopySkill \/ StageManifest \/ StageConfig \/ StageSibling \/ CopySibling
  \/ ApplyLocalShadowing \/ ApplyEnvOverrides \/ StageExtras

Spec == Init /\ [][Next]_vars

-----------------------------------------------------------------------------
\* The places of the directories that are walked to without going round in a circle.
Walks ==
  {p \in UNION {[1..n -> Inside] : n \in 1..Cardinality(Inside)} :
     /\ p[1] = Root /\ \A i \in 1..Len(p) - 1 : p[i + 1] \in tree[p[i]]
     /\ \A i, j \in 1..Len(p) : p[i] = p[j] => i = j}

\* Both the public and the local file were edited while the run was on its way.
BothEdited(a) == \A k \in Kind : <<a, k>> \in touched

\* What the agent finds at a place was effective since preflight judged the source.
SeesEffective(at, a) ==
  \A c \in work : c.at = at => c.text \in was[a] \/ at \in environ \ {Config}

\* Safety, stage_loop_assets (worktree.py:268-340): when the agent starts, no directory of the
\* skill leads out of it, each place that is walked to and the config are staged once, under
\* the public name, with what was effective at some moment of the staging, unless both files
\* were edited meanwhile; nothing is left out but where copy_dir listed no file; a list the
\* environment overrides comes from there; and nothing else is staged but the manifest and
\* the snapshot.
BundleIsEffective ==
  pc = "agent" =>
    /\ \A p \in Walks : /\ tree[End(p)] \subseteq Inside
                        /\ p \in bare \/ \E c \in work : c.at = p
                        /\ BothEdited(End(p)) \/ SeesEffective(p, End(p))
    /\ \E c \in work : c.at = Config
    /\ BothEdited("config") \/ SeesEffective(Config, "config")
    /\ \A c \in work : /\ \/ c.at \in {Manifest, Snapshot}
                          \/ c.at \in Walks \cup {Config} /\ c.kind = "public"
                       /\ c.at \in environ \cap Walks => c.text = FromEnv
                       /\ \A d \in work : c.at = d.at => c = d

\* Safety, preflight against staging (capabilities.py:209-263, worktree.py:185-265): the agent
\* starts on a config its typed model accepts unless it was edited after preflight found it;
\* and on the snapshot this config refers to, unless the config was edited after
\* content_assets looked for it: only an edit from there on, one between the look and the read
\* included, leaves the agent without.
ConfigUsable ==
  pc = "agent" =>
    \E c \in work :
      /\ c.at = Config
      /\ (\A k \in Kind : <<"config", k>> \notin touched) => c.text \in Valid
      /\ ~reedited /\ c.text \in Valid \cap Refers => \E d \in work : d.at = Snapshot /\ d.kind = "local"
=============================================================================
