----------------------------- MODULE MCStaging -----------------------------
(***************************************************************************)
(* Instances of Staging: a skill of up to three directories, and content   *)
(* configs with and without a .local sibling.                              *)
(***************************************************************************)
EXTENDS Staging

\* Links up to the root and to itself, a link out of it, and aliases of one directory.
SomeTrees ==
  {[root |-> {"sub"}, sub |-> {"root", "sub"}, alias |-> {}],
   [root |-> {"sub"}, sub |-> {"out"}, alias |-> {}],
   [root |-> {"sub", "alias"}, sub |-> {"alias"}, alias |-> {"root"}]}

\* Lists as they are committed, one of them shadowed.
Lists(a) == IF a = <<"root", "local">> THEN "snap"
            ELSE IF a[2] = "local" THEN Absent ELSE "good"
SomeSources ==
  {[a \in Asset \X Kind |->
      IF a = <<"config", "public">> THEN public ELSE IF a = <<"config", "local">> THEN local ELSE Lists(a)] :
     public \in {"good", "snap"}, local \in {"good", "broken", Absent}}

RootOrNot == {{}, {<<"root">>}}
=============================================================================
