---------------------------- MODULE MCApplyGate ----------------------------
(***************************************************************************)
(* A fleet like the one of loops/: a loop that runs on the default vendor  *)
(* with a token, and one pinned to a vendor with a connector and a live    *)
(* probe that needs a proxy.                                               *)
(***************************************************************************)
EXTENDS ApplyGate

TwoNeeds ==
  [l \in Loop |->
     IF l = "x-intel"
     THEN [vendor |-> "default", on |-> Vendor, tools |-> {}, auth |-> {},
           tokens |-> {"BEARER", "OAUTH"}, env |-> {}, live |-> {}]
     ELSE [vendor |-> "codex", on |-> {"codex"}, tools |-> {"nv-tools"}, auth |-> {"nv-tools"},
           tokens |-> {}, env |-> {"CHANNEL"}, live |-> {"PROXY"}]]

TheValues ==
  [v \in Var |-> CASE v = "PATH" -> Path
                   [] v = "LOOPCRAFT_VENDOR" -> Vendor \cup {"empty"}
                   [] OTHER -> {"unset", "empty", "set"}]

Env(onPath, tokens) ==
  [v \in Var |-> IF v = "PATH" THEN onPath ELSE IF v \in tokens THEN "set" ELSE "unset"]

\* One where everything is in place, and one where only the shell has it all.
TheHosts ==
  {[shell |-> Env("wide", {}), dotenv |-> Env("unset", {}),
    secrets |-> Env("unset", {"BEARER", "CHANNEL", "PROXY"}), found |-> [p \in Path |-> Binary]],
   [shell |-> Env("wide", {"BEARER", "CHANNEL", "PROXY"}), dotenv |-> Env("unset", {"OAUTH"}),
    secrets |-> Env("unset", {}),
    found |-> [p \in Path |-> IF p = "wide" THEN Binary ELSE {"loopctl", "codex"}]]}
=============================================================================
