------------------------------ MODULE MCXIntel ------------------------------
(***************************************************************************)
(* Instances of XIntel: two queries, which share a phase, and a snapshot.  *)
(***************************************************************************)
EXTENDS XIntel, TLC

CONSTANTS query1, query2, snapshot

Phases == (query1 :> 1) @@ (query2 :> 1) @@ (snapshot :> 5)
=============================================================================
