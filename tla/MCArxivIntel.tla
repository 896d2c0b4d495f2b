---------------------------- MODULE MCArxivIntel ----------------------------
(***************************************************************************)
(* Instances of ArxivIntel: runs that are alike, and stamps.               *)
(***************************************************************************)
EXTENDS ArxivIntel, TLC

CONSTANTS r1, r2, s1, s2

Symmetric == Permutations(Run) \cup Permutations(Stamp)
=============================================================================
