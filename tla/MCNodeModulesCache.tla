-------------------------- MODULE MCNodeModulesCache --------------------------
(***************************************************************************)
(* Instance of NodeModulesCache for TLC.                                   *)
(***************************************************************************)
EXTENDS NodeModulesCache, TLC

CONSTANTS r1, r2, l1, l2, f1, f2

MCSymmetry == Permutations(Roots) \cup Permutations(Locks) \cup Permutations(Files)
===============================================================================
