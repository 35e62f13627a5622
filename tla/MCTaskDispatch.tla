--------------------------- MODULE MCTaskDispatch ---------------------------
(***************************************************************************)
(* Instances of TaskDispatch for TLC.                                      *)
(***************************************************************************)
EXTENDS TaskDispatch, TLC

CONSTANTS t1, t2, w1, w2, a1, a2

Symmetry == Permutations({w1, w2}) \cup Permutations({a1, a2}) \cup Permutations({t1, t2})
=============================================================================
