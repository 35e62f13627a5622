-------------------------- MODULE MCObjectLifecycle --------------------------
(***************************************************************************)
(* ObjectLifecycle for TLC.  Threads, pullers, ids and borrowers are       *)
(* interchangeable.                                                        *)
(***************************************************************************)
EXTENDS ObjectLifecycle, TLC

Symmetry ==
    Permutations(Ids) \cup Permutations(Threads) \cup Permutations(Pullers)
        \cup Permutations(Borrowers)

(***************************************************************************)
(* Bounds of the search.  A state beyond them is checked, and not left:    *)
(* two objects with borrowers at the same time, and a Pull under way       *)
(* beside or after shutdown, which pins nothing and which nothing reads.   *)
(***************************************************************************)
OneObjectBorrowed ==
    \A i, j \in Ids : refs[i].borrowers # {} /\ refs[j].borrowers # {} => i = j
NoPullAfterShutdown == down => \A r \in Pullers : pc[r] = "idle"
=============================================================================
