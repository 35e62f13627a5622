-------------------------- MODULE MCObjectTransfer --------------------------
(***************************************************************************)
(* ObjectTransfer for TLC: an owner and borrowers that are interchangeable.*)
(***************************************************************************)
EXTENDS ObjectTransfer, TLC

Symmetry == Permutations(Borrowers)
=============================================================================
