-------------------------- MODULE MCActorRegistry ---------------------------
(***************************************************************************)
(* ActorRegistry for TLC: actors and ports are interchangeable.            *)
(***************************************************************************)
EXTENDS ActorRegistry, TLC

Symmetry == Permutations(Actors) \cup Permutations(Ports)
=============================================================================
