-------------------------- MODULE MCActorSubprocess --------------------------
(***************************************************************************)
(* Instances of ActorSubprocess for TLC.                                   *)
(***************************************************************************)
EXTENDS ActorSubprocess, TLC

CONSTANTS k1, k2, k3

Symmetry == Permutations({k1, k2, k3})

\* The process dies in its constructor, between methods or mid-method.
MidMethod == {"spawning", "ready", "method"}

\* ... or also between sealing a result and reporting it.
Anywhere == MidMethod \cup {"sealed"}
=============================================================================
