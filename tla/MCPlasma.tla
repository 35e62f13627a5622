------------------------------ MODULE MCPlasma ------------------------------
(***************************************************************************)
(* Plasma for TLC: two connections that create and read; one object and a  *)
(* half fit, so that both allocations meet a full arena.                   *)
(***************************************************************************)
EXTENDS Plasma, TLC

CONSTANTS c1, c2, i1, i2

\* Each id has one creator (puts and task returns: ids are fresh).
OwnIds == (c1 :> {i1}) @@ (c2 :> {i2})
=============================================================================
