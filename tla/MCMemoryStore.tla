--------------------------- MODULE MCMemoryStore ---------------------------
(***************************************************************************)
(* MemoryStore for TLC: a list of two ids, and one id asked for twice;     *)
(* a small value kept inline and a large error kept in plasma.             *)
(***************************************************************************)
EXTENDS MemoryStore, TLC

CONSTANTS i1, i2

Lists == {<<i1, i2>>, <<i2, i2>>}

ValueAndError == {[size |-> 1, err |-> FALSE], [size |-> 5, err |-> TRUE]}
=============================================================================
