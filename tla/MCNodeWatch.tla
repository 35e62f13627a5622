----------------------------- MODULE MCNodeWatch -----------------------------
(* NodeWatch for TLC. *)
EXTENDS NodeWatch, TLC
=============================================================================
