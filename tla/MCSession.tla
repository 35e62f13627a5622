----------------------------- MODULE MCSession ------------------------------
(***************************************************************************)
(* Session for TLC: two sessions in the deployments that differ.           *)
(***************************************************************************)
EXTENDS Session

CONSTANTS s1, s2, p1, p2

Pair(k1, q1, k2, q2) ==
    [s \in {s1, s2} |-> IF s = s1 THEN [kind |-> k1, proc |-> q1] ELSE [kind |-> k2, proc |-> q2]]

\* Two drivers beside one external plasma server; the same driver process
\* initialised twice; a driver with its own plasma server and a worker node.
AllDeployments ==
    {Pair("shared", p1, "shared", p2), Pair("shared", p1, "shared", p1), Pair("private", p1, "cli", p2)}
TwoDrivers == {Pair("shared", p1, "shared", p2)}
=============================================================================
