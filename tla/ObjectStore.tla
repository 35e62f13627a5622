----------------------------- MODULE ObjectStore -----------------------------
(***************************************************************************)
(* What the plasma store promises its clients: an object is absent, being  *)
(* created, or sealed; a sealed object is never unsealed; and what a       *)
(* reader sees of an object is that object, for as long as it looks.       *)
(***************************************************************************)
CONSTANTS Clients, Ids, NoId

VARIABLES
    status,   \* status[i]: "absent", "unsealed" or "sealed"
    view      \* view[c]: the object that client c is looking at, or NoId

vars == <<status, view>>

Init ==
    /\ status = [i \in Ids |-> "absent"]
    /\ view = [c \in Clients |-> NoId]

Create(i) ==
    /\ status[i] = "absent"
    /\ status' = [status EXCEPT ![i] = "unsealed"]
    /\ UNCHANGED view

Seal(i) ==
    /\ status[i] = "unsealed"
    /\ status' = [status EXCEPT ![i] = "sealed"]
    /\ UNCHANGED view

Get(c, i) ==
    /\ status[i] = "sealed"
    /\ view' = [view EXCEPT ![c] = i]
    /\ UNCHANGED status

Drop(c) ==
    /\ view' = [view EXCEPT ![c] = NoId]
    /\ UNCHANGED status

Delete(i) ==
    /\ status' = [status EXCEPT ![i] = "absent"]
    /\ UNCHANGED view

Next ==
    \/ \E i \in Ids : Create(i) \/ Seal(i) \/ Delete(i)
    \/ \E c \in Clients : Drop(c) \/ \E i \in Ids : Get(c, i)

Spec == Init /\ [][Next]_vars
=============================================================================
