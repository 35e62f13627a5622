------------------------------ MODULE RefTable ------------------------------
(***************************************************************************)
(* The owner-side reference table on its own (rayd-core ref_counter.rs),   *)
(* called in any order by any number of threads: stray drops, drops after  *)
(* the shutdown drain and borrowers of forgotten ids included.             *)
(***************************************************************************)
EXTENDS RefCounter

CONSTANTS
    Ids,       \* object ids
    MaxCount   \* bound on local_count and submit_dep_count

ASSUME TableAssumption == MaxCount \in Nat

VARIABLES
    entries,   \* entries[i]: the OwnerEntry
    told       \* ids the last call told its caller to free

tableVars == <<entries, told>>

TableTypeOK ==
    /\ entries \in [Ids -> OwnerEntry]
    /\ told \subseteq Ids

TableInit ==
    /\ entries = [i \in Ids |-> Untracked]
    /\ told = {}

-----------------------------------------------------------------------------
Set(i, e) == entries' = [entries EXCEPT ![i] = e]
Tell(i, frees) == told' = IF frees THEN {i} ELSE {}

AddOwnedCall(i) ==
    /\ entries[i].local < MaxCount
    /\ Set(i, AddOwned(entries[i]))
    /\ told' = {}

IncLocalCall(i) ==
    /\ entries[i].local < MaxCount
    /\ Set(i, IncLocal(entries[i]))
    /\ told' = {}

DecLocalCall(i) ==
    /\ Set(i, DecLocal(entries[i]))
    /\ Tell(i, DecLocalFrees(entries[i]))

AddBorrowerCall(i, w) ==
    /\ Set(i, AddBorrower(entries[i], w))
    /\ told' = {}

RemoveBorrowerCall(i, w) ==
    /\ Set(i, RemoveBorrower(entries[i], w))
    /\ Tell(i, RemoveBorrowerFrees(entries[i], w))

AddSubmitDepCall(i) ==
    /\ entries[i].deps < MaxCount
    /\ Set(i, AddSubmitDep(entries[i]))
    /\ told' = {}

CompleteSubmitDepCall(i) ==
    /\ Set(i, CompleteSubmitDep(entries[i]))
    /\ Tell(i, CompleteSubmitDepFrees(entries[i]))

\* drain_ids returns every tracked id and clears the table.
DrainIds ==
    /\ told' = {i \in Ids : entries[i].tracked}
    /\ entries' = [i \in Ids |-> Untracked]

TableNext ==
    \/ \E i \in Ids : \/ AddOwnedCall(i) \/ IncLocalCall(i) \/ DecLocalCall(i)
                      \/ AddSubmitDepCall(i) \/ CompleteSubmitDepCall(i)
                      \/ \E w \in Borrowers : AddBorrowerCall(i, w) \/ RemoveBorrowerCall(i, w)
    \/ DrainIds

TableSpec == TableInit /\ [][TableNext]_tableVars

-----------------------------------------------------------------------------
(***************************************************************************)
(* An entry exists iff something pins the object, whatever stray calls     *)
(* were made before (ref_counter.rs proptests: "Presence <-> pin: an entry *)
(* exists in the map iff at least one of its three counters is non-zero"). *)
(***************************************************************************)
PresenceIffPinned == \A i \in Ids : EntryOK(entries[i])

(***************************************************************************)
(* The caller is told to free an object by exactly the call that takes its *)
(* last pin, so that every tracked object is freed once and none while     *)
(* something pins it (the return values of dec_local, remove_borrower,     *)
(* complete_submit_dep and drain_ids).                                     *)
(***************************************************************************)
FreeStep == told' = {i \in Ids : Pinned(entries[i]) /\ ~Pinned(entries'[i])}
FreedByLastDrop == [][FreeStep]_tableVars
=============================================================================
