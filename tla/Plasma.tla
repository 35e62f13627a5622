------------------------------- MODULE Plasma -------------------------------
(***************************************************************************)
(* The plasma object store: the server's object table and bump-allocated   *)
(* shared-memory arena (rayd-plasma/src/server.rs, arena.rs) driven by its *)
(* clients, one per connection (client.rs).  The server runs one thread    *)
(* per connection and a client waits for each reply, so a connection is    *)
(* one sequential process; connections interleave wherever a handler       *)
(* releases the table lock or the arena lock.                              *)
(*                                                                         *)
(* Bytes are modelled: mem[b] is the object whose contents byte b holds,   *)
(* or NoId where nothing was written since the arena was mapped (zeroes).  *)
(***************************************************************************)
EXTENDS Integers

CONSTANTS
    Clients,     \* connections; a connection that ended is never reused
    Ids,         \* object ids
    NoId,        \* "no object": not an id
    Capacity,    \* bytes in the arena
    Align,       \* OBJECT_ALIGN
    MetaSizes,   \* metadata sizes a Create may ask for
    DataSizes,   \* data sizes a Create may ask for
    MayCreate    \* MayCreate[c]: the ids that connection c may create

ASSUME PlasmaAssumption ==
    /\ NoId \notin Ids
    /\ Capacity \in Nat
    /\ Align \in Nat \ {0}
    /\ MetaSizes \subseteq Nat
    /\ DataSizes \subseteq Nat
    /\ MayCreate \in [Clients -> SUBSET Ids]

VARIABLES
    status,   \* status[i]: absent from the table, or present and (un)sealed
    slot,     \* slot[i]: the byte ranges of i's table entry
    bump,     \* the arena's bump pointer
    mem,      \* the arena's bytes
    req,      \* req[c]: the create_and_seal in progress on connection c
    handle,   \* handle[c]: the ReadHandle the client on c holds
    alive     \* alive[c]: the client process on connection c is running

vars == <<status, slot, bump, mem, req, handle, alive>>

Slot == [moff : Nat, msize : Nat, doff : Nat, dsize : Nat]
NullSlot == [moff |-> 0, msize |-> 0, doff |-> 0, dsize |-> 0]
Arena == 0 .. Capacity - 1

MetaBytes(s) == s.moff .. s.moff + s.msize - 1
SlotData(s) == s.doff .. s.doff + s.dsize - 1
Bytes(s) == MetaBytes(s) \cup SlotData(s)

Idle == [pc |-> "idle", id |-> NoId, slot |-> NullSlot]
NoHandle == [id |-> NoId, slot |-> NullSlot]

ServerSteps == {"alloc_meta", "alloc_data", "insert"}
ClientSteps == {"write_meta", "write_data", "seal"}

TypeOK ==
    /\ status \in [Ids -> {"absent", "unsealed", "sealed"}]
    /\ slot \in [Ids -> Slot]
    /\ bump \in 0 .. Capacity
    /\ mem \in [Arena -> Ids \cup {NoId}]
    /\ req \in [Clients -> [pc : {"idle"} \cup ServerSteps \cup ClientSteps,
                            id : Ids \cup {NoId}, slot : Slot]]
    /\ handle \in [Clients -> [id : Ids \cup {NoId}, slot : Slot]]
    /\ alive \in [Clients -> BOOLEAN]

Init ==
    /\ status = [i \in Ids |-> "absent"]
    /\ slot = [i \in Ids |-> NullSlot]
    /\ bump = 0
    /\ mem = [b \in Arena |-> NoId]
    /\ req = [c \in Clients |-> Idle]
    /\ handle = [c \in Clients |-> NoHandle]
    /\ alive = [c \in Clients |-> TRUE]

-----------------------------------------------------------------------------
(***************************************************************************)
(* arena.rs alloc: round the bump pointer up, refuse what does not fit.    *)
(***************************************************************************)
\* Mutant of Aligned: rounds down.
AlignedDown == (bump \div Align) * Align

Aligned == ((bump + Align - 1) \div Align) * Align

Fits(size) == Aligned + size <= Capacity

Alloc(size) ==
    /\ Fits(size)
    /\ bump' = Aligned + size

Ready(c) == alive[c] /\ req[c].pc = "idle"

\* The request on c goes on to step pc, with the ranges s.
Goto(c, pc, s) == req' = [req EXCEPT ![c] = [pc |-> pc, id |-> req[c].id, slot |-> s]]

(***************************************************************************)
(* handle_create.  The table is consulted under the lock, which is         *)
(* released before the two allocations and taken again for the insert; the *)
(* insert overwrites whatever entry the id has by then.  The two sizes of  *)
(* the request are fixed by the client; they are chosen here where the     *)
(* server first uses them.                                                 *)
(***************************************************************************)
\* Mutant of CreateCheck: the table is not consulted.
CreateCheckBlind(c, i) ==
    /\ Ready(c)
    /\ i \in MayCreate[c]
    /\ req' = [req EXCEPT ![c] = [pc |-> "alloc_meta", id |-> i, slot |-> NullSlot]]
    /\ UNCHANGED <<status, slot, bump, mem, handle, alive>>

CreateCheck(c, i) ==
    /\ Ready(c)
    /\ i \in MayCreate[c]
    /\ status[i] = "absent"           \* otherwise AlreadyExists: no change
    /\ req' = [req EXCEPT ![c] = [pc |-> "alloc_meta", id |-> i, slot |-> NullSlot]]
    /\ UNCHANGED <<status, slot, bump, mem, handle, alive>>

CreateAllocMeta(c, n) ==
    /\ req[c].pc = "alloc_meta"
    /\ Alloc(n)
    /\ Goto(c, "alloc_data", [moff |-> Aligned, msize |-> n, doff |-> 0, dsize |-> 0])
    /\ UNCHANGED <<status, slot, mem, handle, alive>>

CreateAllocData(c, n) ==
    /\ req[c].pc = "alloc_data"
    /\ Alloc(n)
    /\ Goto(c, "insert", [moff |-> req[c].slot.moff, msize |-> req[c].slot.msize,
                          doff |-> Aligned, dsize |-> n])
    /\ UNCHANGED <<status, slot, mem, handle, alive>>

\* OutOfMemory from either allocation; the metadata range is not given back.
CreateOutOfMemory(c) ==
    /\ \/ req[c].pc = "alloc_meta" /\ \E n \in MetaSizes : ~Fits(n)
       \/ req[c].pc = "alloc_data" /\ \E n \in DataSizes : ~Fits(n)
    /\ req' = [req EXCEPT ![c] = Idle]
    /\ UNCHANGED <<status, slot, bump, mem, handle, alive>>

CreateInsert(c) ==
    /\ req[c].pc = "insert"
    /\ status' = [status EXCEPT ![req[c].id] = "unsealed"]
    /\ slot' = [slot EXCEPT ![req[c].id] = req[c].slot]
    /\ Goto(c, "write_meta", req[c].slot)
    /\ UNCHANGED <<bump, mem, handle, alive>>

(***************************************************************************)
(* The client's half of create_and_seal: fill both ranges through the      *)
(* mmap, then send Seal.  A client may instead drop the WriteHandle.       *)
(***************************************************************************)
WriteMeta(c) ==
    /\ alive[c] /\ req[c].pc = "write_meta"
    /\ mem' = [b \in Arena |-> IF b \in MetaBytes(req[c].slot) THEN req[c].id ELSE mem[b]]
    /\ Goto(c, "write_data", req[c].slot)
    /\ UNCHANGED <<status, slot, bump, handle, alive>>

WriteData(c) ==
    /\ alive[c] /\ req[c].pc = "write_data"
    /\ mem' = [b \in Arena |-> IF b \in SlotData(req[c].slot) THEN req[c].id ELSE mem[b]]
    /\ Goto(c, "seal", req[c].slot)
    /\ UNCHANGED <<status, slot, bump, handle, alive>>

\* handle_seal; NotFound and AlreadySealed leave the table alone.
Seal(c) ==
    /\ alive[c] /\ req[c].pc = "seal"
    /\ IF status[req[c].id] = "unsealed"
       THEN status' = [status EXCEPT ![req[c].id] = "sealed"]
       ELSE UNCHANGED status
    /\ req' = [req EXCEPT ![c] = Idle]
    /\ UNCHANGED <<slot, bump, mem, handle, alive>>

DropWriteHandle(c) ==
    /\ alive[c] /\ req[c].pc \in ClientSteps
    /\ req' = [req EXCEPT ![c] = Idle]
    /\ UNCHANGED <<status, slot, bump, mem, handle, alive>>

\* Mutant of Get: unsealed objects are handed out.
GetAny(c, i) ==
    /\ Ready(c)
    /\ status[i] # "absent"
    /\ handle' = [handle EXCEPT ![c] = [id |-> i, slot |-> slot[i]]]
    /\ UNCHANGED <<status, slot, bump, mem, req, alive>>

\* handle_get; NotFound and NotSealed return no handle.
Get(c, i) ==
    /\ Ready(c)
    /\ status[i] = "sealed"
    /\ handle' = [handle EXCEPT ![c] = [id |-> i, slot |-> slot[i]]]
    /\ UNCHANGED <<status, slot, bump, mem, req, alive>>

DropReadHandle(c) ==
    /\ alive[c] /\ handle[c] # NoHandle
    /\ handle' = [handle EXCEPT ![c] = NoHandle]
    /\ UNCHANGED <<status, slot, bump, mem, req, alive>>

\* handle_delete, for Delete and Release alike: sealed or not, in use or not.
HandleDelete(c, i) ==
    /\ Ready(c)
    /\ status[i] # "absent"           \* otherwise Ok: no change
    /\ status' = [status EXCEPT ![i] = "absent"]
    /\ slot' = [slot EXCEPT ![i] = NullSlot]
    /\ UNCHANGED <<bump, mem, req, handle, alive>>

(***************************************************************************)
(* The client disconnects or dies.  A request the server has already read  *)
(* runs to the end of its handler; table entries are not cleaned up.       *)
(***************************************************************************)
Disconnect(c) ==
    /\ alive[c]
    /\ alive' = [alive EXCEPT ![c] = FALSE]
    /\ handle' = [handle EXCEPT ![c] = NoHandle]
    /\ req' = [req EXCEPT ![c] = IF req[c].pc \in ServerSteps THEN req[c] ELSE Idle]
    /\ UNCHANGED <<status, slot, bump, mem>>

Next ==
    \E c \in Clients :
        \/ \E i \in Ids : CreateCheck(c, i) \/ Get(c, i) \/ HandleDelete(c, i)
        \/ \E n \in MetaSizes : CreateAllocMeta(c, n)
        \/ \E n \in DataSizes : CreateAllocData(c, n)
        \/ CreateOutOfMemory(c)
        \/ CreateInsert(c)
        \/ WriteMeta(c)
        \/ WriteData(c)
        \/ Seal(c)
        \/ DropWriteHandle(c)
        \/ DropReadHandle(c)
        \/ Disconnect(c)

Spec == Init /\ [][Next]_vars

-----------------------------------------------------------------------------
(***************************************************************************)
(* Each id is created by one connection only.  Owners mint fresh ids, so   *)
(* this holds of puts and task returns; it fails where the owner's worker  *)
(* and its raylet restore the same spilled object over their own           *)
(* connections.                                                            *)
(***************************************************************************)
CreatorsDisjoint ==
    \A c, d \in Clients : c # d => MayCreate[c] \cap MayCreate[d] = {}

(***************************************************************************)
(* No byte of the arena has two users: the ranges of every table entry,    *)
(* read handle and write in progress lie below the bump pointer, ranges    *)
(* of two entries or of two writers are disjoint, and a range a writer     *)
(* shares with an entry is that writer's own entry.  (arena.rs alloc under *)
(* concurrent handle_create; the SAFETY argument of client.rs.)            *)
(***************************************************************************)
Allocated ==
    /\ \A i \in Ids : Bytes(slot[i]) \subseteq 0 .. bump - 1
    /\ \A c \in Clients : Bytes(req[c].slot) \subseteq 0 .. bump - 1
    /\ \A c \in Clients : Bytes(handle[c].slot) \subseteq 0 .. bump - 1
EntriesApart ==
    \A i, j \in Ids : i # j => Bytes(slot[i]) \cap Bytes(slot[j]) = {}
WritersApart ==
    /\ \A c \in Clients : MetaBytes(req[c].slot) \cap SlotData(req[c].slot) = {}
    /\ \A c, d \in Clients : c # d => Bytes(req[c].slot) \cap Bytes(req[d].slot) = {}
WriterHasOwnEntry ==
    \A c \in Clients, i \in Ids :
        Bytes(req[c].slot) \cap Bytes(slot[i]) # {}
            => req[c].id = i /\ req[c].slot = slot[i] /\ req[c].pc \in ClientSteps
SlotsOK == Allocated /\ EntriesApart /\ WritersApart /\ WriterHasOwnEntry

(***************************************************************************)
(* What Get hands out is complete: every byte of a sealed entry is the     *)
(* object's own (client.rs seal: "Mark an object immutable").              *)
(***************************************************************************)
SealedIntact ==
    \A i \in Ids : status[i] = "sealed" => \A b \in Bytes(slot[i]) : mem[b] = i

(***************************************************************************)
(* A held read handle's bytes never change (client.rs: "Mark an object     *)
(* immutable.  After this, `get` will return it").                         *)
(***************************************************************************)
HandleStep ==
    \A c \in Clients : \A b \in Bytes(handle[c].slot) : mem'[b] = mem[b]
HandleStable == [][HandleStep]_vars

(***************************************************************************)
(* The promise kept to clients (module ObjectStore).  A reader sees object *)
(* i when every byte under its handle is i's; a handle with any other byte *)
(* under it is a view that ObjectStore never gives.                        *)
(***************************************************************************)
TornView == <<"torn">>

ViewOf(h) ==
    IF \A b \in Bytes(h.slot) : mem[b] = h.id THEN h.id ELSE TornView

Promise == INSTANCE ObjectStore WITH view <- [c \in Clients |-> ViewOf(handle[c])]

\* Every step of the store is a step of ObjectStore or changes nothing there.
Refinement == Promise!Spec
=============================================================================
