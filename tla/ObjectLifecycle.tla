--------------------------- MODULE ObjectLifecycle ---------------------------
(***************************************************************************)
(* The life of the objects one driver owns, on the driver's node: the      *)
(* CoreWorker (rayd-core/src/core_worker.rs) with its reference table and  *)
(* memory-store index, the plasma entries, the spill manager that the      *)
(* worker and the raylet share (rayd-raylet/src/object_manager.rs), and    *)
(* the raylet's Pull handlers (service.rs).  A GCS is attached, so the     *)
(* recoverer and the free callback are installed (rayd-py runtime.rs).     *)
(*                                                                         *)
(* Threads of the driver share one plasma connection and hold its mutex    *)
(* across create_and_seal; the raylet's handlers share another.  The arena *)
(* is large enough here (module Plasma models its exhaustion), and every   *)
(* object has size one for the spill policy.                               *)
(***************************************************************************)
EXTENDS RefCounter, FiniteSets

CONSTANTS
    Ids,         \* object ids; each is put at most once (ids are fresh)
    Threads,     \* threads of the driver process using the CoreWorker
    Pullers,     \* blocking threads of the raylet that serve Pull
    Threshold,   \* spill policy: objects allowed in plasma before spilling
    None         \* no object, no process

ASSUME LifecycleAssumption ==
    /\ IsFiniteSet(Ids)
    /\ Threshold \in Nat
    /\ None \notin Ids \cup Threads \cup Pullers
    /\ Threads \cap Pullers = {}

Procs == Threads \cup Pullers
Connections == {"worker", "raylet"}
Conn(p) == IF p \in Threads THEN "worker" ELSE "raylet"

\* What a buffer, a file or a slot holds: nothing, the object, or something else.
Contents == {"none", "whole", "torn"}

VARIABLES
    refs,      \* refs[i]: the RefCounter entry
    index,     \* ids with a Plasma entry in the memory store
    plasma,    \* plasma[i]: table entry, its creator and its bytes
    spilled,   \* ids in the spill manager's directory
    file,      \* file[i]: the spill file
    lock,      \* lock[k]: holder of connection k's mutex
    known,     \* ids whose put has returned: their ObjectRef is out
    down,      \* shutdown has taken the session
    firm,      \* history: borrowers who registered while the owner held on
    met,       \* history: ids on which the connections met mid-reseal; all once down
    pc, obj, buf,   \* each process: next step, object, bytes in hand
    minting,        \* each thread: the id that its put is about to return
    todo, over      \* each thread: ids left to visit, objects over threshold

proc == <<pc, obj, buf, minting, todo, over>>
vars == <<refs, index, plasma, spilled, file, lock, known, met, down, firm, proc>>

Absent == [st |-> "absent", by |-> None, bytes |-> "none"]
PlasmaEntry == [st : {"absent", "unsealed", "sealed"},
                by : Procs \cup {None}, bytes : Contents]

PutSteps == {"put_index", "put_own", "pressure"}
SpillSteps == {"pick", "spill_read", "spill_file", "spill_dir", "spill_delete"}
FreeSteps == {"free_index", "free_plasma", "forget_dir", "forget_file"}
EvictSteps == {"evict", "evict_plasma"}
GetSteps == {"get", "restore_dir", "restore_file", "purge", "reseal",
             "insert", "write", "seal", "reopen"}
Outcomes == {"got", "failed", "io_error"}

TypeOK ==
    /\ refs \in [Ids -> OwnerEntry]
    /\ index \subseteq Ids
    /\ plasma \in [Ids -> PlasmaEntry]
    /\ spilled \subseteq Ids
    /\ file \in [Ids -> Contents]
    /\ lock \in [Connections -> Procs \cup {None}]
    /\ known \subseteq Ids
    /\ down \in BOOLEAN
    /\ firm \in [Ids -> SUBSET Borrowers]
    /\ met \subseteq Ids
    /\ pc \in [Procs -> {"idle"} \cup PutSteps \cup SpillSteps \cup FreeSteps
                          \cup EvictSteps \cup GetSteps \cup Outcomes]
    /\ obj \in [Procs -> Ids \cup {None}]
    /\ buf \in [Procs -> Contents]
    /\ minting \in [Threads -> Ids \cup {None}]
    /\ todo \in [Threads -> SUBSET Ids]
    /\ over \in [Threads -> Nat]

Init ==
    /\ refs = [i \in Ids |-> Untracked]
    /\ index = {}
    /\ plasma = [i \in Ids |-> Absent]
    /\ spilled = {}
    /\ file = [i \in Ids |-> "none"]
    /\ lock = [k \in Connections |-> None]
    /\ known = {}
    /\ down = FALSE
    /\ firm = [i \in Ids |-> {}]
    /\ met = {}
    /\ pc = [p \in Procs |-> "idle"]
    /\ obj = [p \in Procs |-> None]
    /\ buf = [p \in Procs |-> "none"]
    /\ minting = [t \in Threads |-> None]
    /\ todo = [t \in Threads |-> {}]
    /\ over = [t \in Threads |-> 0]

-----------------------------------------------------------------------------
Free(p) == lock[Conn(p)] = None
Begin(p, i, next) ==
    /\ pc[p] = "idle"
    /\ pc' = [pc EXCEPT ![p] = next]
    /\ obj' = [obj EXCEPT ![p] = i]
Goto(p, next) == pc' = [pc EXCEPT ![p] = next] /\ UNCHANGED obj
Done(p) ==
    /\ pc' = [pc EXCEPT ![p] = "idle"]
    /\ obj' = [obj EXCEPT ![p] = None]

(***************************************************************************)
(* seal_value_to_plasma of a fresh id (rayd.put): create_and_seal under    *)
(* the connection's mutex, then the index, then the reference, then the    *)
(* pressure check.  Nobody else can name the id before put returns, so     *)
(* its create_and_seal is one step.                                        *)
(***************************************************************************)
Put(t, i) ==
    /\ ~down
    /\ i \notin known
    /\ \A u \in Threads : minting[u] # i
    /\ Free(t)
    /\ Begin(t, i, "put_index")
    /\ minting' = [minting EXCEPT ![t] = i]
    /\ plasma' = [plasma EXCEPT ![i] = [st |-> "sealed", by |-> t, bytes |-> "whole"]]
    /\ UNCHANGED <<refs, index, spilled, file, lock, known, met, down, firm, buf, todo, over>>

PutIndex(t) ==
    /\ pc[t] = "put_index"
    /\ index' = index \cup {obj[t]}
    /\ Goto(t, "put_own")
    /\ UNCHANGED <<refs, plasma, spilled, file, lock, known, met, down, firm, buf, minting, todo, over>>

PutOwn(t) ==
    /\ pc[t] = "put_own"
    /\ refs' = [refs EXCEPT ![obj[t]] = AddOwned(@)]
    /\ Goto(t, "pressure")
    /\ UNCHANGED <<index, plasma, spilled, file, lock, known, met, down, firm, buf, minting, todo, over>>

(***************************************************************************)
(* maybe_spill_for_pressure: the usage is the size of the whole index, of  *)
(* spilled objects too; victims come in the index's (arbitrary) order.     *)
(***************************************************************************)
\* Mutant of PressureCheck: no early return below the threshold.
PressureCheckAlways(t) ==
    /\ pc[t] = "pressure"
    /\ todo' = [todo EXCEPT ![t] = index]
    /\ over' = [over EXCEPT ![t] = Cardinality(index) - Threshold]
    /\ Goto(t, "pick")
    /\ UNCHANGED <<refs, index, plasma, spilled, file, lock, known, met, down, firm, buf, minting>>

PressureCheck(t) ==
    /\ pc[t] = "pressure"
    /\ todo' = [todo EXCEPT ![t] = index]
    /\ over' = [over EXCEPT ![t] = IF Cardinality(index) > Threshold
                                   THEN Cardinality(index) - Threshold ELSE 0]
    /\ Goto(t, "pick")
    /\ UNCHANGED <<refs, index, plasma, spilled, file, lock, known, met, down, firm, buf, minting>>

PickVictim(t, i) ==
    /\ pc[t] = "pick"
    /\ over[t] > 0
    /\ i \in todo[t]
    /\ todo' = [todo EXCEPT ![t] = @ \ {i}]
    /\ pc' = [pc EXCEPT ![t] = "spill_read"]
    /\ obj' = [obj EXCEPT ![t] = i]
    /\ UNCHANGED <<refs, index, plasma, spilled, file, lock, known, met, down, firm, buf, minting, over>>

PressureDone(t) ==
    /\ pc[t] = "pick"
    /\ over[t] = 0 \/ todo[t] = {}
    /\ Done(t)
    /\ todo' = [todo EXCEPT ![t] = {}]
    /\ over' = [over EXCEPT ![t] = 0]
    /\ known' = known \cup {minting[t]}         \* put returns the ObjectRef
    /\ minting' = [minting EXCEPT ![t] = None]
    /\ UNCHANGED <<refs, index, plasma, spilled, file, lock, met, down, firm, buf>>

(***************************************************************************)
(* spill_to_recoverer: read under the mutex, hand the bytes to the spill   *)
(* manager without it (file renamed into place, then directory entry),     *)
(* delete the plasma copy under it again.  An object gone from plasma      *)
(* counts as spilled; one that is not sealed is skipped.                   *)
(***************************************************************************)
SpillRead(t) ==
    LET e == plasma[obj[t]] IN
    /\ pc[t] = "spill_read"
    /\ Free(t)
    /\ \/ /\ e.st = "sealed"
          /\ buf' = [buf EXCEPT ![t] = e.bytes]
          /\ Goto(t, "spill_file")
          /\ UNCHANGED over
       \/ /\ e.st = "absent"
          /\ over' = [over EXCEPT ![t] = SaturatingDec(@)]
          /\ Goto(t, "pick")
          /\ UNCHANGED buf
       \/ /\ e.st = "unsealed"
          /\ Goto(t, "pick")
          /\ UNCHANGED <<buf, over>>
    /\ UNCHANGED <<refs, index, plasma, spilled, file, lock, known, met, down, firm, minting, todo>>

SpillFile(t) ==
    /\ pc[t] = "spill_file"
    /\ file' = [file EXCEPT ![obj[t]] = buf[t]]
    /\ Goto(t, "spill_dir")
    /\ UNCHANGED <<refs, index, plasma, spilled, lock, known, met, down, firm, buf, minting, todo, over>>

\* Mutant of SpillFileFails: the error is ignored.
SpillFileFailsIgnored(t) ==
    /\ pc[t] = "spill_file"
    /\ buf' = [buf EXCEPT ![t] = "none"]
    /\ Goto(t, "spill_dir")
    /\ UNCHANGED <<refs, index, plasma, spilled, file, lock, known, met, down, firm, minting, todo, over>>

\* backend.spill fails: directory and plasma are left as they were.
SpillFileFails(t) ==
    /\ pc[t] = "spill_file"
    /\ buf' = [buf EXCEPT ![t] = "none"]
    /\ Goto(t, "pick")
    /\ UNCHANGED <<refs, index, plasma, spilled, file, lock, known, met, down, firm, minting, todo, over>>

SpillDir(t) ==
    /\ pc[t] = "spill_dir"
    /\ spilled' = spilled \cup {obj[t]}
    /\ buf' = [buf EXCEPT ![t] = "none"]
    /\ Goto(t, "spill_delete")
    /\ UNCHANGED <<refs, index, plasma, file, lock, known, met, down, firm, minting, todo, over>>

SpillDelete(t) ==
    /\ pc[t] = "spill_delete"
    /\ Free(t)
    /\ plasma' = [plasma EXCEPT ![obj[t]] = Absent]
    /\ over' = [over EXCEPT ![t] = SaturatingDec(@)]
    /\ Goto(t, "pick")
    /\ UNCHANGED <<refs, index, spilled, file, lock, known, met, down, firm, buf, minting, todo>>

-----------------------------------------------------------------------------
(***************************************************************************)
(* resolve_entry on a driver thread, and plasma_get_with_restore on a      *)
(* raylet thread: read plasma; on a miss restore from the spill manager    *)
(* and reseal.  The driver's caller holds an ObjectRef; a peer may ask for *)
(* any id it has heard of.                                                 *)
(***************************************************************************)
Get(t, i) ==
    /\ ~down
    /\ i \in known
    /\ i \in index
    /\ refs[i].local > 0
    /\ Begin(t, i, "get")
    /\ UNCHANGED <<refs, index, plasma, spilled, file, lock, known, met, down, firm, buf, minting, todo, over>>

Pull(r, i) ==
    /\ i \in known
    /\ Begin(r, i, "get")
    /\ UNCHANGED <<refs, index, plasma, spilled, file, lock, known, met, down, firm, buf, minting, todo, over>>

(***************************************************************************)
(* Object i is half-way through create_and_seal on the other connection.   *)
(* Each connection has a mutex of its own, so nothing keeps p out; what p  *)
(* then does to i is remembered in met, and the properties that the        *)
(* overlap can break except those ids.                                     *)
(***************************************************************************)
MidReseal(p, i) ==
    \E q \in Procs : Conn(q) # Conn(p) /\ obj[q] = i /\ pc[q] \in {"insert", "write", "seal"}
Meets(p, i) == met' = IF MidReseal(p, i) THEN met \cup {i} ELSE met

\* Mutant of ReadPlasma: a miss is final, the recoverer is not asked.
ReadPlasmaOnly(p) ==
    LET e == plasma[obj[p]] IN
    /\ pc[p] = "get"
    /\ Free(p)
    /\ buf' = [buf EXCEPT ![p] = IF e.st = "sealed" THEN e.bytes ELSE @]
    /\ Goto(p, IF e.st = "sealed" THEN "got" ELSE "failed")
    /\ UNCHANGED <<refs, index, plasma, spilled, file, lock, known, met, down, firm, minting, todo, over>>

ReadPlasma(p) ==
    LET e == plasma[obj[p]] IN
    /\ pc[p] = "get"
    /\ Free(p)
    /\ \/ /\ e.st = "sealed"
          /\ buf' = [buf EXCEPT ![p] = e.bytes]
          /\ Goto(p, "got")
          /\ UNCHANGED met
       \/ /\ e.st = "absent"
          /\ Goto(p, "restore_dir")
          /\ UNCHANGED <<buf, met>>
       \/ /\ e.st = "unsealed"
          /\ Meets(p, obj[p])
          /\ Goto(p, "failed")
          /\ UNCHANGED buf
    /\ UNCHANGED <<refs, index, plasma, spilled, file, lock, known, down, firm, minting, todo, over>>

\* Mutant of RestoreLookup: a restore takes the record out of the directory.
RestoreLookupTakes(p) ==
    /\ pc[p] = "restore_dir"
    /\ spilled' = spilled \ {obj[p]}
    /\ Goto(p, IF obj[p] \in spilled THEN "restore_file" ELSE "failed")
    /\ UNCHANGED <<refs, index, plasma, file, lock, known, met, down, firm, buf, minting, todo, over>>

\* LocalObjectManager::restore: directory, then file, purging a dead url.
RestoreLookup(p) ==
    /\ pc[p] = "restore_dir"
    /\ Goto(p, IF obj[p] \in spilled THEN "restore_file" ELSE "failed")
    /\ UNCHANGED <<refs, index, plasma, spilled, file, lock, known, met, down, firm, buf, minting, todo, over>>

RestoreRead(p) ==
    /\ pc[p] = "restore_file"
    /\ buf' = [buf EXCEPT ![p] = file[obj[p]]]
    /\ Goto(p, IF file[obj[p]] = "none" THEN "purge" ELSE "reseal")
    /\ UNCHANGED <<refs, index, plasma, spilled, file, lock, known, met, down, firm, minting, todo, over>>

\* Any other error of the backend keeps the record for a retry.
RestoreFails(p) ==
    /\ pc[p] = "restore_file"
    /\ Goto(p, "io_error")
    /\ UNCHANGED <<refs, index, plasma, spilled, file, lock, known, met, down, firm, buf, minting, todo, over>>

RestorePurge(p) ==
    /\ pc[p] = "purge"
    /\ spilled' = spilled \ {obj[p]}
    /\ Goto(p, "failed")
    /\ UNCHANGED <<refs, index, plasma, file, lock, known, met, down, firm, buf, minting, todo, over>>

\* The worker returns the recovered bytes; the raylet reads plasma once more.
Resealed(p) == IF p \in Threads THEN "got" ELSE "reopen"

(***************************************************************************)
(* create_and_seal of the recovered bytes, under this connection's mutex   *)
(* and interleaved with the other connection as in module Plasma.          *)
(***************************************************************************)
ResealCheck(p) ==
    /\ pc[p] = "reseal"
    /\ Free(p)
    /\ \/ /\ plasma[obj[p]].st = "absent"
          /\ lock' = [lock EXCEPT ![Conn(p)] = p]
          /\ Meets(p, obj[p])
          /\ Goto(p, "insert")
       \/ /\ plasma[obj[p]].st # "absent"     \* AlreadyExists is benign
          /\ Goto(p, Resealed(p))
          /\ UNCHANGED <<lock, met>>
    /\ UNCHANGED <<refs, index, plasma, spilled, file, known, down, firm, buf, minting, todo, over>>

\* Mutant of ResealInsert: the entry is readable before its bytes are.
ResealInsertSealed(p) ==
    /\ pc[p] = "insert"
    /\ plasma' = [plasma EXCEPT ![obj[p]] = [st |-> "sealed", by |-> p, bytes |-> "torn"]]
    /\ Goto(p, "write")
    /\ UNCHANGED <<refs, index, spilled, file, lock, known, met, down, firm, buf, minting, todo, over>>

ResealInsert(p) ==
    /\ pc[p] = "insert"
    /\ plasma' = [plasma EXCEPT ![obj[p]] = [st |-> "unsealed", by |-> p, bytes |-> "torn"]]
    /\ Goto(p, "write")
    /\ UNCHANGED <<refs, index, spilled, file, lock, known, met, down, firm, buf, minting, todo, over>>

\* The bytes go to p's own slot, which may no longer be the entry's.
ResealWrite(p) ==
    /\ pc[p] = "write"
    /\ plasma' = [plasma EXCEPT ![obj[p]].bytes =
                     IF plasma[obj[p]].by = p THEN buf[p] ELSE @]
    /\ Goto(p, "seal")
    /\ UNCHANGED <<refs, index, spilled, file, lock, known, met, down, firm, buf, minting, todo, over>>

ResealSeal(p) ==
    /\ pc[p] = "seal"
    /\ lock' = [lock EXCEPT ![Conn(p)] = None]
    /\ \/ /\ plasma[obj[p]].st = "unsealed"
          /\ plasma' = [plasma EXCEPT ![obj[p]].st = "sealed"]
          /\ Goto(p, Resealed(p))
       \/ /\ plasma[obj[p]].st # "unsealed"   \* NotFound or AlreadySealed
          /\ Goto(p, "failed")
          /\ UNCHANGED plasma
    /\ UNCHANGED <<refs, index, spilled, file, known, met, down, firm, buf, minting, todo, over>>

Reopen(r) ==
    LET e == plasma[obj[r]] IN
    /\ pc[r] = "reopen"
    /\ Free(r)
    /\ \/ /\ e.st = "sealed"
          /\ buf' = [buf EXCEPT ![r] = e.bytes]
          /\ Goto(r, "got")
       \/ /\ e.st # "sealed"
          /\ Goto(r, "failed")
          /\ UNCHANGED buf
    /\ UNCHANGED <<refs, index, plasma, spilled, file, lock, known, met, down, firm, minting, todo, over>>

Return(p) ==
    /\ pc[p] \in Outcomes
    /\ Done(p)
    /\ buf' = [buf EXCEPT ![p] = "none"]
    /\ UNCHANGED <<refs, index, plasma, spilled, file, lock, known, met, down, firm, minting, todo, over>>

-----------------------------------------------------------------------------
(***************************************************************************)
(* Dropping a pin.  The table entry goes first, under the table's mutex;   *)
(* if it was the last pin, free_unpinned then removes the index entry, the *)
(* plasma copy and, in the free callback, the spill record and its file.   *)
(* A thread inside rayd.get keeps its ObjectRef alive.                     *)
(***************************************************************************)
Resolving(i) == \E t \in Threads : obj[t] = i /\ pc[t] \in GetSteps

DropRef(t, i) ==
    /\ ~down
    /\ i \in known
    /\ refs[i].local > 0
    /\ ~Resolving(i)
    /\ refs' = [refs EXCEPT ![i] = DecLocal(@)]
    /\ \/ DecLocalFrees(refs[i]) /\ Begin(t, i, "free_index")
       \/ ~DecLocalFrees(refs[i]) /\ pc[t] = "idle" /\ UNCHANGED <<pc, obj>>
    /\ UNCHANGED <<index, plasma, spilled, file, lock, known, met, down, firm, buf, minting, todo, over>>

\* The owner answers for i: it has a reference of its own, or a peer that
\* registered while it answered for i has not yet dropped its copy.
Held(i) == refs[i].local > 0 \/ firm[i] # {}

\* RegisterObject from peer w (OwnerSink::add_borrower).
RegisterBorrower(w, i) ==
    /\ i \in known
    /\ refs' = [refs EXCEPT ![i] = AddBorrower(@, w)]
    /\ firm' = [firm EXCEPT ![i] = IF Held(i) THEN @ \cup {w} ELSE @]
    /\ UNCHANGED <<index, plasma, spilled, file, lock, known, met, down, proc>>

\* WaitForRefRemoved from peer w (OwnerSink::remove_borrower), on thread t.
DropBorrower(t, w, i) ==
    /\ w \in refs[i].borrowers
    /\ refs' = [refs EXCEPT ![i] = RemoveBorrower(@, w)]
    /\ firm' = [firm EXCEPT ![i] = @ \ {w}]
    /\ \/ RemoveBorrowerFrees(refs[i], w) /\ Begin(t, i, "free_index")
       \/ ~RemoveBorrowerFrees(refs[i], w) /\ pc[t] = "idle" /\ UNCHANGED <<pc, obj>>
    /\ UNCHANGED <<index, plasma, spilled, file, lock, known, met, down, buf, minting, todo, over>>

FreeIndex(t) ==
    /\ pc[t] = "free_index"
    /\ index' = index \ {obj[t]}
    /\ Goto(t, "free_plasma")
    /\ UNCHANGED <<refs, plasma, spilled, file, lock, known, met, down, firm, buf, minting, todo, over>>

\* Mutant of FreePlasma: the copy is left when the mutex is taken.
FreePlasmaTryLock(t) ==
    /\ pc[t] = "free_plasma"
    /\ plasma' = [plasma EXCEPT ![obj[t]] = IF Free(t) THEN Absent ELSE @]
    /\ Goto(t, "forget_dir")
    /\ UNCHANGED <<refs, index, spilled, file, lock, known, met, down, firm, buf, minting, todo, over>>

FreePlasma(t) ==
    /\ pc[t] = "free_plasma"
    /\ Free(t)
    /\ plasma' = [plasma EXCEPT ![obj[t]] = Absent]
    /\ Goto(t, "forget_dir")
    /\ UNCHANGED <<refs, index, spilled, file, lock, known, met, down, firm, buf, minting, todo, over>>

\* LocalObjectManager::forget, reached through the session while there is one.
ForgetDir(t) ==
    /\ pc[t] = "forget_dir"
    /\ IF ~down /\ obj[t] \in spilled
       THEN spilled' = spilled \ {obj[t]} /\ Goto(t, "forget_file")
       ELSE UNCHANGED spilled /\ Done(t)
    /\ UNCHANGED <<refs, index, plasma, file, lock, known, met, down, firm, buf, minting, todo, over>>

ForgetFile(t) ==
    /\ pc[t] = "forget_file"
    /\ file' = [file EXCEPT ![obj[t]] = "none"]
    /\ Done(t)
    /\ UNCHANGED <<refs, index, plasma, spilled, lock, known, met, down, firm, buf, minting, todo, over>>

(***************************************************************************)
(* rayd.shutdown: the session is taken, then free_all_local drains the     *)
(* reference table in one step and evicts what it held, index then plasma, *)
(* without the free callback.  Calls already under way carry on.           *)
(***************************************************************************)
Shutdown(t) ==
    /\ ~down
    /\ pc[t] = "idle"
    /\ down' = TRUE
    /\ todo' = [todo EXCEPT ![t] = {i \in Ids : refs[i].tracked}]
    /\ refs' = [i \in Ids |-> Untracked]
    /\ met' = Ids
    /\ firm' = [i \in Ids |-> {}]
    /\ Goto(t, "evict")
    /\ UNCHANGED <<index, plasma, spilled, file, lock, known, buf, minting, over>>

EvictIndex(t, i) ==
    /\ pc[t] = "evict"
    /\ i \in todo[t]
    /\ todo' = [todo EXCEPT ![t] = @ \ {i}]
    /\ index' = index \ {i}
    /\ pc' = [pc EXCEPT ![t] = "evict_plasma"]
    /\ obj' = [obj EXCEPT ![t] = i]
    /\ UNCHANGED <<refs, plasma, spilled, file, lock, known, met, down, firm, buf, minting, over>>

EvictPlasma(t) ==
    /\ pc[t] = "evict_plasma"
    /\ Free(t)
    /\ plasma' = [plasma EXCEPT ![obj[t]] = Absent]
    /\ Goto(t, "evict")
    /\ UNCHANGED <<refs, index, spilled, file, lock, known, met, down, firm, buf, minting, todo, over>>

EvictDone(t) ==
    /\ pc[t] = "evict"
    /\ todo[t] = {}
    /\ Done(t)
    /\ UNCHANGED <<refs, index, plasma, spilled, file, lock, known, met, down, firm, buf, minting, todo, over>>

-----------------------------------------------------------------------------
ThreadStep(t) ==
    \/ \E i \in Ids : Put(t, i) \/ PickVictim(t, i) \/ Get(t, i) \/ DropRef(t, i)
                      \/ EvictIndex(t, i)
    \/ \E i \in Ids, w \in Borrowers : DropBorrower(t, w, i)
    \/ PutIndex(t) \/ PutOwn(t) \/ PressureCheck(t) \/ PressureDone(t)
    \/ SpillRead(t) \/ SpillFile(t) \/ SpillFileFails(t) \/ SpillDir(t) \/ SpillDelete(t)
    \/ FreeIndex(t) \/ FreePlasma(t) \/ ForgetDir(t) \/ ForgetFile(t)
    \/ Shutdown(t) \/ EvictPlasma(t) \/ EvictDone(t)

PullerStep(r) == Reopen(r) \/ \E i \in Ids : Pull(r, i)

ResolveStep(p) ==
    \/ ReadPlasma(p) \/ RestoreLookup(p) \/ RestoreRead(p) \/ RestoreFails(p) \/ RestorePurge(p)
    \/ ResealCheck(p) \/ ResealInsert(p) \/ ResealWrite(p) \/ ResealSeal(p) \/ Return(p)

Next ==
    \/ \E t \in Threads : ThreadStep(t)
    \/ \E r \in Pullers : PullerStep(r)
    \/ \E p \in Procs : ResolveStep(p)
    \/ \E w \in Borrowers, i \in Ids : RegisterBorrower(w, i)

Spec == Init /\ [][Next]_vars

-----------------------------------------------------------------------------
(***************************************************************************)
(* No held object is lost: its index entry stays and its bytes are in      *)
(* plasma or in a spill record that leads to a file, through every         *)
(* interleaving of put, spill, restore, free and Pull (core_worker.rs).    *)
(***************************************************************************)
NotForgotten ==
    \A i \in Ids : Held(i) =>
        /\ i \in index
        /\ plasma[i].st = "sealed" \/ (i \in spilled /\ file[i] # "none")

Whole(i) ==
    /\ plasma[i].st = "sealed" => plasma[i].bytes = "whole"
    /\ file[i] # "torn"

(***************************************************************************)
(* The copy that a held object has, in plasma or in its spill file, is the *)
(* object, wherever the entry is sealed (spill, recover_and_reseal), save  *)
(* where both connections resealed it at once, until shutdown.             *)
(***************************************************************************)
CopiesWhole == \A i \in Ids \ met : Whole(i)

\* The same of every copy: recover_and_reseal's comment has a stale view "surface
\* as a miss rather than a corruption".
NeverTorn == \A i \in Ids : Whole(i)

(***************************************************************************)
(* rayd.get of an object whose ObjectRef the caller holds returns that     *)
(* object, never an error, unless the runtime is shutting down, the spill  *)
(* file cannot be read, or the raylet was half-way through resealing the   *)
(* same object (resolve_entry, recover_and_reseal).                        *)
(***************************************************************************)
PinnedResolves ==
    \A t \in Threads : ~down /\ obj[t] \notin met =>
        /\ pc[t] # "failed"
        /\ pc[t] = "got" => buf[t] = "whole"

(***************************************************************************)
(* Once every process is idle, an object that nothing pins has left the    *)
(* index and the shared memory, whatever spills, restores and gets ran     *)
(* beside the drop of its last pin (free_unpinned).  A copy that the       *)
(* raylet resealed for a peer is excepted: it asks nobody for pins.        *)
(***************************************************************************)
Quiet == \A p \in Procs : pc[p] = "idle"
FreedIsGone ==
    Quiet /\ ~down => \A i \in known :
        Pinned(refs[i]) \/ (i \notin index /\ (plasma[i] = Absent \/ plasma[i].by \in Pullers))
=============================================================================
