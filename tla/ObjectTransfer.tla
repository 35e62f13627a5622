--------------------------- MODULE ObjectTransfer ---------------------------
(***************************************************************************)
(* One object shared between drivers: the node that owns it puts it, other *)
(* nodes receive its ObjectRef, fetch a replica from whoever the owner's   *)
(* directory lists, register as holders, and tell the owner when they drop *)
(* the ref (rayd-py lib.rs and gcs.rs, the raylet's service.rs and         *)
(* directory.rs, RefCounter at every node).  fetch_object and ObjectRef's  *)
(* drop keep the GIL, so a node's Python side is one sequential process;   *)
(* the handlers of the owner's raylet run beside it.  A node has at most   *)
(* one ObjectRef to the object at a time.                                  *)
(***************************************************************************)
EXTENDS RefCounter, FiniteSets

CONSTANTS
    Owner,      \* the node that owns the object; the others are Borrowers
    MaxFaults   \* bound on the number of faults

ASSUME TransferAssumption == Owner \notin Borrowers /\ MaxFaults \in Nat

Nodes == Borrowers \cup {Owner}

VARIABLES
    made,       \* the object: fresh, put, a remote actor call's result pending or sealed
    held,       \* held[n]: node n has an ObjectRef
    copy,       \* copy[n]: the object is in n's plasma store
    index,      \* index[n]: n's memory store has an entry for it
    entry,      \* entry[n]: n's reference table entry
    dir,        \* holders listed in the directory of the owner's raylet
    proc,       \* proc[n]: what n's Python side is doing
    calls,      \* RegisterObject and WaitForRefRemoved calls at the owner
    up,         \* nodes that are running
    doomed,     \* the owner's table has reported that the object is to be freed
    backed,     \* nodes whose pin was taken before that and that kept their ref
    faults      \* what went wrong so far: <<kind, node>>

vars == <<made, held, copy, index, entry, dir, proc, calls, up, doomed, backed, faults>>

Idle == [at |-> "idle", holder |-> Owner]

\* gate .. resolve are the steps of get, free and notify those of drop.
Places == {"idle", "gate", "locate", "pull", "notfound", "seal", "register",
           "registering", "resolve", "free", "forget", "notify", "notifying"}

\* A call being served: what is left of it, and whether the caller still waits.
CallRec == [op : {"register", "removed"}, from : Borrowers,
            step : {"directory", "pin", "free", "forget", "done"}, waiting : BOOLEAN]

FaultKinds == {"lost", "late", "push", "evict", "gone"}

TypeOK ==
    /\ made \in {"fresh", "put", "pending", "result"} /\ doomed \in BOOLEAN
    /\ {held, copy, index} \subseteq [Nodes -> BOOLEAN]
    /\ entry \in [Nodes -> OwnerEntry]
    /\ dir \subseteq Nodes /\ up \subseteq Nodes /\ backed \subseteq Borrowers
    /\ proc \in [Nodes -> [at : Places, holder : Nodes]]
    /\ calls \subseteq CallRec
    /\ faults \subseteq FaultKinds \X Nodes

\* A put that has yet to happen, or an actor call whose caller already has the
\* ref of the result.
Init ==
    /\ \/ made = "fresh" /\ held = [n \in Nodes |-> FALSE]
       \/ made = "pending" /\ \E b \in Borrowers : held = [n \in Nodes |-> n = b]
    /\ copy = [n \in Nodes |-> FALSE]
    /\ index = [n \in Nodes |-> FALSE]
    /\ entry = [n \in Nodes |-> Untracked]
    /\ dir = {}
    /\ proc = [n \in Nodes |-> Idle]
    /\ calls = {}
    /\ up = Nodes
    /\ doomed = FALSE
    /\ backed = {}
    /\ faults = {}

At(n, p) == n \in up /\ proc[n].at = p
Goto(n, p) == proc' = [proc EXCEPT ![n] = [Idle EXCEPT !.at = p]]
Fault(k, n) == Cardinality(faults) < MaxFaults /\ faults' = faults \cup {<<k, n>>}

history == <<doomed, backed, faults>>

-----------------------------------------------------------------------------
(***************************************************************************)
(* The object appears.                                                     *)
(***************************************************************************)

\* seal_value_to_plasma once the create has succeeded, at node n.
SealLocal(n) ==
    /\ copy' = [copy EXCEPT ![n] = TRUE]
    /\ index' = [index EXCEPT ![n] = TRUE]
    /\ entry' = [entry EXCEPT ![n] = AddOwned(@)]

\* put with a GCS attached: seal, register_self_local, and a ref.
Put ==
    /\ made = "fresh" /\ At(Owner, "idle")
    /\ made' = "put"
    /\ SealLocal(Owner)
    /\ dir' = dir \cup {Owner}
    /\ held' = [held EXCEPT ![Owner] = TRUE]
    /\ UNCHANGED <<proc, calls, up, history>>

\* The actor's process has sealed a result and the owner's reader records it
\* (_record_plasma_seal); no ref exists at the owner.
RecordPlasmaSeal ==
    /\ made = "pending" /\ Owner \in up
    /\ made' = "result"
    /\ SealLocal(Owner)
    /\ dir' = dir \cup {Owner}
    /\ UNCHANGED <<held, proc, calls, up, history>>

\* A pickled ref, wherever it was kept, is loaded at n: a new ObjectRef with
\* owns_count and no pin of its own.
Receive(n) ==
    /\ made # "fresh" /\ At(n, "idle") /\ ~held[n]
    /\ held' = [held EXCEPT ![n] = TRUE]
    /\ UNCHANGED <<made, copy, index, entry, dir, proc, calls, up, history>>

-----------------------------------------------------------------------------
(***************************************************************************)
(* get of a ref with a remote owner.                                       *)
(***************************************************************************)

state == <<made, held, copy, index, entry, dir, up>>

Get(n) ==
    /\ n # Owner /\ At(n, "idle") /\ held[n]
    /\ Goto(n, "gate")
    /\ UNCHANGED <<state, calls, history>>

\* The liveness gate of _resolve_remote_ref; its view of a dead owner is stale
\* for a while.
Gate(n) ==
    /\ At(n, "gate")
    /\ \/ Goto(n, "locate")
       \/ Owner \notin up /\ Goto(n, "idle")
    /\ UNCHANGED <<state, calls, history>>

\* The holder to pull from: any that is not the caller, the caller itself if it
\* is the only one.
Candidates(n) == IF dir = {n} THEN dir ELSE dir \ {n}

\* get_object_locations at the owner, and the choice.
Locate(n) ==
    /\ At(n, "locate") /\ Owner \in up /\ dir # {}
    /\ \E h \in Candidates(n) :
          proc' = [proc EXCEPT ![n] = [at |-> "pull", holder |-> h]]
    /\ UNCHANGED <<state, calls, history>>

\* "no holder registered" until the retries' deadline.
NoHolder(n) ==
    /\ At(n, "locate") /\ Owner \in up /\ dir = {}
    /\ Goto(n, "idle")
    /\ UNCHANGED <<state, calls, history>>

\* A read call that fails on the way, or whose server is gone.
ReadFails(n) ==
    /\ At(n, "locate") \/ At(n, "pull")
    /\ Goto(n, "idle")
    /\ UNCHANGED <<state, calls, history>>

\* Pull at the holder: the bytes, or NotFound.
Pull(n) ==
    /\ At(n, "pull") /\ proc[n].holder \in up
    /\ Goto(n, IF copy[proc[n].holder] THEN "seal" ELSE "notfound")
    /\ UNCHANGED <<state, calls, history>>

\* fetch_object raises, and _fetch_with_retries passes it on.
NotFoundRaises(n) ==
    /\ At(n, "notfound")
    /\ Goto(n, "idle")
    /\ UNCHANGED <<state, calls, history>>

\* Mutant of Seal: the replica is not entered in the memory store.
SealUnindexed(n) ==
    /\ At(n, "seal")
    /\ copy' = [copy EXCEPT ![n] = TRUE]
    /\ entry' = [entry EXCEPT ![n] = IF copy[n] THEN @ ELSE AddOwned(@)]
    /\ Goto(n, "register")
    /\ UNCHANGED <<made, held, index, dir, up, calls, history>>

\* The bytes go to local plasma; AlreadyExists is taken for success.
Seal(n) ==
    /\ At(n, "seal")
    /\ IF copy[n] THEN UNCHANGED <<copy, index, entry>> ELSE SealLocal(n)
    /\ Goto(n, "register")
    /\ UNCHANGED <<made, held, dir, up, calls, history>>

\* A call to the owner's raylet that the caller waits for.
Send(n, op, p) ==
    /\ calls' = calls \cup {[op |-> op, from |-> n, step |-> "directory", waiting |-> TRUE]}
    /\ Goto(n, p)

\* register_object_at.
Register(n) ==
    /\ At(n, "register")
    /\ IF Owner \in up THEN Send(n, "register", "registering")
       ELSE Goto(n, "idle") /\ UNCHANGED calls
    /\ UNCHANGED <<state, history>>

\* The blocking native get of the entry that the fetch left.
Resolve(n) ==
    /\ At(n, "resolve") /\ index[n]
    /\ Goto(n, "idle")
    /\ UNCHANGED <<state, calls, history>>

-----------------------------------------------------------------------------
(***************************************************************************)
(* Dropping a ref.                                                         *)
(***************************************************************************)

\* Where the drop goes on once the local side is done.
AfterDrop(n) == IF n = Owner THEN "idle" ELSE "notify"

\* dec_local_ref, and whether it freed the object.
Drop(n) ==
    /\ At(n, "idle") /\ held[n]
    /\ held' = [held EXCEPT ![n] = FALSE]
    /\ entry' = [entry EXCEPT ![n] = DecLocal(@)]
    /\ Goto(n, IF DecLocalFrees(entry[n]) THEN "free" ELSE AfterDrop(n))
    /\ doomed' = (doomed \/ (n = Owner /\ DecLocalFrees(entry[n])))
    /\ backed' = backed \ {n}
    /\ UNCHANGED <<made, copy, index, dir, up, calls, faults>>

\* free_unpinned up to its callback.
DeleteLocal(n) ==
    /\ copy' = [copy EXCEPT ![n] = FALSE]
    /\ index' = [index EXCEPT ![n] = FALSE]

Free(n) ==
    /\ At(n, "free")
    /\ DeleteLocal(n)
    /\ Goto(n, IF n = Owner THEN "forget" ELSE "notify")
    /\ UNCHANGED <<made, held, entry, dir, up, calls, history>>

\* Mutant of Forget: the callback leaves the directory alone.
ForgetNothing ==
    /\ At(Owner, "forget")
    /\ Goto(Owner, "idle")
    /\ UNCHANGED <<made, held, copy, index, entry, dir, up, calls, history>>

\* The free callback: deregister_self.
Forget ==
    /\ At(Owner, "forget")
    /\ dir' = dir \ {Owner}
    /\ Goto(Owner, "idle")
    /\ UNCHANGED <<made, held, copy, index, entry, up, calls, history>>

\* notify_owner_of_drop.
Notify(n) ==
    /\ At(n, "notify")
    /\ IF Owner \in up THEN Send(n, "removed", "notifying")
       ELSE Goto(n, "idle") /\ UNCHANGED calls
    /\ UNCHANGED <<state, history>>

-----------------------------------------------------------------------------
(***************************************************************************)
(* The handlers of the owner's raylet, for a call c.                       *)
(***************************************************************************)

\* c goes on to step p; a finished call nobody waits for disappears.
Served(c, p) ==
    calls' = (calls \ {c}) \cup (IF p = "done" /\ ~c.waiting THEN {} ELSE {[c EXCEPT !.step = p]})

\* The directory's half of register_object and wait_for_ref_removed.
ServeDirectory(c) ==
    /\ c.step = "directory"
    /\ dir' = IF c.op = "register" THEN dir \cup {c.from} ELSE dir \ {c.from}
    /\ Served(c, "pin")
    /\ UNCHANGED <<made, held, copy, index, entry, up, proc, history>>

\* Mutant of AddPin: the raylet has no owner sink.
AddPinNoSink(c) ==
    /\ c.op = "register" /\ c.step = "pin"
    /\ backed' = IF doomed THEN backed ELSE backed \cup {c.from}
    /\ Served(c, "done")
    /\ UNCHANGED <<made, held, copy, index, entry, dir, up, proc, doomed, faults>>

\* sink.add_borrower, which also creates the entry of an object freed before.
AddPin(c) ==
    /\ c.op = "register" /\ c.step = "pin"
    /\ entry' = [entry EXCEPT ![Owner] = AddBorrower(@, c.from)]
    /\ backed' = IF doomed THEN backed ELSE backed \cup {c.from}
    /\ Served(c, "done")
    /\ UNCHANGED <<made, held, copy, index, dir, up, proc, doomed, faults>>

\* Mutant of RemovePin: what remove_borrower returns is ignored.
RemovePinKeeps(c) ==
    /\ c.op = "removed" /\ c.step = "pin"
    /\ entry' = [entry EXCEPT ![Owner] = RemoveBorrower(@, c.from)]
    /\ Served(c, "done")
    /\ UNCHANGED <<made, held, copy, index, dir, up, proc, history>>

\* sink.remove_borrower, and whether it freed the object.
RemovePin(c) ==
    LET frees == RemoveBorrowerFrees(entry[Owner], c.from)
    IN /\ c.op = "removed" /\ c.step = "pin"
       /\ entry' = [entry EXCEPT ![Owner] = RemoveBorrower(@, c.from)]
       /\ doomed' = (doomed \/ frees)
       /\ Served(c, IF frees THEN "free" ELSE "done")
       /\ UNCHANGED <<made, held, copy, index, dir, up, proc, backed, faults>>

ServeFree(c) ==
    /\ c.step = "free"
    /\ DeleteLocal(Owner)
    /\ Served(c, "forget")
    /\ UNCHANGED <<made, held, entry, dir, up, proc, history>>

ServeForget(c) ==
    /\ c.step = "forget"
    /\ dir' = dir \ {Owner}
    /\ Served(c, "done")
    /\ UNCHANGED <<made, held, copy, index, entry, up, proc, history>>

\* The reply reaches the caller: get goes on, drop is over.
Reply(c) ==
    /\ c.step = "done" /\ c.waiting
    /\ calls' = calls \ {c}
    /\ Goto(c.from, IF c.op = "register" THEN "resolve" ELSE "idle")
    /\ UNCHANGED <<state, history>>

Serve(c) ==
    \/ ServeDirectory(c) \/ AddPin(c) \/ RemovePin(c) \/ ServeFree(c) \/ ServeForget(c)
    \/ Reply(c)

-----------------------------------------------------------------------------
(***************************************************************************)
(* Faults.                                                                 *)
(***************************************************************************)

\* The caller sees an error before the request was served: it is lost, or
\* served later.  get raises, drop logs and goes on.
CallFails(c) ==
    /\ c.waiting /\ c.step = "directory"
    /\ \/ calls' = calls \ {c} /\ Fault("lost", c.from)
       \/ calls' = (calls \ {c}) \cup {[c EXCEPT !.waiting = FALSE]} /\ Fault("late", c.from)
    /\ Goto(c.from, "idle")
    /\ UNCHANGED <<state, doomed, backed>>

\* push_object to n's raylet: the bytes enter plasma and nothing else.
Push(n) ==
    /\ made \in {"put", "result"} /\ n \in up
    /\ Fault("push", n)
    /\ copy' = [copy EXCEPT ![n] = TRUE]
    /\ UNCHANGED <<made, held, index, entry, dir, up, proc, calls, doomed, backed>>

\* Evict at n's raylet: the bytes leave plasma and nothing else changes.
Evict(n) ==
    /\ n \in up /\ copy[n]
    /\ Fault("evict", n)
    /\ copy' = [copy EXCEPT ![n] = FALSE]
    /\ UNCHANGED <<made, held, index, entry, dir, up, proc, calls, doomed, backed>>

\* n crashes, or shuts down: no owner hears of the refs it held.
Leave(n) ==
    /\ n \in up
    /\ Fault("gone", n)
    /\ up' = up \ {n}
    /\ held' = [held EXCEPT ![n] = FALSE]
    /\ copy' = [copy EXCEPT ![n] = FALSE]
    /\ index' = [index EXCEPT ![n] = FALSE]
    /\ entry' = [entry EXCEPT ![n] = Untracked]
    /\ dir' = IF n = Owner THEN {} ELSE dir
    /\ calls' = IF n = Owner THEN {}
                ELSE {[c EXCEPT !.waiting = @ /\ c.from # n] : c \in {c \in calls : c.from # n \/ c.step # "done"}}
    /\ proc' = [m \in Nodes |->
          IF m = n \/ (n = Owner /\ proc[m].at \in {"registering", "notifying"}) THEN Idle ELSE proc[m]]
    /\ UNCHANGED <<made, doomed, backed>>

-----------------------------------------------------------------------------
GetStep(n) ==
    \/ Gate(n) \/ Locate(n) \/ NoHolder(n) \/ ReadFails(n) \/ Pull(n) \/ NotFoundRaises(n)
    \/ Seal(n) \/ Register(n) \/ Resolve(n)

DropStep(n) == Free(n) \/ Notify(n)

Next ==
    \/ Put \/ RecordPlasmaSeal \/ Forget
    \/ \E n \in Nodes : Receive(n) \/ Get(n) \/ GetStep(n) \/ Drop(n) \/ DropStep(n)
    \/ \E c \in calls : Serve(c) \/ CallFails(c)
    \/ \E n \in Nodes : Push(n) \/ Evict(n) \/ Leave(n)

Spec == Init /\ [][Next]_vars

-----------------------------------------------------------------------------
(***************************************************************************)
(* Properties.                                                             *)
(***************************************************************************)

NoFault(kinds, n) == \A k \in kinds : <<k, n>> \notin faults

(***************************************************************************)
(* A borrower that registered before the owner let go of the object, and   *)
(* still has its ref, keeps the owner's copy: neither the owner's drop nor *)
(* another borrower's removal frees it.  Excepted are an owner that left   *)
(* or was told to evict, and a borrower one of whose removals was reported *)
(* failed and served after all.                                            *)
(***************************************************************************)
PinHolds ==
    \A b \in backed : held[b] /\ NoFault({"late", "gone"}, b) /\ NoFault({"evict", "gone"}, Owner)
        => ~doomed /\ copy[Owner] /\ Owner \in dir

\* Nothing is under way.
Quiet == calls = {} /\ \A n \in Nodes : proc[n].at = "idle"

(***************************************************************************)
(* At rest and after no fault the owner's directory lists exactly the      *)
(* nodes that have the object, so a fetch that starts then finds a holder  *)
(* that can serve it.                                                      *)
(***************************************************************************)
DirectoryExact == Quiet /\ faults = {} => dir = {n \in Nodes : copy[n]}

(***************************************************************************)
(* Nothing is left of an object that was put, once every ref to it in the  *)
(* cluster is dropped and no fault occurred: no copy, no index entry, no   *)
(* pin, no directory entry (phantom pins of late registrations included).  *)
(***************************************************************************)
Reclaimed ==
    Quiet /\ faults = {} /\ made = "put" /\ (\A n \in Nodes : ~held[n]) =>
        /\ dir = {}
        /\ \A n \in Nodes : ~copy[n] /\ ~index[n] /\ entry[n] = Untracked

(***************************************************************************)
(* A get whose fetch succeeded finds the entry it then waits for without a *)
(* timeout, unless somebody pushed the object into its store: fetch_object *)
(* takes AlreadyExists for success and leaves the memory store alone.      *)
(***************************************************************************)
FetchedIsIndexed ==
    \A n \in Nodes : proc[n].at = "resolve" /\ NoFault({"push"}, n) => index[n]

(***************************************************************************)
(* The raylet's comment on stale directory entries: the peer replies       *)
(* NotFound and the puller retries.                                        *)
(***************************************************************************)
PullerRetries ==
    [][\A n \in Borrowers : proc[n].at = "notfound" /\ proc'[n].at # "notfound" /\ n \in up'
          => proc'[n].at = "locate"]_vars
=============================================================================
