-------------------------- MODULE ActorSubprocess --------------------------
(***************************************************************************)
(* An actor: the driver's _ActorSubprocess (calling threads, one reader    *)
(* thread per incarnation, terminate) and the actor process it spawns and  *)
(* respawns.                                                               *)
(*                                                                         *)
(* Incarnation g has its own socket: wire[g] holds the frames sent to it,  *)
(* replies[g] its completions.  Each call has its own caller thread and    *)
(* result object.  plasma is the shared store, index the driver's store,   *)
(* owned[g] what the process's own RefCounter tracks; a process that ends  *)
(* through main's finally evicts its owned objects, a crashed one does not.*)
(* lock is _state_lock as held across steps; the sections that only hold   *)
(* it briefly are single steps that need it free.                          *)
(***************************************************************************)
EXTENDS Naturals, Sequences

CONSTANTS
    Calls,        \* method calls, each with its result object
    MaxRestarts,
    MaxCrashes,   \* bound: crashes of actor processes
    CrashPoints,  \* the process states in which it may crash
    MayTerminate, \* whether the program terminates the actor
    None

ASSUME ActorAssumption ==
    /\ MaxRestarts \in Nat /\ MaxCrashes \in Nat /\ MayTerminate \in BOOLEAN
    /\ CrashPoints \subseteq {"spawning", "ready", "method", "sealed"}
    /\ None \notin Calls /\ None \notin 1 .. MaxRestarts + 1 /\ "shutdown" \notin Calls

Gens == 1 .. MaxRestarts + 1

VARIABLES
    terminated, dead, restarts, inFlight, gen, lock,  \* _ActorSubprocess
    registered,                \* its entry in the actor registry and the GCS
    call, reader, term,        \* caller, reader and terminating threads
    proc, running, owned,      \* actor processes
    wire, shut, replies,       \* the sockets; shut: write side closed
    plasma, index, crashes

runner == <<terminated, dead, restarts, inFlight, gen, lock, registered>>
procs  == <<proc, running, owned>>
socks  == <<wire, shut, replies>>
stores == <<plasma, index>>
vars   == <<runner, call, reader, term, procs, socks, stores, crashes>>

ProcPcs   == {"unborn", "spawning", "ready", "method", "sealed", "exit", "evict", "gone"}
ReaderPcs == {"none", "reading", "record", "seal", "reap", "respawn", "closed"}
TermPcs   == {"none", "send", "shut", "join", "wait", "close", "done"}

TypeOK ==
    /\ terminated \in BOOLEAN /\ dead \in BOOLEAN /\ registered \in BOOLEAN
    /\ restarts \in 0 .. MaxRestarts /\ gen \in Gens
    /\ inFlight \subseteq Calls
    /\ lock \in Gens \cup {None}
    /\ call \in [Calls -> [pc : {"new", "send", "sent", "raised"}, gen : Gens]]
    /\ reader \in [Gens -> [pc : ReaderPcs, oid : Calls \cup {None}, todo : SUBSET Calls]]
    /\ term \in [pc : TermPcs, gen : Gens]
    /\ proc \in [Gens -> ProcPcs] /\ running \in [Gens -> Calls \cup {None}]
    /\ owned \in [Gens -> SUBSET Calls]
    /\ wire \in [Gens -> Seq(Calls \cup {"shutdown"})] /\ replies \in [Gens -> Seq(Calls)]
    /\ shut \in [Gens -> BOOLEAN]
    /\ plasma \in [Calls -> {"absent", "value", "error"}] /\ index \subseteq Calls
    /\ crashes \in 0 .. MaxCrashes

Init ==
    /\ terminated = FALSE /\ dead = FALSE /\ registered = TRUE
    /\ restarts = 0 /\ gen = 1 /\ inFlight = {} /\ lock = None
    /\ call = [c \in Calls |-> [pc |-> "new", gen |-> 1]]
    /\ reader = [g \in Gens |-> [pc |-> IF g = 1 THEN "reading" ELSE "none", oid |-> None, todo |-> {}]]
    /\ term = [pc |-> "none", gen |-> 1]
    /\ proc = [g \in Gens |-> IF g = 1 THEN "spawning" ELSE "unborn"]
    /\ running = [g \in Gens |-> None] /\ owned = [g \in Gens |-> {}]
    /\ wire = [g \in Gens |-> <<>>] /\ replies = [g \in Gens |-> <<>>]
    /\ shut = [g \in Gens |-> FALSE]
    /\ plasma = [c \in Calls |-> "absent"] /\ index = {}
    /\ crashes = 0

PeerOpen(g)   == proc[g] \in {"spawning", "ready", "method", "sealed", "exit"}
DriverOpen(g) == reader[g].pc # "closed" /\ ~(term.pc = "done" /\ g = term.gen)

(***************************************************************************)
(* dispatch_call_with_oid.                                                 *)
(***************************************************************************)

DispatchCall(c) ==
    /\ call[c].pc = "new" /\ lock = None
    /\ IF terminated \/ dead
       THEN call' = [call EXCEPT ![c].pc = "raised"] /\ UNCHANGED inFlight
       ELSE /\ call' = [call EXCEPT ![c] = [pc |-> "send", gen |-> gen]]
            /\ inFlight' = inFlight \cup {c}
    /\ UNCHANGED <<terminated, dead, restarts, gen, lock, registered, reader, term, procs, socks, stores, crashes>>

\* The send on the socket read under the lock; a closed one raises OSError.
SendCall(c) ==
    LET g == call[c].gen
    IN  /\ call[c].pc = "send"
        /\ IF PeerOpen(g) /\ DriverOpen(g) /\ ~shut[g]
           THEN /\ wire' = [wire EXCEPT ![g] = Append(@, c)]
                /\ call' = [call EXCEPT ![c].pc = "sent"]
           ELSE call' = [call EXCEPT ![c].pc = "raised"] /\ UNCHANGED wire
        /\ UNCHANGED <<runner, reader, term, procs, shut, replies, stores, crashes>>

(***************************************************************************)
(* The actor process.                                                      *)
(***************************************************************************)

ActorSpawn(g) ==
    /\ proc[g] = "spawning"
    /\ proc' = [proc EXCEPT ![g] = "ready"]
    /\ UNCHANGED <<runner, call, reader, term, running, owned, socks, stores, crashes>>

\* _spawn_instance raises: the main loop ends.
ActorSpawnRaises(g) ==
    /\ proc[g] = "spawning"
    /\ proc' = [proc EXCEPT ![g] = "exit"]
    /\ UNCHANGED <<runner, call, reader, term, running, owned, socks, stores, crashes>>

\* The next frame, or end of file.
ActorRecv(g) ==
    /\ proc[g] = "ready"
    /\ \/ /\ wire[g] # <<>> /\ Head(wire[g]) \in Calls
          /\ proc' = [proc EXCEPT ![g] = "method"]
          /\ running' = [running EXCEPT ![g] = Head(wire[g])]
          /\ wire' = [wire EXCEPT ![g] = Tail(@)]
       \/ /\ IF wire[g] = <<>> THEN shut[g] ELSE Head(wire[g]) = "shutdown"
          /\ proc' = [proc EXCEPT ![g] = "exit"]
          /\ UNCHANGED <<running, wire>>
    /\ UNCHANGED <<runner, call, reader, term, owned, shut, replies, stores, crashes>>

\* Mutant of ActorSeal: a method that raises is reported but not sealed.
ActorSealSkipped(g) ==
    /\ proc[g] = "method"
    /\ proc' = [proc EXCEPT ![g] = "sealed"]
    /\ UNCHANGED <<runner, call, reader, term, running, owned, socks, stores, crashes>>

\* _worker_seal of the method's value or of the exception it raised.
ActorSeal(g) ==
    /\ proc[g] = "method" /\ plasma[running[g]] = "absent"
    /\ plasma' = [plasma EXCEPT ![running[g]] = "value"]
    /\ owned' = [owned EXCEPT ![g] = @ \cup {running[g]}]
    /\ proc' = [proc EXCEPT ![g] = "sealed"]
    /\ UNCHANGED <<runner, call, reader, term, running, socks, index, crashes>>

\* Mutant of ActorReply: an actor process forgets a completion.
ActorReplyLost(g) ==
    /\ proc[g] = "sealed"
    /\ running' = [running EXCEPT ![g] = None]
    /\ proc' = [proc EXCEPT ![g] = "ready"]
    /\ UNCHANGED <<runner, call, reader, term, owned, socks, stores, crashes>>

ActorReply(g) ==
    /\ proc[g] = "sealed"
    /\ replies' = [replies EXCEPT ![g] = Append(@, running[g])]
    /\ running' = [running EXCEPT ![g] = None]
    /\ proc' = [proc EXCEPT ![g] = "ready"]
    /\ UNCHANGED <<runner, call, reader, term, owned, wire, shut, stores, crashes>>

\* main's finally: close the socket, then rayd.shutdown() frees the objects.
ActorExit(g) ==
    /\ proc[g] = "exit"
    /\ proc' = [proc EXCEPT ![g] = "evict"]
    /\ wire' = [wire EXCEPT ![g] = <<>>]
    /\ UNCHANGED <<runner, call, reader, term, running, owned, shut, replies, stores, crashes>>

ActorEvict(g) ==
    /\ proc[g] = "evict"
    /\ proc' = [proc EXCEPT ![g] = "gone"]
    /\ plasma' = [c \in Calls |-> IF c \in owned[g] THEN "absent" ELSE plasma[c]]
    /\ owned' = [owned EXCEPT ![g] = {}]
    /\ UNCHANGED <<runner, call, reader, term, running, socks, index, crashes>>

\* The process is gone at once: a crash, or a kill by the driver.
Die(g) ==
    /\ proc' = [proc EXCEPT ![g] = "gone"]
    /\ running' = [running EXCEPT ![g] = None]
    /\ owned' = [owned EXCEPT ![g] = {}]
    /\ wire' = [wire EXCEPT ![g] = <<>>]

Crash(g) ==
    /\ crashes < MaxCrashes /\ proc[g] \in CrashPoints
    /\ Die(g)
    /\ crashes' = crashes + 1
    /\ UNCHANGED <<runner, call, reader, term, shut, replies, stores>>

(***************************************************************************)
(* The reader thread of incarnation g: _read_loop, _on_socket_closed.      *)
(***************************************************************************)

ReaderRecv(g) ==
    /\ reader[g].pc = "reading" /\ replies[g] # <<>> /\ lock = None
    /\ inFlight' = inFlight \ {Head(replies[g])}
    /\ reader' = [reader EXCEPT ![g].pc = "record", ![g].oid = Head(replies[g])]
    /\ replies' = [replies EXCEPT ![g] = Tail(@)]
    /\ UNCHANGED <<terminated, dead, restarts, gen, lock, registered, call, term, procs, wire, shut, stores, crashes>>

\* _record_plasma_seal.
ReaderRecord(g) ==
    /\ reader[g].pc = "record"
    /\ index' = index \cup {reader[g].oid}
    /\ reader' = [reader EXCEPT ![g].pc = "reading", ![g].oid = None]
    /\ UNCHANGED <<runner, call, term, procs, socks, plasma, crashes>>

\* End of file: a termination ends the reader, a crash takes the lock.
ReaderEof(g) ==
    /\ reader[g].pc = "reading" /\ replies[g] = <<>> /\ ~PeerOpen(g) /\ lock = None
    /\ IF terminated
       THEN reader' = [reader EXCEPT ![g].pc = "closed"] /\ UNCHANGED <<lock, inFlight>>
       ELSE /\ lock' = g /\ inFlight' = {}
            /\ reader' = [reader EXCEPT ![g].pc = "seal", ![g].todo = inFlight]
    /\ UNCHANGED <<terminated, dead, restarts, gen, registered, call, term, procs, socks, stores, crashes>>

\* _seal_actor_died, into plasma and the driver's store.  AlreadyExists is
\* raised through _on_socket_closed, which closes the socket and ends.
ReaderSeal(g) ==
    /\ reader[g].pc = "seal"
    /\ \E c \in reader[g].todo :
        IF plasma[c] = "absent"
        THEN /\ plasma' = [plasma EXCEPT ![c] = "error"] /\ index' = index \cup {c}
             /\ reader' = [reader EXCEPT ![g].todo = @ \ {c}]
             /\ UNCHANGED lock
        ELSE /\ reader' = [reader EXCEPT ![g].pc = "closed", ![g].todo = {}]
             /\ lock' = None /\ UNCHANGED stores
    /\ UNCHANGED <<terminated, dead, restarts, inFlight, gen, registered, call, term, procs, socks, crashes>>

\* proc.wait, with a kill after the timeout.
ReaderReap(g) ==
    /\ reader[g].pc = "seal" /\ reader[g].todo = {}
    /\ \/ proc[g] = "gone" /\ UNCHANGED <<procs, wire>>
       \/ proc[g] = "evict" /\ Die(g)
    /\ reader' = [reader EXCEPT ![g].pc = "reap"]
    /\ UNCHANGED <<runner, call, term, shut, replies, stores, crashes>>

\* Mutant of ReaderDecide: neither respawned nor marked dead.
ReaderDecideNever(g) ==
    /\ reader[g].pc = "reap"
    /\ reader' = [reader EXCEPT ![g].pc = "closed"] /\ lock' = None
    /\ UNCHANGED <<terminated, dead, inFlight, gen, restarts, registered, call, term, procs, socks, stores, crashes>>

\* Give up when the budget is spent, otherwise go on to respawn.
ReaderDecide(g) ==
    /\ reader[g].pc = "reap"
    /\ IF restarts >= MaxRestarts
       THEN /\ dead' = TRUE /\ registered' = FALSE /\ lock' = None
            /\ reader' = [reader EXCEPT ![g].pc = "closed"] /\ UNCHANGED restarts
       ELSE /\ restarts' = restarts + 1
            /\ reader' = [reader EXCEPT ![g].pc = "respawn"]
            /\ UNCHANGED <<dead, registered, lock>>
    /\ UNCHANGED <<terminated, inFlight, gen, call, term, procs, socks, stores, crashes>>

\* _spawn_subprocess: a new process, socket and reader.
Respawn(g) ==
    /\ reader[g].pc = "respawn"
    /\ gen' = g + 1 /\ lock' = None
    /\ proc' = [proc EXCEPT ![g + 1] = "spawning"]
    /\ reader' = [reader EXCEPT ![g].pc = "closed", ![g + 1].pc = "reading"]
    /\ UNCHANGED <<terminated, dead, restarts, inFlight, registered, call, term, running, owned, socks, stores, crashes>>

RespawnFails(g) ==
    /\ reader[g].pc = "respawn"
    /\ dead' = TRUE /\ registered' = FALSE /\ lock' = None
    /\ reader' = [reader EXCEPT ![g].pc = "closed"]
    /\ UNCHANGED <<terminated, restarts, inFlight, gen, call, term, procs, socks, stores, crashes>>

(***************************************************************************)
(* terminate.                                                              *)
(***************************************************************************)

\* Mutant of Terminate: the state lock is not taken.
TerminateUnlocked ==
    /\ MayTerminate /\ term.pc = "none"
    /\ terminated' = TRUE /\ term' = [pc |-> "send", gen |-> gen]
    /\ UNCHANGED <<dead, restarts, inFlight, gen, lock, registered, call, reader, procs, socks, stores, crashes>>

\* The socket, the reader and the process are read with the flag.
Terminate ==
    /\ MayTerminate /\ term.pc = "none" /\ lock = None
    /\ terminated' = TRUE /\ term' = [pc |-> "send", gen |-> gen]
    /\ UNCHANGED <<dead, restarts, inFlight, gen, lock, registered, call, reader, procs, socks, stores, crashes>>

\* The actor_shutdown frame; errors are suppressed.
TermSend ==
    /\ term.pc = "send" /\ term' = [term EXCEPT !.pc = "shut"]
    /\ IF PeerOpen(term.gen) /\ DriverOpen(term.gen)
       THEN wire' = [wire EXCEPT ![term.gen] = Append(@, "shutdown")] ELSE UNCHANGED wire
    /\ UNCHANGED <<runner, call, reader, procs, shut, replies, stores, crashes>>

TermShut ==
    /\ term.pc = "shut" /\ term' = [term EXCEPT !.pc = "join"]
    /\ shut' = [shut EXCEPT ![term.gen] = TRUE]
    /\ UNCHANGED <<runner, call, reader, procs, wire, replies, stores, crashes>>

\* reader.join returns, or times out while a method is still running.
TermJoin ==
    /\ term.pc = "join" /\ term' = [term EXCEPT !.pc = "wait"]
    /\ reader[term.gen].pc = "closed" \/ PeerOpen(term.gen)
    /\ UNCHANGED <<runner, call, reader, procs, socks, stores, crashes>>

\* proc.wait, with a kill after the timeout.
TermWait ==
    /\ term.pc = "wait" /\ term' = [term EXCEPT !.pc = "close"]
    /\ \/ proc[term.gen] = "gone" /\ UNCHANGED <<procs, wire>>
       \/ proc[term.gen] # "gone" /\ Die(term.gen)
    /\ UNCHANGED <<runner, call, reader, shut, replies, stores, crashes>>

\* Mutant of TermClose: the name stays registered.
TermCloseKeepsName ==
    /\ term.pc = "close" /\ term' = [term EXCEPT !.pc = "done"]
    /\ UNCHANGED <<runner, call, reader, procs, socks, stores, crashes>>

TermClose ==
    /\ term.pc = "close" /\ term' = [term EXCEPT !.pc = "done"]
    /\ registered' = FALSE
    /\ UNCHANGED <<terminated, dead, restarts, inFlight, gen, lock, call, reader, procs, socks, stores, crashes>>

ActorStep(g) ==
    \/ ActorSpawn(g) \/ ActorSpawnRaises(g) \/ ActorRecv(g) \/ ActorSeal(g) \/ ActorReply(g)
    \/ ActorExit(g) \/ ActorEvict(g)

ReaderStep(g) ==
    \/ ReaderRecv(g) \/ ReaderRecord(g) \/ ReaderEof(g) \/ ReaderSeal(g) \/ ReaderReap(g)
    \/ ReaderDecide(g) \/ Respawn(g) \/ RespawnFails(g)

TermStep == TermSend \/ TermShut \/ TermJoin \/ TermWait \/ TermClose

Next ==
    \/ \E c \in Calls : DispatchCall(c) \/ SendCall(c)
    \/ \E g \in Gens : ActorStep(g) \/ ReaderStep(g) \/ Crash(g)
    \/ Terminate \/ TermStep

Spec == Init /\ [][Next]_vars

\* Threads and processes that can run do, methods end, frames arrive; no
\* one has to call, crash or terminate.
FairSpec ==
    /\ Spec
    /\ \A g \in Gens : WF_vars(ActorStep(g)) /\ WF_vars(ReaderStep(g))
    /\ \A c \in Calls : WF_vars(SendCall(c))
    /\ WF_vars(TermStep)

(***************************************************************************)
(* Properties.                                                             *)
(***************************************************************************)

Resolved(c) == c \in index

\* At most one actor process of an actor is alive, and none once terminate
\* has returned: a respawn and a terminate exclude each other.
OneProcess ==
    /\ \A g \in Gens : proc[g] \notin {"unborn", "gone"} => g = gen
    /\ term.pc = "done" => \A g \in Gens : proc[g] \in {"unborn", "gone"}

\* Until terminate is called, a result the driver's store has stays in the
\* shared store, through crashes too, so that rayd.get "resolves through
\* plasma" (_record_plasma_seal).
ResultKept == ~terminated => \A c \in index : plasma[c] # "absent"

\* A call that was sent resolves, to a value or to ActorDiedError, or the
\* actor is terminated: a get "raises rather than hangs".
CallResolves == \A c \in Calls : call[c].pc = "sent" ~> (Resolved(c) \/ terminated)

\* After a crash the actor is respawned, or is marked dead so that further
\* calls raise, or is being terminated.
Recovers ==
    \A g \in Gens : (gen = g /\ proc[g] = "gone") ~> (gen > g \/ dead \/ terminated)

\* terminate returns, and the actor has left the registries.
TerminateEnds == terminated ~> (term.pc = "done" /\ ~registered)
=============================================================================
