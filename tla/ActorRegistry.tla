--------------------------- MODULE ActorRegistry ----------------------------
(***************************************************************************)
(* Named actors across drivers: the GCS's name table (actor_service.rs),   *)
(* each driver's _ACTOR_REGISTRY and the life of an actor as the two see it*)
(* (_actor.py), the lookup of a name and the unpickling of a handle in     *)
(* another driver, and the call such a handle makes through the owner's    *)
(* actor-RPC listener (_actor_rpc.py).  The subprocess behind an actor is  *)
(* the subject of ActorSubprocess; here it is spawned, respawned, lost for *)
(* good or terminated.  A driver process may shut its session down and open*)
(* a new one, with another listener port; its actors live on.              *)
(***************************************************************************)
EXTENDS Naturals, FiniteSets

CONSTANTS
    Drivers, Names, Actors, Ports,
    Callers,    \* the drivers that call actors of others
    None,       \* no actor, no name, no port, no driver
    MaxFaults   \* bound on GCS restarts, failed GCS calls and driver crashes

ASSUME RegistryAssumption ==
    None \notin Actors \cup Names \cup Ports \cup Drivers /\ MaxFaults \in Nat

VARIABLES
    gcs,        \* gcs[n]: the ActorInfo registered under the name, or NoInfo
    actor,      \* actor[a]: the _ActorSubprocess object
    driver,     \* driver[d]: its session and its listener's port
    handle,     \* handle[d]: the _RemoteActorHandle d holds, or NoInfo
    call,       \* call[d]: d's call through its handle
    loose,      \* actors whose owner could not reach the GCS, or is gone
    kept,       \* named actors registered since the GCS last started
    faults

vars == <<gcs, actor, driver, handle, call, loose, kept, faults>>

\* What a caller needs of an ActorInfo: the id and the advertised port.
Info == [id : Actors, port : Ports \cup {None}]
NoInfo == [id |-> None, port |-> None]

\* A _RemoteActorHandle always has an address.
Handles == [id : Actors, port : Ports] \cup {NoInfo}

Stages == {"none", "naming", "spawning", "rollback", "unlist", "live",
           "respawning", "dying", "dead", "terminating", "raised", "gone"}
ActorRec == [at : Stages, owner : Drivers \cup {None}, name : Names \cup {None},
             port : Ports \cup {None}]
Unborn == [at |-> "none", owner |-> None, name |-> None, port |-> None]

\* step: where the call is; waiting: the caller still listens; ran: the
\* subprocess was sent the frame.
CallRec == [step : {"idle", "lookup", "sent", "found", "replied", "done"},
            info : Info \cup {NoInfo}, server : Drivers \cup {None},
            reply : {"none", "ack", "unknown", "reject", "oserror"},
            waiting : BOOLEAN, ran : BOOLEAN]
NoCall == [step |-> "idle", info |-> NoInfo, server |-> None,
           reply |-> "none", waiting |-> FALSE, ran |-> FALSE]

TypeOK ==
    /\ gcs \in [Names -> Info \cup {NoInfo}]
    /\ actor \in [Actors -> ActorRec]
    /\ driver \in [Drivers -> [session : {"up", "down", "gone"}, port : Ports \cup {None}]]
    /\ handle \in [Drivers -> Handles]
    /\ call \in [Drivers -> CallRec]
    /\ loose \subseteq Actors /\ kept \subseteq Actors
    /\ faults \in 0..MaxFaults

Init ==
    /\ gcs = [n \in Names |-> NoInfo]
    /\ actor = [a \in Actors |-> Unborn]
    /\ driver = [d \in Drivers |-> [session |-> "down", port |-> None]]
    /\ handle = [d \in Drivers |-> NoInfo]
    /\ call = [d \in Drivers |-> NoCall]
    /\ loose = {} /\ kept = {} /\ faults = 0

-----------------------------------------------------------------------------
(* The name table: ActorRegistryService.                                   *)

\* AlreadyExists unless the name is free or registered to the same actor.
Accepts(n, a) == gcs[n].id \in {None, a}

RegisterActor(n, info) ==
    gcs' = [gcs EXCEPT ![n] = IF @.id = info.id THEN @ ELSE info]

UnregisterAny(n, a) == gcs' = [gcs EXCEPT ![n] = NoInfo]
\* NotFound and FailedPrecondition leave the table alone.
UnregisterActor(n, a) ==
    gcs' = [gcs EXCEPT ![n] = IF @.id = a THEN NoInfo ELSE @]

\* A GCS that restarts has an empty table.
RestartGcs ==
    /\ faults < MaxFaults
    /\ faults' = faults + 1
    /\ gcs' = [n \in Names |-> NoInfo]
    /\ kept' = {}
    /\ UNCHANGED <<actor, driver, handle, call, loose>>

-----------------------------------------------------------------------------
(* The driver process.                                                     *)

Alive(d) == driver[d].session # "gone"
HasGcs(d) == driver[d].session = "up"

\* rayd.init: the native session, then the actor-RPC listener on a port of the
\* system's choice.
OpenSession(d) ==
    /\ driver[d].session = "down"
    /\ driver' = [driver EXCEPT ![d].session = "up"]
    /\ UNCHANGED <<gcs, actor, handle, call, loose, kept, faults>>

EnsureRpcServer(d) ==
    /\ HasGcs(d) /\ driver[d].port = None
    /\ \E p \in Ports \ {driver[e].port : e \in Drivers} :
          driver' = [driver EXCEPT ![d].port = p]
    /\ UNCHANGED <<gcs, actor, handle, call, loose, kept, faults>>

\* rayd.shutdown: the listener first, then the session.  No actor is terminated
\* and no name is given up.
StopRpcServer(d) ==
    /\ HasGcs(d) /\ driver[d].port # None
    /\ driver' = [driver EXCEPT ![d].port = None]
    /\ UNCHANGED <<gcs, actor, handle, call, loose, kept, faults>>

CloseSession(d) ==
    /\ HasGcs(d) /\ driver[d].port = None
    /\ driver' = [driver EXCEPT ![d].session = "down"]
    /\ UNCHANGED <<gcs, actor, handle, call, loose, kept, faults>>

\* The process dies, with its _ACTOR_REGISTRY and its calls.  A peer whose call
\* it had not answered sees the connection close.
Crash(d) ==
    /\ Alive(d) /\ faults < MaxFaults
    /\ faults' = faults + 1
    /\ driver' = [driver EXCEPT ![d] = [session |-> "gone", port |-> None]]
    /\ loose' = loose \cup {a \in Actors : actor[a].owner = d}
    /\ handle' = [handle EXCEPT ![d] = NoInfo]
    /\ call' = [e \in Drivers |->
          IF e = d THEN NoCall
          ELSE IF call[e].server = d /\ call[e].step \in {"sent", "found"}
               THEN [call[e] EXCEPT !.step = "replied", !.reply = "oserror"]
               ELSE call[e]]
    /\ UNCHANGED <<gcs, actor, kept>>

-----------------------------------------------------------------------------
(* An actor's life in its owner: _ActorSubprocess.                         *)

Goto(a, s) == actor' = [actor EXCEPT ![a].at = s]

\* In _ACTOR_REGISTRY: from the first line of the constructor to the end of
\* terminate, of the crash path or of the roll back.  An actor whose name was
\* refused raises before the try block and stays.
Listed(d, a) ==
    /\ actor[a].owner = d /\ Alive(d)
    /\ actor[a].at \notin {"none", "gone"}

\* __init__ up to the reservation of the name: the id, the registry entry and
\* the listener's address.
Construct(d, a, named) ==
    /\ Alive(d) /\ actor[a].at = "none"
    /\ actor' = [actor EXCEPT ![a] =
          [at |-> IF named THEN "naming" ELSE "spawning",
           owner |-> d, name |-> None, port |-> IF named THEN driver[d].port ELSE None]]
    /\ UNCHANGED <<gcs, driver, handle, call, loose, kept, faults>>

\* _register_named_actor is granted and _registered_name is set.
Reserve(a, n) ==
    /\ actor[a].at = "naming" /\ HasGcs(actor[a].owner) /\ Accepts(n, a)
    /\ RegisterActor(n, [id |-> a, port |-> actor[a].port])
    /\ actor' = [actor EXCEPT ![a].at = "spawning", ![a].name = n, ![a].port = None]
    /\ kept' = kept \cup {a}
    /\ UNCHANGED <<driver, handle, call, loose, faults>>

\* It raises: the name is taken, or there is no session.
NameRefused(a, n) ==
    /\ actor[a].at = "naming" /\ Alive(actor[a].owner)
    /\ ~HasGcs(actor[a].owner) \/ ~Accepts(n, a)
    /\ actor' = [actor EXCEPT ![a].at = "raised", ![a].port = None]
    /\ UNCHANGED <<gcs, driver, handle, call, loose, kept, faults>>

\* It raises because the call failed, before or after the GCS took it.
NameCallFails(a, n) ==
    /\ actor[a].at = "naming" /\ HasGcs(actor[a].owner) /\ faults < MaxFaults
    /\ faults' = faults + 1
    /\ \/ UNCHANGED gcs
       \/ Accepts(n, a) /\ RegisterActor(n, [id |-> a, port |-> actor[a].port])
    /\ loose' = loose \cup {a}
    /\ actor' = [actor EXCEPT ![a].at = "raised", ![a].port = None]
    /\ UNCHANGED <<driver, handle, call, kept>>

\* The first _spawn_subprocess succeeds, or raises and the constructor rolls back.
SpawnRaisesKeepsName(a) == Goto(a, "unlist")
SpawnRaises(a) == Goto(a, "rollback")

Spawn(a) ==
    /\ actor[a].at = "spawning" /\ Alive(actor[a].owner)
    /\ Goto(a, "live") \/ SpawnRaises(a)
    /\ UNCHANGED <<gcs, driver, handle, call, loose, kept, faults>>

\* The reader thread meets EOF with restarts left and respawns, holding
\* _state_lock; without restarts, or when the spawn raises, the actor is dead.
ReaderDecides(a) ==
    /\ actor[a].at \in {"live", "respawning"} /\ Alive(actor[a].owner)
    /\ \/ actor[a].at = "live" /\ Goto(a, "respawning")
       \/ actor[a].at = "respawning" /\ Goto(a, "live")
       \/ Goto(a, "dying")
    /\ UNCHANGED <<gcs, driver, handle, call, loose, kept, faults>>

\* terminate marks the actor, drains the subprocess and joins the reader.
Terminate(a) ==
    /\ actor[a].at = "live" /\ Alive(actor[a].owner)
    /\ Goto(a, "terminating")
    /\ UNCHANGED <<gcs, driver, handle, call, loose, kept, faults>>

\* Where the name is given up, and what is left to do then.
Unnaming == {"rollback", "dying", "terminating"}
AfterUnname(s) == IF s = "dying" THEN "dead" ELSE "unlist"

\* _unregister_name_from_gcs, and the same calls in the roll back.
Unname(a) ==
    /\ actor[a].at \in Unnaming /\ actor[a].name # None /\ HasGcs(actor[a].owner)
    /\ UnregisterActor(actor[a].name, a)
    /\ actor' = [actor EXCEPT ![a].at = AfterUnname(@), ![a].name = None]
    /\ kept' = kept \ {a}
    /\ UNCHANGED <<driver, handle, call, loose, faults>>

\* Its exceptions are suppressed: no session, or the call fails before or after
\* the GCS took it.
UnnameFails(a) ==
    /\ actor[a].at \in Unnaming /\ actor[a].name # None /\ Alive(actor[a].owner)
    /\ IF HasGcs(actor[a].owner)
       THEN /\ faults < MaxFaults
            /\ faults' = faults + 1
            /\ UNCHANGED gcs \/ UnregisterActor(actor[a].name, a)
       ELSE UNCHANGED <<gcs, faults>>
    /\ actor' = [actor EXCEPT ![a].at = AfterUnname(@), ![a].name = None]
    /\ loose' = loose \cup {a} /\ kept' = kept \ {a}
    /\ UNCHANGED <<driver, handle, call>>

\* An unnamed actor has nothing to unregister.
Nameless(a) ==
    /\ actor[a].at \in Unnaming /\ actor[a].name = None /\ Alive(actor[a].owner)
    /\ Goto(a, AfterUnname(actor[a].at))
    /\ UNCHANGED <<gcs, driver, handle, call, loose, kept, faults>>

\* _unregister_actor; the crash path releases _state_lock here.
Unlist(a) ==
    /\ actor[a].at \in {"unlist", "dead"} /\ Alive(actor[a].owner)
    /\ Goto(a, "gone")
    /\ UNCHANGED <<gcs, driver, handle, call, loose, kept, faults>>

-----------------------------------------------------------------------------
(* Handles and calls in another driver.                                    *)

SetCall(d, c) == call' = [call EXCEPT ![d] = c]

\* get_actor: the name is looked up, then the id in the driver's own registry.
Lookup(d, n) ==
    /\ d \in Callers /\ HasGcs(d) /\ call[d] = NoCall /\ gcs[n] # NoInfo
    /\ SetCall(d, [NoCall EXCEPT !.step = "lookup", !.info = gcs[n]])
    /\ UNCHANGED <<gcs, actor, driver, handle, loose, kept, faults>>

\* An actor found there gives an ActorHandle and no remote call; an entry with
\* no address raises.
GotActor(d) ==
    /\ call[d].step = "lookup"
    /\ SetCall(d, NoCall)
    /\ handle' = IF Listed(d, call[d].info.id) \/ call[d].info.port = None THEN handle
                 ELSE [handle EXCEPT ![d] = call[d].info]
    /\ UNCHANGED <<gcs, actor, driver, loose, kept, faults>>

\* A handle pickled by the owner, with its present address, and rebuilt by d.
Rebuild(d, a) ==
    /\ d \in Callers /\ HasGcs(d) /\ call[d] = NoCall /\ ~Listed(d, a) /\ actor[a].owner # d
    /\ actor[a].at \in {"live", "respawning", "dying", "dead", "terminating", "unlist", "gone"}
    /\ driver[actor[a].owner].port # None
    /\ handle' = [handle EXCEPT ![d] = [id |-> a, port |-> driver[actor[a].owner].port]]
    /\ UNCHANGED <<gcs, actor, driver, call, loose, kept, faults>>

Reply(d, r) == SetCall(d, [call[d] EXCEPT !.step = "replied", !.reply = r])

\* _submit dials the handle's address: whoever listens there now is served the
\* frame, or the connection is refused.
Dial(d) ==
    /\ call[d] = NoCall /\ handle[d] # NoInfo /\ Alive(d)
    /\ LET open == [NoCall EXCEPT !.info = handle[d], !.waiting = TRUE]
           at == {e \in Drivers : driver[e].port = handle[d].port}
       IN IF at = {} THEN SetCall(d, [open EXCEPT !.step = "replied", !.reply = "oserror"])
          ELSE \E e \in at : SetCall(d, [open EXCEPT !.step = "sent", !.server = e])
    /\ UNCHANGED <<gcs, actor, driver, handle, loose, kept, faults>>

\* _handle_invoke on a connection thread of the listener: the registry first.
LookupInvoked(d) ==
    /\ call[d].step = "sent"
    /\ IF Listed(call[d].server, call[d].info.id)
       THEN SetCall(d, [call[d] EXCEPT !.step = "found"])
       ELSE Reply(d, "unknown")
    /\ UNCHANGED <<gcs, actor, driver, handle, loose, kept, faults>>

\* The listener was stopped first: the connection closes without an answer.
Unserved(d) ==
    /\ call[d].step = "sent" /\ driver[call[d].server].port # call[d].info.port
    /\ Reply(d, "oserror")
    /\ UNCHANGED <<gcs, actor, driver, handle, loose, kept, faults>>

\* dispatch_call_with_oid takes _state_lock, which the crash path keeps through
\* the respawn and the unregistering.  It refuses a terminated or a dead actor,
\* and fails on an actor whose constructor has not made the lock and the socket.
Locked(a) == actor[a].at \in {"respawning", "dying", "dead"}
Dispatches(a) == actor[a].at = "live"

AckFirst(d) ==
    LET a == call[d].info.id IN
    /\ call[d].step = "found"
    /\ \/ Reply(d, "ack")
       \/ ~Locked(a) /\ Dispatches(a) /\ SetCall(d, [call[d] EXCEPT !.step = "replied", !.reply = "ack", !.ran = TRUE])
    /\ UNCHANGED <<gcs, actor, driver, handle, loose, kept, faults>>

Dispatch(d) ==
    LET a == call[d].info.id IN
    /\ call[d].step = "found" /\ ~Locked(a)
    /\ \/ Dispatches(a) /\ SetCall(d, [call[d] EXCEPT !.step = "replied", !.reply = "ack", !.ran = TRUE])
       \/ Dispatches(a) /\ Reply(d, "reject")       \* the socket is broken
       \/ ~Dispatches(a) /\ Reply(d, "reject")
    /\ UNCHANGED <<gcs, actor, driver, handle, loose, kept, faults>>

\* The caller's deadline passes first: it raises, and the owner goes on.
TimesOut(d) ==
    /\ call[d].step \in {"sent", "found"} /\ call[d].waiting
    /\ SetCall(d, [call[d] EXCEPT !.waiting = FALSE])
    /\ UNCHANGED <<gcs, actor, driver, handle, loose, kept, faults>>

\* The caller has the ref of the result (ack), ActorDiedError (unknown),
\* RuntimeError (reject), or OwnerDiedError or OSError (oserror).
Answered(d) ==
    /\ call[d].step = "replied"
    /\ SetCall(d, IF call[d].waiting THEN [call[d] EXCEPT !.step = "done"] ELSE NoCall)
    /\ UNCHANGED <<gcs, actor, driver, handle, loose, kept, faults>>

NextCall(d) ==
    /\ call[d].step = "done"
    /\ SetCall(d, NoCall)
    /\ UNCHANGED <<gcs, actor, driver, handle, loose, kept, faults>>

-----------------------------------------------------------------------------
DriverStep(d) ==
    \/ OpenSession(d) \/ EnsureRpcServer(d) \/ StopRpcServer(d) \/ CloseSession(d) \/ Crash(d)
    \/ \E n \in Names : Lookup(d, n)
    \/ GotActor(d)
    \/ \E a \in Actors : Rebuild(d, a)
    \/ Dial(d) \/ LookupInvoked(d) \/ Unserved(d) \/ Dispatch(d)
    \/ TimesOut(d) \/ Answered(d) \/ NextCall(d)

ActorStep(a) ==
    \/ \E d \in Drivers, named \in BOOLEAN : Construct(d, a, named)
    \/ \E n \in Names : Reserve(a, n) \/ NameRefused(a, n) \/ NameCallFails(a, n)
    \/ Spawn(a) \/ ReaderDecides(a) \/ Terminate(a)
    \/ Unname(a) \/ UnnameFails(a) \/ Nameless(a) \/ Unlist(a)

Next ==
    \/ RestartGcs
    \/ \E d \in Drivers : DriverStep(d)
    \/ \E a \in Actors : ActorStep(a)

Spec == Init /\ [][Next]_vars

-----------------------------------------------------------------------------
(* Properties.                                                             *)

\* A name stays registered only to an actor that has still to give it up: a
\* failed constructor, terminate and the crash path all reach the unregister
\* call before the actor leaves its driver's registry.  An owner that died, or
\* that could not reach the GCS when it registered or unregistered, leaves the
\* name behind.
NamesHeld ==
    \A n \in Names : gcs[n] # NoInfo =>
        LET a == gcs[n].id IN
        \/ a \in loose
        \/ actor[a].name = n /\ actor[a].at \in {"spawning", "live", "respawning"} \cup Unnaming

\* An actor that registered its name with the running GCS keeps it until it
\* gives it up itself: no other registration takes it, and the late unregister
\* of an actor that had the name before the GCS restarted does not remove it.
NameKept ==
    \A a \in Actors :
        actor[a].name # None /\ a \in kept => gcs[actor[a].name].id = a

\* The caller of a remote method is told the truth: a ref means the subprocess
\* was sent the call, ActorDiedError and RuntimeError that it was not; and
\* ActorDiedError ("no longer alive on its owner driver") is raised only for an
\* actor that has left its owner's registry for good or that was dialled at an
\* address its owner no longer has: never for one still being constructed.
AnswerTruthful ==
    \A d \in Drivers : call[d].step = "done" =>
        /\ call[d].reply = "ack" => call[d].ran
        /\ call[d].reply \in {"unknown", "reject"} => ~call[d].ran
        /\ call[d].reply = "unknown" =>
              LET a == call[d].info.id
              IN  actor[a].at = "gone" \/ ~Alive(actor[a].owner) \/ call[d].server # actor[a].owner
=============================================================================
