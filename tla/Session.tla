------------------------------ MODULE Session -------------------------------
(***************************************************************************)
(* The life of a node: what rayd.init brings up and rayd.shutdown takes    *)
(* down, in their order and with a failure at every step (rayd-py          *)
(* runtime.rs, gcs.rs and dispatcher.rs, the raylet's lifecycle.rs), and   *)
(* `rayd start --address`, a node without driver (rayd-cli).  Beside it    *)
(* the GCS's node and job tables and its own shutdown.  init keeps the GIL,*)
(* shutdown gives it up once it has taken SESSION, so a process can open a *)
(* session while its last one is being torn down.  Drivers that share an   *)
(* external plasma server share the directory of their dispatch sockets.   *)
(* One worker subprocess per dispatcher.                                   *)
(***************************************************************************)
EXTENDS Naturals, FiniteSets

CONSTANTS
    Sessions,
    Procs,
    Deployments,    \* how the sessions are started: a set of functions into Setups
    None,
    MaxFaults       \* bound on failed steps and crashes

\* A node of the command line, a driver with its own plasma server, a driver
\* that uses an external one; and the process it runs in.
Setups == [kind : {"cli", "private", "shared"}, proc : Procs]

ASSUME SessionAssumption ==
    /\ Deployments \subseteq [Sessions -> Setups]
    /\ None \notin Sessions /\ MaxFaults \in Nat

VARIABLES
    setup,      \* setup[s]: its kind and its process
    at,         \* at[s]: the next step of init or shutdown
    current,    \* current[p]: the process's SESSION
    file,       \* file[f]: the session whose listener is bound to socket file f
    disp,       \* disp[s]: the dispatcher
    child,      \* child[s]: the worker subprocess it forked
    own,        \* own[s]: plasma server, raylet server, heartbeat and watch tasks
    node,       \* node[s]: the GCS's record of the node
    job,        \* job[s]: its record of the job
    gcs,        \* the GCS: up, stopping or down
    taken,      \* sessions whose socket file another one replaced or removed
    unsaid,     \* sessions whose last word to the GCS was lost
    faults

vars == <<setup, at, current, file, disp, child, own, node, job, gcs, taken, unsaid, faults>>

Installing == {"plasma", "unlink", "bind", "workers", "serve", "register", "beat", "addjob", "metrics"}
Tearing == {"free", "join", "poke", "accept", "remove", "reap", "finish", "quiet", "drain", "stop", "drop"}
Ended == {"closed", "failed", "crashed"}

Is(s, k) == setup[s].kind = k
\* `rayd start --address` brings up plasma and raylet and waits for ctrl-c: it
\* has no dispatcher, no job and no SESSION.
CliNode(s) == Is(s, "cli")
Proc(s) == setup[s].proc
\* The dispatch socket lies in the session's own directory or beside the external
\* plasma server's socket.
Path(s) == IF Is(s, "shared") THEN None ELSE s
Paths == Sessions \cup {None}

\* accept: the accept thread; shut: the shutdown flag; woken: a connection
\* waits at the listener; ready: a worker has greeted.
DispRec == [accept : {"none", "waiting", "done"}, shut : BOOLEAN, woken : BOOLEAN, ready : BOOLEAN]
NoDisp == [accept |-> "none", shut |-> FALSE, woken |-> FALSE, ready |-> FALSE]
\* link: the dispatcher the worker is connected to.
ChildRec == [up : {"connected", "exiting"}, link : Sessions]
            \cup [up : {"none", "starting", "gone"}, link : {None}]
NoChild == [up |-> "none", link |-> None]
OwnRec == [plasma : BOOLEAN, server : BOOLEAN, beat : BOOLEAN]
Nothing == [plasma |-> FALSE, server |-> FALSE, beat |-> FALSE]

TypeOK ==
    /\ setup \in Deployments
    /\ at \in [Sessions -> Installing \cup Tearing \cup Ended \cup {"new", "installed"}]
    /\ current \in [Procs -> Sessions \cup {None}]
    /\ file \in [Paths -> Sessions \cup {None}]
    /\ disp \in [Sessions -> DispRec]
    /\ child \in [Sessions -> ChildRec]
    /\ own \in [Sessions -> OwnRec]
    /\ node \in [Sessions -> {"none", "alive", "draining", "dead"}]
    /\ job \in [Sessions -> {"none", "running", "finished"}]
    /\ gcs \in {"up", "stopping", "down"}
    /\ taken \subseteq Sessions /\ unsaid \subseteq Sessions
    /\ faults \in 0..MaxFaults

Init ==
    /\ setup \in Deployments
    /\ at = [s \in Sessions |-> "new"]
    /\ current = [p \in Procs |-> None]
    /\ file = [f \in Paths |-> None]
    /\ disp = [s \in Sessions |-> NoDisp]
    /\ child = [s \in Sessions |-> NoChild]
    /\ own = [s \in Sessions |-> Nothing]
    /\ node = [s \in Sessions |-> "none"]
    /\ job = [s \in Sessions |-> "none"]
    /\ gcs = "up" /\ taken = {} /\ unsaid = {} /\ faults = 0

-----------------------------------------------------------------------------
Goto(s, l) == at' = [at EXCEPT ![s] = l]
At(s, l) == at[s] = l
Fault == faults < MaxFaults /\ faults' = faults + 1
NoFault == UNCHANGED faults

DropHandleBeating(s) == own' = [own EXCEPT ![s] = [Nothing EXCEPT !.beat = own[s].beat]]
\* An error leaves init: RayletHandle's drop signals the server, the heartbeat
\* and the watch to stop, and sends no drain; the plasma server drops.  The
\* dispatcher has no drop and its accept thread keeps it.
DropHandle(s) == own' = [own EXCEPT ![s] = Nothing]

Raise(s) ==
    /\ Goto(s, "failed")
    /\ DropHandle(s)

-----------------------------------------------------------------------------
(* install                                                                 *)

\* Under the GIL: no session is installed and none is being installed.
Begin(s) ==
    /\ At(s, "new")
    /\ current[Proc(s)] = None
    /\ \A t \in Sessions : Proc(t) = Proc(s) => at[t] \notin Installing
    /\ Goto(s, "plasma")
    /\ UNCHANGED <<setup, current, file, disp, child, own, node, job, gcs, taken, unsaid, faults>>

\* Its own plasma server, or the external one; then the client connects.
ResolvePlasma(s) ==
    /\ At(s, "plasma")
    /\ \/ /\ Goto(s, IF CliNode(s) THEN "serve" ELSE "unlink")
          /\ own' = [own EXCEPT ![s].plasma = ~Is(s, "shared")]
          /\ NoFault
       \/ Fault /\ Raise(s)
    /\ UNCHANGED <<setup, current, file, disp, child, node, job, gcs, taken, unsaid>>

\* Another session's socket file is gone or rebound.
Takes(s) == taken' = taken \cup ({file[Path(s)]} \ {s, None})

UnlinkSocket(s) ==
    /\ At(s, "unlink")
    /\ file' = [file EXCEPT ![Path(s)] = None]
    /\ Takes(s)
    /\ Goto(s, "bind")
    /\ UNCHANGED <<setup, current, disp, child, own, node, job, gcs, unsaid, faults>>

\* The worker is forked before the accept thread starts; a bind that finds the
\* file there again, and a failed fork, raise.
StartDispatcher(s) ==
    /\ At(s, "bind")
    /\ \/ /\ file[Path(s)] = None
          /\ file' = [file EXCEPT ![Path(s)] = s]
          /\ \/ /\ disp' = [disp EXCEPT ![s].accept = "waiting"]
                /\ child' = [child EXCEPT ![s].up = "starting"]
                /\ Goto(s, "workers")
                /\ UNCHANGED own /\ NoFault
             \/ Fault /\ Raise(s) /\ UNCHANGED <<disp, child>>
       \/ file[Path(s)] # None /\ Raise(s) /\ NoFault /\ UNCHANGED <<file, disp, child>>
    /\ UNCHANGED <<setup, current, node, job, gcs, taken, unsaid>>

\* wait_for_workers: the greeting arrived, or five seconds passed without it.
WaitForWorkers(s) ==
    /\ At(s, "workers")
    /\ IF disp[s].ready THEN Goto(s, "serve") /\ UNCHANGED own ELSE Raise(s)
    /\ UNCHANGED <<setup, current, file, disp, child, node, job, gcs, taken, unsaid, faults>>

ServeLater(s) ==
    /\ At(s, "serve")
    /\ Goto(s, "register")
    /\ UNCHANGED <<setup, current, file, disp, child, own, node, job, gcs, taken, unsaid, faults>>

\* Raylet::start: the gRPC server first, then the registration, the heartbeat and
\* the watch.
Serve(s) ==
    /\ At(s, "serve")
    /\ \/ /\ own' = [own EXCEPT ![s].server = TRUE]
          /\ Goto(s, "register") /\ NoFault
       \/ Fault /\ Raise(s)
    /\ UNCHANGED <<setup, current, file, disp, child, node, job, gcs, taken, unsaid>>

\* A call to the GCS: answered, or failed before or after it took effect.
Answered == gcs = "up" /\ NoFault
Unanswered == (gcs # "up" /\ NoFault) \/ (gcs = "up" /\ Fault)

Register(s) ==
    /\ At(s, "register")
    /\ \/ /\ Answered
          /\ node' = [node EXCEPT ![s] = "alive"]
          /\ Goto(s, "beat") /\ UNCHANGED own
       \/ /\ Unanswered
          /\ UNCHANGED node \/ (gcs = "up" /\ node' = [node EXCEPT ![s] = "alive"])
          /\ Raise(s)
    /\ UNCHANGED <<setup, current, file, disp, child, job, gcs, taken, unsaid>>

\* The tasks start; the raylet's metrics endpoint may fail to bind.
StartTasks(s) ==
    /\ At(s, "beat")
    /\ \/ /\ own' = [own EXCEPT ![s].beat = TRUE]
          /\ Goto(s, IF CliNode(s) THEN "installed" ELSE "addjob") /\ NoFault
       \/ Fault /\ Raise(s)
    /\ UNCHANGED <<setup, current, file, disp, child, node, job, gcs, taken, unsaid>>

AddJob(s) ==
    /\ At(s, "addjob")
    /\ \/ /\ Answered
          /\ job' = [job EXCEPT ![s] = "running"]
          /\ Goto(s, "metrics") /\ UNCHANGED own
       \/ /\ Unanswered
          /\ UNCHANGED job \/ (gcs = "up" /\ job' = [job EXCEPT ![s] = "running"])
          /\ Raise(s)
    /\ UNCHANGED <<setup, current, file, disp, child, node, gcs, taken, unsaid>>

\* The driver's metrics endpoint, and the session is installed.
Install(s) ==
    /\ At(s, "metrics")
    /\ \/ /\ current' = [current EXCEPT ![Proc(s)] = s]
          /\ Goto(s, "installed") /\ NoFault /\ UNCHANGED own
       \/ Fault /\ Raise(s) /\ UNCHANGED current
    /\ UNCHANGED <<setup, file, disp, child, node, job, gcs, taken, unsaid>>

-----------------------------------------------------------------------------
(* uninstall                                                               *)

\* shutdown takes SESSION; ctrl-c for a node of the command line.
Uninstall(s) ==
    /\ At(s, "installed")
    /\ Goto(s, IF CliNode(s) THEN "quiet" ELSE "free")
    /\ current' = IF CliNode(s) THEN current ELSE [current EXCEPT ![Proc(s)] = None]
    /\ UNCHANGED <<setup, file, disp, child, own, node, job, gcs, taken, unsaid, faults>>

\* The metrics endpoint and free_all_local; then the dispatcher's flag.
SetShutdown(s) ==
    /\ At(s, "free")
    /\ disp' = [disp EXCEPT ![s].shut = TRUE]
    /\ Goto(s, "join")
    /\ UNCHANGED <<setup, current, file, child, own, node, job, gcs, taken, unsaid, faults>>

\* Every handler drains, sends its worker the shutdown frame and ends.
JoinHandlers(s) ==
    /\ At(s, "join")
    /\ child' = [t \in Sessions |->
          IF child[t].link = s /\ child[t].up = "connected"
          THEN [child[t] EXCEPT !.up = "exiting"] ELSE child[t]]
    /\ Goto(s, "poke")
    /\ UNCHANGED <<setup, current, file, disp, own, node, job, gcs, taken, unsaid, faults>>

NoPoke(s) ==
    /\ At(s, "poke")
    /\ Goto(s, "accept")
    /\ UNCHANGED <<setup, current, file, disp, child, own, node, job, gcs, taken, unsaid, faults>>

\* It connects to its own path, to whichever listener is bound there.
Poke(s) ==
    /\ At(s, "poke")
    /\ LET l == file[Path(s)]
       IN disp' = IF l # None /\ disp[l].accept = "waiting"
                  THEN [disp EXCEPT ![l].woken = TRUE] ELSE disp
    /\ Goto(s, "accept")
    /\ UNCHANGED <<setup, current, file, child, own, node, job, gcs, taken, unsaid, faults>>

JoinAccept(s) ==
    /\ At(s, "accept") /\ disp[s].accept = "done"
    /\ Goto(s, "remove")
    /\ UNCHANGED <<setup, current, file, disp, child, own, node, job, gcs, taken, unsaid, faults>>

RemoveSocket(s) ==
    /\ At(s, "remove")
    /\ file' = [file EXCEPT ![Path(s)] = None]
    /\ Takes(s)
    /\ Goto(s, "reap")
    /\ UNCHANGED <<setup, current, disp, child, own, node, job, gcs, unsaid, faults>>

\* A worker still there after the grace period is killed.
Reap(s) ==
    /\ At(s, "reap")
    /\ child' = [child EXCEPT ![s] = [up |-> "gone", link |-> None]]
    /\ Goto(s, "finish")
    /\ UNCHANGED <<setup, current, file, disp, own, node, job, gcs, taken, unsaid, faults>>

SkipJob(s) ==
    /\ At(s, "finish")
    /\ Goto(s, "quiet")
    /\ UNCHANGED <<setup, current, file, disp, child, own, node, job, gcs, taken, unsaid, faults>>

\* Errors of the two calls to the GCS are logged and swallowed.
MarkJobFinished(s) ==
    /\ At(s, "finish")
    /\ \/ Answered /\ job' = [job EXCEPT ![s] = "finished"] /\ UNCHANGED unsaid
       \/ Unanswered /\ UNCHANGED job /\ unsaid' = unsaid \cup {s}
    /\ Goto(s, "quiet")
    /\ UNCHANGED <<setup, current, file, disp, child, own, node, gcs, taken>>

\* The watch and the heartbeat are stopped and joined before the drain.
StopTasks(s) ==
    /\ At(s, "quiet")
    /\ own' = [own EXCEPT ![s].beat = FALSE]
    /\ Goto(s, "drain")
    /\ UNCHANGED <<setup, current, file, disp, child, node, job, gcs, taken, unsaid, faults>>

Drain(s) ==
    /\ At(s, "drain")
    /\ \/ Answered /\ node' = [node EXCEPT ![s] = "draining"] /\ UNCHANGED unsaid
       \/ Unanswered /\ UNCHANGED node /\ unsaid' = unsaid \cup {s}
    /\ Goto(s, "stop")
    /\ UNCHANGED <<setup, current, file, disp, child, own, job, gcs, taken>>

StopServer(s) ==
    /\ At(s, "stop")
    /\ own' = [own EXCEPT ![s].server = FALSE]
    /\ Goto(s, "drop")
    /\ UNCHANGED <<setup, current, file, disp, child, node, job, gcs, taken, unsaid, faults>>

DropPlasma(s) ==
    /\ At(s, "drop")
    /\ own' = [own EXCEPT ![s].plasma = FALSE]
    /\ Goto(s, "closed")
    /\ UNCHANGED <<setup, current, file, disp, child, node, job, gcs, taken, unsaid, faults>>

-----------------------------------------------------------------------------
(* The dispatcher's accept thread, the worker, the GCS, a crash.           *)

\* The loop looks at the flag after every connection.
AcceptReturns(s) ==
    /\ disp[s].accept = "waiting" /\ disp[s].woken
    /\ disp' = [disp EXCEPT ![s].woken = FALSE, ![s].accept = IF disp[s].shut THEN "done" ELSE @]
    /\ UNCHANGED <<setup, at, current, file, child, own, node, job, gcs, taken, unsaid, faults>>

\* The worker dials the path it was given and greets whoever listens there, or
\* exits.
Connect(s) ==
    /\ child[s].up = "starting"
    /\ LET l == file[Path(s)]
       IN IF l = None \/ disp[l].accept # "waiting"
          THEN child' = [child EXCEPT ![s].up = "gone"] /\ UNCHANGED disp
          ELSE IF disp[l].shut
          THEN child' = [child EXCEPT ![s].up = "gone"] /\ disp' = [disp EXCEPT ![l].accept = "done"]
          ELSE /\ child' = [child EXCEPT ![s] = [up |-> "connected", link |-> l]]
               /\ disp' = [disp EXCEPT ![l].ready = TRUE]
    /\ UNCHANGED <<setup, at, current, file, own, node, job, gcs, taken, unsaid, faults>>

WorkerExits(s) ==
    /\ child[s].up = "exiting"
    /\ child' = [child EXCEPT ![s] = [up |-> "gone", link |-> None]]
    /\ UNCHANGED <<setup, at, current, file, disp, own, node, job, gcs, taken, unsaid, faults>>

\* expire_stale: a node that no longer beats is declared dead.
Expire(s) ==
    /\ gcs = "up" /\ node[s] = "alive" /\ ~own[s].beat /\ at[s] \in Ended
    /\ node' = [node EXCEPT ![s] = "dead"]
    /\ UNCHANGED <<setup, at, current, file, disp, child, own, job, gcs, taken, unsaid, faults>>

\* ctrl-c: the sweeper stops, then the gRPC server finishes the calls it is
\* serving and takes no new one.  A raylet's watch is such a call.
StopGcs ==
    /\ gcs = "up"
    /\ gcs' = "stopping"
    /\ UNCHANGED <<setup, at, current, file, disp, child, own, node, job, taken, unsaid, faults>>

GcsStopped ==
    /\ gcs = "stopping" /\ \A s \in Sessions : ~own[s].beat
    /\ gcs' = "down"
    /\ UNCHANGED <<setup, at, current, file, disp, child, own, node, job, taken, unsaid, faults>>

\* The process dies; its workers meet the closed sockets and exit.
Crash(p) ==
    LET dead == {s \in Sessions : Proc(s) = p /\ at[s] \notin Ended} IN
    /\ Fault /\ \E s \in dead : at[s] # "new"
    /\ at' = [s \in Sessions |-> IF s \in dead THEN "crashed" ELSE at[s]]
    /\ own' = [s \in Sessions |-> IF s \in dead THEN Nothing ELSE own[s]]
    /\ disp' = [s \in Sessions |-> IF Proc(s) = p THEN NoDisp ELSE disp[s]]
    /\ child' = [s \in Sessions |->
          IF child[s].up = "connected" /\ Proc(child[s].link) = p
          THEN [child[s] EXCEPT !.up = "exiting"] ELSE child[s]]
    /\ current' = [current EXCEPT ![p] = None]
    /\ UNCHANGED <<setup, file, node, job, gcs, taken, unsaid>>

-----------------------------------------------------------------------------
InstallStep(s) ==
    \/ ResolvePlasma(s) \/ UnlinkSocket(s) \/ StartDispatcher(s) \/ WaitForWorkers(s)
    \/ Serve(s) \/ Register(s) \/ StartTasks(s) \/ AddJob(s) \/ Install(s)

UninstallStep(s) ==
    \/ SetShutdown(s) \/ JoinHandlers(s) \/ Poke(s) \/ JoinAccept(s) \/ RemoveSocket(s)
    \/ Reap(s) \/ MarkJobFinished(s) \/ StopTasks(s) \/ Drain(s) \/ StopServer(s) \/ DropPlasma(s)

Background(s) == AcceptReturns(s) \/ Connect(s) \/ WorkerExits(s)

Next ==
    \/ \E s \in Sessions : \/ Begin(s) \/ Uninstall(s) \/ Expire(s)
                           \/ InstallStep(s) \/ UninstallStep(s) \/ Background(s)
    \/ \E p \in Procs : Crash(p)
    \/ StopGcs \/ GcsStopped

Spec == Init /\ [][Next]_vars

\* The threads of a session and of the GCS keep running; nobody has to call
\* init or shutdown, and nothing has to fail.
Fairness ==
    /\ \A s \in Sessions : /\ WF_vars(InstallStep(s)) /\ WF_vars(UninstallStep(s))
                           /\ WF_vars(AcceptReturns(s)) /\ WF_vars(Connect(s))
                           /\ WF_vars(WorkerExits(s)) /\ WF_vars(Expire(s))
    /\ WF_vars(GcsStopped)
FairSpec == Spec /\ Fairness

-----------------------------------------------------------------------------
(* Properties.                                                             *)

\* A node the GCS lists as alive answers on its address: the raylet serves
\* before it registers and drains before it stops serving.  Not so for a node
\* whose init failed after the registration, that crashed, or whose drain the
\* GCS did not get: those wait for the sweeper.
AliveIsServed ==
    \A s \in Sessions :
        node[s] = "alive" => own[s].server \/ at[s] \in {"failed", "crashed"} \/ s \in unsaid

\* The GCS gives up on every such node: nothing keeps beating for a session that
\* is over.
GoneExpires ==
    \A s \in Sessions :
        (at[s] \in Ended /\ node[s] = "alive") ~> (node[s] # "alive" \/ gcs # "up")

\* A finished shutdown has undone the whole of init: the job is finished, the
\* node has left, the accept thread and the worker are gone, nothing serves.
ClosedIsClean ==
    \A s \in Sessions : at[s] = "closed" =>
        /\ own[s] = Nothing /\ child[s].up \in {"none", "gone"} /\ disp[s].accept # "waiting"
        /\ s \in unsaid \/ (job[s] # "running" /\ node[s] # "alive")

\* A session's worker never outlives its plasma server, from the fork to the
\* reaping, unless init failed or the process crashed.
StoreOutlivesWorker ==
    \A s \in Sessions : Is(s, "private") =>
        (child[s].up \in {"starting", "connected", "exiting"} =>
            own[s].plasma \/ at[s] \in {"failed", "crashed"})

\* shutdown returns: the dispatcher's own connection wakes its accept thread,
\* as long as no other session took its socket file.
ShutdownReturns ==
    \A s \in Sessions : (at[s] \in Tearing) ~> (at[s] \in Ended \/ s \in taken)

\* shutdown returns, whoever else uses the directory ("Stopping the accept loop:
\* connect to ourselves so accept() returns").
AlwaysReturns ==
    \A s \in Sessions : (at[s] \in Tearing) ~> (at[s] \in Ended)
=============================================================================
