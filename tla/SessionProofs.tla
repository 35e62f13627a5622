---------------------------- MODULE SessionProofs ----------------------------
(***************************************************************************)
(* Proofs about Session for any number of sessions, processes, deployments *)
(* and faults: what the GCS lists as alive is served, a finished shutdown  *)
(* is clean, and no worker outlives its plasma server.  The invariant says *)
(* what each place in init and shutdown has brought up and taken down.     *)
(***************************************************************************)
EXTENDS Session, TLAPS

Unforked == {"new", "plasma", "unlink", "bind"}
Unregistered == Unforked \cup {"workers", "serve", "register"}
Stored == {"unlink", "bind", "workers", "serve", "register", "beat", "addjob", "metrics",
           "installed"} \cup Tearing
Served == (Stored \ {"unlink", "bind", "workers", "serve", "drop"})
Joined == {"remove", "reap", "finish", "quiet", "drain", "stop", "drop", "closed"}
Reaped == Joined \ {"remove", "reap"}
Finished == Reaped \ {"finish"}
Quieted == Finished \ {"quiet"}
Drained == Quieted \ {"drain"}
DriverOnly == {"unlink", "bind", "workers", "addjob", "metrics", "free", "join", "poke", "accept",
               "remove", "reap", "finish"}

\* What a session has brought up and taken down where it is.
Stage(s) ==
    /\ at[s] \in Unforked => child[s] = NoChild /\ disp[s].accept = "none"
    /\ at[s] \in Unregistered => node[s] = "none"
    /\ at[s] \in Served => own[s].server
    /\ at[s] \in Stored /\ Is(s, "private") => own[s].plasma
    /\ at[s] \in Joined => disp[s].accept # "waiting"
    /\ at[s] \in Reaped => child[s].up \in {"none", "gone"}
    /\ at[s] \in Finished => job[s] # "running" \/ s \in unsaid
    /\ at[s] \in Quieted => ~own[s].beat
    /\ at[s] \in Drained => node[s] # "alive" \/ s \in unsaid
    /\ at[s] \in {"drop", "closed"} => ~own[s].server
    /\ at[s] = "closed" => ~own[s].plasma
    /\ CliNode(s) => at[s] \notin DriverOnly
    /\ CliNode(s) => child[s] = NoChild /\ disp[s].accept = "none" /\ job[s] = "none"

Inv == TypeOK /\ \A s \in Sessions : Stage(s)

USE DEF Unforked, Unregistered, Stored, Served, Tearing, Joined, Reaped, Finished, Quieted, Drained,
        DriverOnly

-----------------------------------------------------------------------------
(* Records, and the steps that leave a session alone or make it fail.      *)

\* A session's holdings stay a record of three flags, whichever is set or cleared.
LEMMA OwnType ==
    /\ Nothing \in OwnRec
    /\ \A o \in OwnRec, b \in BOOLEAN :
          /\ [o EXCEPT !.plasma = b] \in OwnRec
          /\ [o EXCEPT !.server = b] \in OwnRec
          /\ [o EXCEPT !.beat = b] \in OwnRec
BY DEF Nothing, OwnRec

\* The updates of own that the steps make.
LEMMA OwnUpdate ==
    ASSUME own \in [Sessions -> OwnRec], NEW s \in Sessions
    PROVE  /\ [own EXCEPT ![s] = Nothing] \in [Sessions -> OwnRec]
           /\ [own EXCEPT ![s].plasma = ~Is(s, "shared")] \in [Sessions -> OwnRec]
           /\ [own EXCEPT ![s].plasma = FALSE] \in [Sessions -> OwnRec]
           /\ [own EXCEPT ![s].server = TRUE] \in [Sessions -> OwnRec]
           /\ [own EXCEPT ![s].server = FALSE] \in [Sessions -> OwnRec]
           /\ [own EXCEPT ![s].beat = TRUE] \in [Sessions -> OwnRec]
           /\ [own EXCEPT ![s].beat = FALSE] \in [Sessions -> OwnRec]
BY OwnType, Zenon DEF Is

\* A step that fails, and one that does not, keep the count within its bound.
LEMMA FaultType == ASSUME TypeOK, Fault \/ NoFault PROVE faults' \in 0..MaxFaults
BY SessionAssumption DEF TypeOK, Fault, NoFault

\* The updates of one dispatcher's record.
LEMMA DispType ==
    /\ NoDisp \in DispRec /\ NoDisp.accept = "none"
    /\ \A d \in DispRec :
          /\ [d EXCEPT !.shut = TRUE] \in DispRec
          /\ [d EXCEPT !.woken = TRUE] \in DispRec
          /\ [d EXCEPT !.ready = TRUE] \in DispRec
          /\ [d EXCEPT !.accept = "waiting"] \in DispRec
          /\ [d EXCEPT !.accept = "done"] \in DispRec
          /\ [d EXCEPT !.woken = FALSE] \in DispRec
BY Zenon DEF NoDisp, DispRec

\* The same inside the function disp.
LEMMA DispUpdate ==
    ASSUME disp \in [Sessions -> DispRec], NEW s \in Sessions
    PROVE  /\ [disp EXCEPT ![s].accept = "waiting"] \in [Sessions -> DispRec]
           /\ [disp EXCEPT ![s].accept = "done"] \in [Sessions -> DispRec]
           /\ [disp EXCEPT ![s].shut = TRUE] \in [Sessions -> DispRec]
           /\ [disp EXCEPT ![s].woken = TRUE] \in [Sessions -> DispRec]
           /\ [disp EXCEPT ![s].ready = TRUE] \in [Sessions -> DispRec]
BY DispType, Zenon

\* The process and the kind of a session.
LEMMA ProcType ==
    ASSUME TypeOK, NEW s \in Sessions
    PROVE  Proc(s) \in Procs /\ setup[s].kind \in {"cli", "private", "shared"}
BY SessionAssumption DEF TypeOK, Setups, Proc

\* The updates of one worker's record: a connected one has a dispatcher.
LEMMA ChildType ==
    /\ NoChild \in ChildRec /\ NoChild.up = "none"
    /\ [NoChild EXCEPT !.up = "starting"] \in ChildRec
    /\ [up |-> "gone", link |-> None] \in ChildRec
    /\ \A s \in Sessions : [up |-> "connected", link |-> s] \in ChildRec
    /\ \A c \in ChildRec :
          /\ c.up = "connected" => c.link \in Sessions /\ [c EXCEPT !.up = "exiting"] \in ChildRec
          /\ c.up = "starting" => [c EXCEPT !.up = "gone"] \in ChildRec
BY SessionAssumption, SMTT(30) DEF NoChild, ChildRec

\* A session whose own state a step leaves alone stays in its stage.
LEMMA StageKept ==
    ASSUME NEW t \in Sessions, Stage(t), setup' = setup, at'[t] = at[t], child'[t] = child[t],
           disp'[t].accept = disp[t].accept, own'[t] = own[t], node'[t] = node[t],
           job'[t] = job[t], unsaid \subseteq unsaid'
    PROVE  Stage(t)'
BY DEF Stage, Is, CliNode

\* A session that failed or crashed has nothing left to say but that a node of
\* the command line never had a worker.
LEMMA StageEnds ==
    ASSUME NEW t \in Sessions, Stage(t), setup' = setup, at'[t] \in {"failed", "crashed"},
           CliNode(t) => child'[t] = NoChild /\ disp'[t].accept = "none" /\ job'[t] = "none"
    PROVE  Stage(t)'
BY DEF Stage, Is, CliNode

\* Before any init, nothing is up.
LEMMA InitInv == Init => Inv
<1> SUFFICES ASSUME Init PROVE Inv
    OBVIOUS
<1>1. TypeOK
    BY SessionAssumption DEF Init, TypeOK, Paths, NoDisp, DispRec, NoChild, ChildRec, Nothing,
       OwnRec
<1>2. ASSUME NEW s \in Sessions PROVE Stage(s)
    BY DEF Init, Stage, NoDisp
<1> QED
    BY <1>1, <1>2 DEF Inv

-----------------------------------------------------------------------------
(* install                                                                 *)

\* init starts: nothing is up.
LEMMA BeginInv == ASSUME NEW s \in Sessions, Inv, Begin(s) PROVE Inv'
<1>1. TypeOK'
    BY DEF Inv, TypeOK, Begin, At, Goto, Installing, Tearing, Ended
<1>2. ASSUME NEW t \in Sessions, t # s PROVE Stage(t)'
    BY <1>2, StageKept DEF Inv, TypeOK, Begin, At, Goto
<1>3. Stage(s)'
    <2>1. Stage(s) /\ at[s] = "new"
        BY DEF Inv, Begin, At
    <2>2. /\ at'[s] = "plasma" /\ child'[s] = child[s] /\ disp'[s] = disp[s]
          /\ node'[s] = node[s] /\ job'[s] = job[s] /\ own'[s] = own[s] /\ setup' = setup
        BY <2>1 DEF Inv, TypeOK, OwnRec, DispRec, Begin, At, Goto
    <2> QED
        BY <2>1, <2>2 DEF Stage, CliNode, Is, NoChild
<1> QED
    BY <1>1, <1>2, <1>3 DEF Inv

\* The plasma server is up, or init failed.
LEMMA ResolvePlasmaInv == ASSUME NEW s \in Sessions, Inv, ResolvePlasma(s) PROVE Inv'
<1>1. TypeOK'
    <2>1. own' = [own EXCEPT ![s] = Nothing] \/ own' = [own EXCEPT ![s].plasma = ~Is(s, "shared")]
        BY DEF ResolvePlasma, Raise, DropHandle, NoFault, Fault, CliNode
    <2>2. own' \in [Sessions -> OwnRec]
        <3>1. CASE own' = [own EXCEPT ![s] = Nothing]
            BY <3>1, OwnType DEF Inv, TypeOK
        <3>2. CASE own' = [own EXCEPT ![s].plasma = ~Is(s, "shared")]
            BY <3>2, OwnUpdate, Zenon DEF Inv, TypeOK
        <3> QED
            BY <2>1, <3>1, <3>2
    <2>3. faults' \in 0..MaxFaults
        BY FaultType DEF Inv, ResolvePlasma, Raise, DropHandle, CliNode, Is
    <2> QED
        BY <2>1, <2>2, <2>3 DEF Inv, TypeOK, ResolvePlasma, At, Goto, Installing, Tearing, Ended,
           Raise, DropHandle, CliNode, Is
<1>2. ASSUME NEW t \in Sessions, t # s PROVE Stage(t)'
    BY <1>2, StageKept DEF Inv, TypeOK, ResolvePlasma, At, Goto, Raise, DropHandle, NoFault,
       Fault, CliNode, Is
<1>3. Stage(s)'
    <2>1. Stage(s) /\ at[s] = "plasma"
        BY DEF Inv, ResolvePlasma, At
    <2>2. CASE at'[s] = "failed"
        <3>1. setup' = setup /\ child' = child /\ disp' = disp /\ job' = job
            BY DEF ResolvePlasma
        <3>2. CliNode(s) => child[s] = NoChild /\ disp[s].accept = "none" /\ job[s] = "none"
            BY <2>1 DEF Stage
        <3> QED
            BY <2>1, <2>2, <3>1, <3>2, StageEnds
    <2>3. CASE at'[s] # "failed"
        <3>1. /\ at'[s] = (IF CliNode(s) THEN "serve" ELSE "unlink")
              /\ own'[s].plasma = ~Is(s, "shared") /\ child'[s] = child[s] /\ disp'[s] = disp[s]
              /\ node'[s] = node[s] /\ job'[s] = job[s] /\ setup' = setup
            BY <2>1, <2>3 DEF Inv, TypeOK, OwnRec, DispRec, ResolvePlasma, At, Goto, Raise,
               DropHandle, NoFault, Fault, CliNode, Is
        <3> QED
            BY <2>1, <3>1, Zenon DEF Stage, CliNode, Is, NoChild
    <2> QED
        BY <2>2, <2>3
<1> QED
    BY <1>1, <1>2, <1>3 DEF Inv

\* The unlink changes nothing a stage speaks of.
LEMMA UnlinkSocketInv == ASSUME NEW s \in Sessions, Inv, UnlinkSocket(s) PROVE Inv'
<1>1. TypeOK'
    BY DEF Inv, TypeOK, UnlinkSocket, At, Goto, Installing, Tearing, Ended, Takes, Path, Paths
<1>2. ASSUME NEW t \in Sessions, t # s PROVE Stage(t)'
    BY <1>2, StageKept DEF Inv, TypeOK, UnlinkSocket, At, Goto, Takes, Path, Paths
<1>3. Stage(s)'
    <2>1. Stage(s) /\ at[s] = "unlink"
        BY DEF Inv, UnlinkSocket, At
    <2>2. /\ at'[s] = "bind" /\ child'[s] = child[s] /\ disp'[s] = disp[s] /\ node'[s] = node[s]
          /\ job'[s] = job[s] /\ own'[s] = own[s] /\ setup' = setup
        BY <2>1 DEF Inv, TypeOK, OwnRec, DispRec, UnlinkSocket, At, Goto, Takes, Path, Paths
    <2> QED
        BY <2>1, <2>2 DEF Stage, CliNode, Is, NoChild
<1> QED
    BY <1>1, <1>2, <1>3 DEF Inv

\* The first step that forks: it leaves Unforked.
LEMMA StartDispatcherInv == ASSUME NEW s \in Sessions, Inv, StartDispatcher(s) PROVE Inv'
<1>1. TypeOK'
    <2>1. own' = [own EXCEPT ![s] = Nothing] \/ own' = own
        BY DEF StartDispatcher, Raise, DropHandle, NoFault, Fault, Path, Paths
    <2>2. own' \in [Sessions -> OwnRec]
        <3>1. CASE own' = [own EXCEPT ![s] = Nothing]
            BY <3>1, OwnType DEF Inv, TypeOK
        <3>2. CASE own' = own
            BY <3>2 DEF Inv, TypeOK
        <3> QED
            BY <2>1, <3>1, <3>2
    <2>3. disp' = disp \/ disp' = [disp EXCEPT ![s].accept = "waiting"]
        BY DEF StartDispatcher, Raise, DropHandle, NoFault, Fault, Path, Paths
    <2>4. disp' \in [Sessions -> DispRec]
        <3>1. disp \in [Sessions -> DispRec]
            BY DEF Inv, TypeOK
        <3>2. [disp EXCEPT ![s].accept = "waiting"] \in [Sessions -> DispRec]
            BY <3>1, DispUpdate, Zenon
        <3> QED
            BY <2>3, <3>1, <3>2
    <2>5. child' \in [Sessions -> ChildRec]
        <3>1. child \in [Sessions -> ChildRec] /\ child[s] = NoChild
            BY DEF Inv, TypeOK, StartDispatcher, Stage, At
        <3>2. child' = child \/ child' = [child EXCEPT ![s] = [child[s] EXCEPT !.up = "starting"]]
            BY DEF StartDispatcher
        <3> QED
            BY <3>1, <3>2, ChildType
    <2>6. faults' \in 0..MaxFaults
        BY FaultType DEF Inv, StartDispatcher, Raise, DropHandle, Path, Paths
    <2> QED
        BY <2>1, <2>2, <2>3, <2>4, <2>5, <2>6 DEF Inv, TypeOK, StartDispatcher, At, Goto,
           Installing, Tearing, Ended, Raise, DropHandle, Path, Paths
<1>2. ASSUME NEW t \in Sessions, t # s PROVE Stage(t)'
    BY <1>2, StageKept DEF Inv, TypeOK, StartDispatcher, At, Goto, Raise, DropHandle, NoFault,
       Fault, Path, Paths
<1>3. Stage(s)'
    <2>1. Stage(s) /\ at[s] = "bind"
        BY SMTT(30) DEF Inv, StartDispatcher, At
    <2>2. CASE at'[s] = "failed"
        <3>1. setup' = setup
            BY DEF StartDispatcher
        <3>2. ~CliNode(s)
            BY <2>1 DEF Stage
        <3> QED
            BY <2>1, <2>2, <3>1, <3>2, StageEnds
    <2>3. CASE at'[s] # "failed"
        <3>1. /\ at'[s] = "workers" /\ own'[s] = own[s] /\ node'[s] = node[s]
              /\ job'[s] = job[s] /\ setup' = setup
            BY <2>1, <2>3 DEF Inv, TypeOK, OwnRec, DispRec, StartDispatcher, At, Goto, Raise,
               DropHandle, NoFault, Fault, Path, Paths
        <3> QED
            BY <2>1, <3>1 DEF Stage, CliNode, Is, NoChild
    <2> QED
        BY <2>2, <2>3
<1> QED
    BY <1>1, <1>2, <1>3 DEF Inv

\* The wait brings nothing up.
LEMMA WaitForWorkersInv == ASSUME NEW s \in Sessions, Inv, WaitForWorkers(s) PROVE Inv'
<1>1. TypeOK'
    <2>1. own' = [own EXCEPT ![s] = Nothing] \/ own' = own
        BY DEF WaitForWorkers, Raise, DropHandle
    <2>2. own' \in [Sessions -> OwnRec]
        <3>1. CASE own' = [own EXCEPT ![s] = Nothing]
            BY <3>1, OwnType DEF Inv, TypeOK
        <3>2. CASE own' = own
            BY <3>2 DEF Inv, TypeOK
        <3> QED
            BY <2>1, <3>1, <3>2
    <2> QED
        BY <2>1, <2>2 DEF Inv, TypeOK, WaitForWorkers, At, Goto, Installing, Tearing, Ended,
           Raise, DropHandle
<1>2. ASSUME NEW t \in Sessions, t # s PROVE Stage(t)'
    BY <1>2, StageKept DEF Inv, TypeOK, WaitForWorkers, At, Goto, Raise, DropHandle
<1>3. Stage(s)'
    <2>1. Stage(s) /\ at[s] = "workers"
        BY SMTT(30) DEF Inv, WaitForWorkers, At
    <2>2. CASE at'[s] = "failed"
        <3>1. setup' = setup /\ child' = child /\ disp' = disp /\ job' = job
            BY DEF WaitForWorkers
        <3>2. CliNode(s) => child[s] = NoChild /\ disp[s].accept = "none" /\ job[s] = "none"
            BY <2>1 DEF Stage
        <3> QED
            BY <2>1, <2>2, <3>1, <3>2, StageEnds
    <2>3. CASE at'[s] # "failed"
        <3>1. /\ at'[s] = "serve" /\ child'[s] = child[s] /\ disp'[s] = disp[s]
              /\ node'[s] = node[s] /\ job'[s] = job[s] /\ own'[s] = own[s] /\ setup' = setup
            BY <2>1, <2>3 DEF Inv, TypeOK, OwnRec, DispRec, WaitForWorkers, At, Goto, Raise,
               DropHandle
        <3> QED
            BY <2>1, <3>1 DEF Stage, CliNode, Is, NoChild
    <2> QED
        BY <2>2, <2>3
<1> QED
    BY <1>1, <1>2, <1>3 DEF Inv

\* The server is up before the registration.
LEMMA ServeInv == ASSUME NEW s \in Sessions, Inv, Serve(s) PROVE Inv'
<1>1. TypeOK'
    <2>1. own' = [own EXCEPT ![s] = Nothing] \/ own' = [own EXCEPT ![s].server = TRUE]
        BY DEF Serve, Raise, DropHandle, NoFault, Fault
    <2>2. own' \in [Sessions -> OwnRec]
        <3>1. CASE own' = [own EXCEPT ![s] = Nothing]
            BY <3>1, OwnType DEF Inv, TypeOK
        <3>2. CASE own' = [own EXCEPT ![s].server = TRUE]
            BY <3>2, OwnUpdate, Zenon DEF Inv, TypeOK
        <3> QED
            BY <2>1, <3>1, <3>2
    <2>3. faults' \in 0..MaxFaults
        BY FaultType DEF Inv, Serve, Raise, DropHandle
    <2> QED
        BY <2>1, <2>2, <2>3 DEF Inv, TypeOK, Serve, At, Goto, Installing, Tearing, Ended, Raise,
           DropHandle
<1>2. ASSUME NEW t \in Sessions, t # s PROVE Stage(t)'
    BY <1>2, StageKept DEF Inv, TypeOK, Serve, At, Goto, Raise, DropHandle, NoFault, Fault
<1>3. Stage(s)'
    <2>1. Stage(s) /\ at[s] = "serve"
        BY DEF Inv, Serve, At
    <2>2. CASE at'[s] = "failed"
        <3>1. setup' = setup /\ child' = child /\ disp' = disp /\ job' = job
            BY DEF Serve
        <3>2. CliNode(s) => child[s] = NoChild /\ disp[s].accept = "none" /\ job[s] = "none"
            BY <2>1 DEF Stage
        <3> QED
            BY <2>1, <2>2, <3>1, <3>2, StageEnds
    <2>3. CASE at'[s] # "failed"
        <3>1. /\ at'[s] = "register" /\ own'[s].server /\ own'[s].plasma = own[s].plasma
              /\ child'[s] = child[s] /\ disp'[s] = disp[s] /\ node'[s] = node[s]
              /\ job'[s] = job[s] /\ setup' = setup
            BY <2>1, <2>3 DEF Inv, TypeOK, OwnRec, DispRec, Serve, At, Goto, Raise, DropHandle,
               NoFault, Fault
        <3> QED
            BY <2>1, <3>1 DEF Stage, CliNode, Is, NoChild
    <2> QED
        BY <2>2, <2>3
<1> QED
    BY <1>1, <1>2, <1>3 DEF Inv

\* Registered while serving.
LEMMA RegisterInv == ASSUME NEW s \in Sessions, Inv, Register(s) PROVE Inv'
<1>1. TypeOK'
    <2>1. own' = [own EXCEPT ![s] = Nothing] \/ own' = own
        BY DEF Register, Raise, DropHandle, NoFault, Fault, Answered, Unanswered
    <2>2. own' \in [Sessions -> OwnRec]
        <3>1. CASE own' = [own EXCEPT ![s] = Nothing]
            BY <3>1, OwnType DEF Inv, TypeOK
        <3>2. CASE own' = own
            BY <3>2 DEF Inv, TypeOK
        <3> QED
            BY <2>1, <3>1, <3>2
    <2>3. faults' \in 0..MaxFaults
        BY FaultType DEF Inv, Register, Raise, DropHandle, Answered, Unanswered
    <2> QED
        BY <2>1, <2>2, <2>3 DEF Inv, TypeOK, Register, At, Goto, Installing, Tearing, Ended,
           Raise, DropHandle, Answered, Unanswered
<1>2. ASSUME NEW t \in Sessions, t # s PROVE Stage(t)'
    BY <1>2, StageKept DEF Inv, TypeOK, Register, At, Goto, Raise, DropHandle, NoFault, Fault,
       Answered, Unanswered
<1>3. Stage(s)'
    <2>1. Stage(s) /\ at[s] = "register"
        BY SMTT(30) DEF Inv, Register, At
    <2>2. CASE at'[s] = "failed"
        <3>1. setup' = setup /\ child' = child /\ disp' = disp /\ job' = job
            BY DEF Register
        <3>2. CliNode(s) => child[s] = NoChild /\ disp[s].accept = "none" /\ job[s] = "none"
            BY <2>1 DEF Stage
        <3> QED
            BY <2>1, <2>2, <3>1, <3>2, StageEnds
    <2>3. CASE at'[s] # "failed"
        <3>1. /\ at'[s] = "beat" /\ child'[s] = child[s] /\ disp'[s] = disp[s]
              /\ job'[s] = job[s] /\ own'[s] = own[s] /\ setup' = setup
            BY <2>1, <2>3 DEF Inv, TypeOK, OwnRec, DispRec, Register, At, Goto, Raise,
               DropHandle, NoFault, Fault, Answered, Unanswered
        <3> QED
            BY <2>1, <3>1 DEF Stage, CliNode, Is, NoChild
    <2> QED
        BY <2>2, <2>3
<1> QED
    BY <1>1, <1>2, <1>3 DEF Inv

\* The heartbeat starts; a node of the command line is done.
LEMMA StartTasksInv == ASSUME NEW s \in Sessions, Inv, StartTasks(s) PROVE Inv'
<1>1. TypeOK'
    <2>1. own' = [own EXCEPT ![s] = Nothing] \/ own' = [own EXCEPT ![s].beat = TRUE]
        BY DEF StartTasks, Raise, DropHandle, NoFault, Fault, CliNode
    <2>2. own' \in [Sessions -> OwnRec]
        <3>1. CASE own' = [own EXCEPT ![s] = Nothing]
            BY <3>1, OwnType DEF Inv, TypeOK
        <3>2. CASE own' = [own EXCEPT ![s].beat = TRUE]
            BY <3>2, OwnUpdate, Zenon DEF Inv, TypeOK
        <3> QED
            BY <2>1, <3>1, <3>2
    <2>3. faults' \in 0..MaxFaults
        BY FaultType DEF Inv, StartTasks, Raise, DropHandle, CliNode, Is
    <2> QED
        BY <2>1, <2>2, <2>3 DEF Inv, TypeOK, StartTasks, At, Goto, Installing, Tearing, Ended,
           Raise, DropHandle, CliNode, Is
<1>2. ASSUME NEW t \in Sessions, t # s PROVE Stage(t)'
    BY <1>2, StageKept DEF Inv, TypeOK, StartTasks, At, Goto, Raise, DropHandle, NoFault, Fault,
       CliNode, Is
<1>3. Stage(s)'
    <2>1. Stage(s) /\ at[s] = "beat"
        BY DEF Inv, StartTasks, At
    <2>2. CASE at'[s] = "failed"
        <3>1. setup' = setup /\ child' = child /\ disp' = disp /\ job' = job
            BY DEF StartTasks
        <3>2. CliNode(s) => child[s] = NoChild /\ disp[s].accept = "none" /\ job[s] = "none"
            BY <2>1 DEF Stage
        <3> QED
            BY <2>1, <2>2, <3>1, <3>2, StageEnds
    <2>3. CASE at'[s] # "failed"
        <3>1. /\ at'[s] = (IF CliNode(s) THEN "installed" ELSE "addjob")
              /\ own'[s].server = own[s].server /\ own'[s].plasma = own[s].plasma
              /\ child'[s] = child[s] /\ disp'[s] = disp[s] /\ node'[s] = node[s]
              /\ job'[s] = job[s] /\ setup' = setup
            BY <2>1, <2>3 DEF Inv, TypeOK, OwnRec, DispRec, StartTasks, At, Goto, Raise,
               DropHandle, NoFault, Fault, CliNode, Is
        <3> QED
            BY <2>1, <3>1 DEF Stage, CliNode, Is, NoChild
    <2> QED
        BY <2>2, <2>3
<1> QED
    BY <1>1, <1>2, <1>3 DEF Inv

\* Only a driver has a job.
LEMMA AddJobInv == ASSUME NEW s \in Sessions, Inv, AddJob(s) PROVE Inv'
<1>1. TypeOK'
    <2>1. own' = [own EXCEPT ![s] = Nothing] \/ own' = own
        BY DEF AddJob, Raise, DropHandle, NoFault, Fault, Answered, Unanswered
    <2>2. own' \in [Sessions -> OwnRec]
        <3>1. CASE own' = [own EXCEPT ![s] = Nothing]
            BY <3>1, OwnType DEF Inv, TypeOK
        <3>2. CASE own' = own
            BY <3>2 DEF Inv, TypeOK
        <3> QED
            BY <2>1, <3>1, <3>2
    <2>3. faults' \in 0..MaxFaults
        BY FaultType DEF Inv, AddJob, Raise, DropHandle, Answered, Unanswered
    <2> QED
        BY <2>1, <2>2, <2>3 DEF Inv, TypeOK, AddJob, At, Goto, Installing, Tearing, Ended, Raise,
           DropHandle, Answered, Unanswered
<1>2. ASSUME NEW t \in Sessions, t # s PROVE Stage(t)'
    BY <1>2, StageKept, SMTT(30) DEF Inv, TypeOK, AddJob, At, Goto, Raise, DropHandle, NoFault, Fault,
       Answered, Unanswered
<1>3. Stage(s)'
    <2>1. Stage(s) /\ at[s] = "addjob" /\ ~CliNode(s)
        BY SMTT(30) DEF Inv, Stage, AddJob, At
    <2>2. CASE at'[s] = "failed"
        <3>1. setup' = setup
            BY DEF AddJob
        <3>2. ~CliNode(s)
            BY <2>1 DEF Stage
        <3> QED
            BY <2>1, <2>2, <3>1, <3>2, StageEnds
    <2>3. CASE at'[s] # "failed"
        <3>1. /\ at'[s] = "metrics" /\ child'[s] = child[s] /\ disp'[s] = disp[s]
              /\ node'[s] = node[s] /\ own'[s] = own[s] /\ setup' = setup
            BY <2>1, <2>3 DEF Inv, TypeOK, OwnRec, DispRec, AddJob, At, Goto, Raise, DropHandle,
               NoFault, Fault, Answered, Unanswered
        <3> QED
            BY <2>1, <3>1 DEF Stage, CliNode, Is, NoChild
    <2> QED
        BY <2>2, <2>3
<1> QED
    BY <1>1, <1>2, <1>3 DEF Inv

\* SESSION is set, or init failed with everything up.
LEMMA InstallInv == ASSUME NEW s \in Sessions, Inv, Install(s) PROVE Inv'
<1>1. TypeOK'
    <2>1. own' = [own EXCEPT ![s] = Nothing] \/ own' = own
        BY DEF Install, Raise, DropHandle, NoFault, Fault
    <2>2. own' \in [Sessions -> OwnRec]
        <3>1. CASE own' = [own EXCEPT ![s] = Nothing]
            BY <3>1, OwnType DEF Inv, TypeOK
        <3>2. CASE own' = own
            BY <3>2 DEF Inv, TypeOK
        <3> QED
            BY <2>1, <3>1, <3>2
    <2>3. faults' \in 0..MaxFaults
        BY FaultType, SMTT(30) DEF Inv, Install, Raise, DropHandle
    <2>4. current' \in [Procs -> Sessions \cup {None}]
        BY ProcType DEF Inv, TypeOK, Install
    <2> QED
        BY <2>1, <2>2, <2>3, <2>4 DEF Inv, TypeOK, Install, At, Goto, Installing, Tearing, Ended,
           Raise, DropHandle
<1>2. ASSUME NEW t \in Sessions, t # s PROVE Stage(t)'
    BY <1>2, StageKept DEF Inv, TypeOK, Install, At, Goto, Raise, DropHandle, NoFault, Fault
<1>3. Stage(s)'
    <2>1. Stage(s) /\ at[s] = "metrics"
        BY SMTT(30) DEF Inv, Install, At
    <2>2. CASE at'[s] = "failed"
        <3>1. setup' = setup /\ child' = child /\ disp' = disp /\ job' = job
            BY DEF Install
        <3>2. CliNode(s) => child[s] = NoChild /\ disp[s].accept = "none" /\ job[s] = "none"
            BY <2>1 DEF Stage
        <3> QED
            BY <2>1, <2>2, <3>1, <3>2, StageEnds
    <2>3. CASE at'[s] # "failed"
        <3>1. /\ at'[s] = "installed" /\ child'[s] = child[s] /\ disp'[s] = disp[s]
              /\ node'[s] = node[s] /\ job'[s] = job[s] /\ own'[s] = own[s] /\ setup' = setup
            BY <2>1, <2>3, SMTT(30) DEF Inv, TypeOK, OwnRec, DispRec, Install, At, Goto, Raise, DropHandle,
               NoFault, Fault
        <3> QED
            BY <2>1, <3>1 DEF Stage, CliNode, Is, NoChild
    <2> QED
        BY <2>2, <2>3
<1> QED
    BY <1>1, <1>2, <1>3 DEF Inv

-----------------------------------------------------------------------------
(* uninstall                                                               *)

\* shutdown starts where a driver or a node of the command line has to.
LEMMA UninstallInv == ASSUME NEW s \in Sessions, Inv, Uninstall(s) PROVE Inv'
<1>1. TypeOK'
    <2>1. current' \in [Procs -> Sessions \cup {None}]
        BY ProcType, SMTT(30) DEF Inv, TypeOK, Uninstall
    <2> QED
        BY <2>1, SMTT(30) DEF Inv, TypeOK, Uninstall, At, Goto, Installing, Tearing, Ended, CliNode, Is
<1>2. ASSUME NEW t \in Sessions, t # s PROVE Stage(t)'
    BY <1>2, StageKept, SMTT(30) DEF Inv, TypeOK, Uninstall, At, Goto, CliNode, Is
<1>3. Stage(s)'
    <2>1. Stage(s) /\ at[s] = "installed"
        BY DEF Inv, Uninstall, At
    <2>2. /\ at'[s] = (IF CliNode(s) THEN "quiet" ELSE "free") /\ child'[s] = child[s]
          /\ disp'[s] = disp[s] /\ node'[s] = node[s] /\ job'[s] = job[s] /\ own'[s] = own[s]
          /\ setup' = setup
        BY <2>1 DEF Inv, TypeOK, OwnRec, DispRec, Uninstall, At, Goto, CliNode, Is
    <2> QED
        BY <2>1, <2>2 DEF Stage, CliNode, Is, NoChild
<1> QED
    BY <1>1, <1>2, <1>3 DEF Inv

\* The flag leaves the accept thread where it is.
LEMMA SetShutdownInv == ASSUME NEW s \in Sessions, Inv, SetShutdown(s) PROVE Inv'
<1>1. TypeOK'
    <2>1. disp' \in [Sessions -> DispRec]
        BY DispUpdate, Zenon DEF Inv, TypeOK, SetShutdown
    <2> QED
        BY <2>1 DEF Inv, TypeOK, SetShutdown, At, Goto, Installing, Tearing, Ended
<1>2. ASSUME NEW t \in Sessions, t # s PROVE Stage(t)'
    BY <1>2, StageKept, SMTT(30) DEF Inv, TypeOK, SetShutdown, At, Goto
<1>3. Stage(s)'
    <2>1. Stage(s) /\ at[s] = "free"
        BY DEF Inv, SetShutdown, At
    <2>2. /\ at'[s] = "join" /\ disp'[s].accept = disp[s].accept /\ child'[s] = child[s]
          /\ node'[s] = node[s] /\ job'[s] = job[s] /\ own'[s] = own[s] /\ setup' = setup
        BY <2>1 DEF Inv, TypeOK, OwnRec, DispRec, SetShutdown, At, Goto
    <2> QED
        BY <2>1, <2>2 DEF Stage, CliNode, Is, NoChild
<1> QED
    BY <1>1, <1>2, <1>3 DEF Inv

\* Past the join the accept thread is done.
LEMMA JoinAcceptInv == ASSUME NEW s \in Sessions, Inv, JoinAccept(s) PROVE Inv'
<1>1. TypeOK'
    BY DEF Inv, TypeOK, JoinAccept, At, Goto, Installing, Tearing, Ended
<1>2. ASSUME NEW t \in Sessions, t # s PROVE Stage(t)'
    BY <1>2, StageKept, SMTT(30) DEF Inv, TypeOK, JoinAccept, At, Goto
<1>3. Stage(s)'
    <2>1. Stage(s) /\ at[s] = "accept" /\ disp[s].accept = "done"
        BY DEF Inv, JoinAccept, At
    <2>2. /\ at'[s] = "remove" /\ child'[s] = child[s] /\ disp'[s] = disp[s]
          /\ node'[s] = node[s] /\ job'[s] = job[s] /\ own'[s] = own[s] /\ setup' = setup
        BY <2>1 DEF Inv, TypeOK, OwnRec, DispRec, JoinAccept, At, Goto
    <2> QED
        BY <2>1, <2>2, SMTT(30) DEF Stage, CliNode, Is, NoChild
<1> QED
    BY <1>1, <1>2, <1>3 DEF Inv

\* The removal changes nothing a stage speaks of.
LEMMA RemoveSocketInv == ASSUME NEW s \in Sessions, Inv, RemoveSocket(s) PROVE Inv'
<1>1. TypeOK'
    BY DEF Inv, TypeOK, RemoveSocket, At, Goto, Installing, Tearing, Ended, Takes, Path, Paths
<1>2. ASSUME NEW t \in Sessions, t # s PROVE Stage(t)'
    BY <1>2, StageKept, SMTT(30) DEF Inv, TypeOK, RemoveSocket, At, Goto, Takes, Path, Paths
<1>3. Stage(s)'
    <2>1. Stage(s) /\ at[s] = "remove"
        BY DEF Inv, RemoveSocket, At
    <2>2. /\ at'[s] = "reap" /\ child'[s] = child[s] /\ disp'[s] = disp[s] /\ node'[s] = node[s]
          /\ job'[s] = job[s] /\ own'[s] = own[s] /\ setup' = setup
        BY <2>1, SMTT(30) DEF Inv, TypeOK, OwnRec, DispRec, RemoveSocket, At, Goto, Takes, Path, Paths
    <2> QED
        BY <2>1, <2>2 DEF Stage, CliNode, Is, NoChild
<1> QED
    BY <1>1, <1>2, <1>3 DEF Inv

\* Past the reaping no worker is left.
LEMMA ReapInv == ASSUME NEW s \in Sessions, Inv, Reap(s) PROVE Inv'
<1>1. TypeOK'
    <2>1. child' \in [Sessions -> ChildRec]
        BY ChildType DEF Inv, TypeOK, Reap, NoChild, Stage, Unforked, At
    <2> QED
        BY <2>1 DEF Inv, TypeOK, Reap, At, Goto, Installing, Tearing, Ended
<1>2. ASSUME NEW t \in Sessions, t # s PROVE Stage(t)'
    BY <1>2, StageKept, SMTT(30) DEF Inv, TypeOK, Reap, At, Goto
<1>3. Stage(s)'
    <2>1. Stage(s) /\ at[s] = "reap"
        BY DEF Inv, Reap, At
    <2>2. /\ at'[s] = "finish" /\ child'[s].up = "gone" /\ disp'[s] = disp[s]
          /\ node'[s] = node[s] /\ job'[s] = job[s] /\ own'[s] = own[s] /\ setup' = setup
        BY <2>1 DEF Inv, TypeOK, OwnRec, DispRec, Reap, At, Goto
    <2> QED
        BY <2>1, <2>2 DEF Stage, CliNode, Is, NoChild
<1> QED
    BY <1>1, <1>2, <1>3 DEF Inv

\* The job is finished, or the loss is recorded.
LEMMA MarkJobFinishedInv == ASSUME NEW s \in Sessions, Inv, MarkJobFinished(s) PROVE Inv'
<1>1. TypeOK'
    <2>1. faults' \in 0..MaxFaults
        BY FaultType DEF Inv, MarkJobFinished, Answered, Unanswered
    <2> QED
        BY <2>1 DEF Inv, TypeOK, MarkJobFinished, At, Goto, Installing, Tearing, Ended, Answered,
           Unanswered
<1>2. ASSUME NEW t \in Sessions, t # s PROVE Stage(t)'
    BY <1>2, StageKept, SMTT(30) DEF Inv, TypeOK, MarkJobFinished, At, Goto, Answered, Unanswered, NoFault,
       Fault
<1>3. Stage(s)'
    <2>1. Stage(s) /\ at[s] = "finish"
        BY DEF Inv, MarkJobFinished, At
    <2>2. /\ at'[s] = "quiet" /\ (job'[s] = "finished" \/ s \in unsaid')
          /\ child'[s] = child[s] /\ disp'[s] = disp[s] /\ node'[s] = node[s] /\ own'[s] = own[s] /\ setup' = setup
        BY <2>1 DEF Inv, TypeOK, OwnRec, DispRec, MarkJobFinished, At, Goto, Answered,
           Unanswered, NoFault, Fault
    <2> QED
        BY <2>1, <2>2 DEF Stage, CliNode, Is, NoChild
<1> QED
    BY <1>1, <1>2, <1>3 DEF Inv

\* Past it nothing beats.
LEMMA StopTasksInv == ASSUME NEW s \in Sessions, Inv, StopTasks(s) PROVE Inv'
<1>1. TypeOK'
    <2>1. own' \in [Sessions -> OwnRec]
        BY OwnUpdate, Zenon DEF Inv, TypeOK, StopTasks
    <2> QED
        BY <2>1 DEF Inv, TypeOK, StopTasks, At, Goto, Installing, Tearing, Ended
<1>2. ASSUME NEW t \in Sessions, t # s PROVE Stage(t)'
    BY <1>2, StageKept DEF Inv, TypeOK, StopTasks, At, Goto
<1>3. Stage(s)'
    <2>1. Stage(s) /\ at[s] = "quiet"
        BY DEF Inv, StopTasks, At
    <2>2. /\ at'[s] = "drain" /\ ~own'[s].beat /\ own'[s].server = own[s].server
          /\ own'[s].plasma = own[s].plasma /\ unsaid' = unsaid /\ child'[s] = child[s]
          /\ disp'[s] = disp[s] /\ node'[s] = node[s] /\ job'[s] = job[s] /\ setup' = setup
        BY <2>1 DEF Inv, TypeOK, OwnRec, DispRec, StopTasks, At, Goto
    <2> QED
        BY <2>1, <2>2, Zenon DEF Stage, CliNode, Is, NoChild
<1> QED
    BY <1>1, <1>2, <1>3 DEF Inv

\* The node has left, or the loss is recorded.
LEMMA DrainInv == ASSUME NEW s \in Sessions, Inv, Drain(s) PROVE Inv'
<1>1. TypeOK'
    <2>1. faults' \in 0..MaxFaults
        BY FaultType DEF Inv, Drain, Answered, Unanswered
    <2> QED
        BY <2>1 DEF Inv, TypeOK, Drain, At, Goto, Installing, Tearing, Ended, Answered, Unanswered
<1>2. ASSUME NEW t \in Sessions, t # s PROVE Stage(t)'
    BY <1>2, StageKept, SMTT(30) DEF Inv, TypeOK, Drain, At, Goto, Answered, Unanswered, NoFault, Fault
<1>3. Stage(s)'
    <2>1. Stage(s) /\ at[s] = "drain"
        BY DEF Inv, Drain, At
    <2>2. /\ at'[s] = "stop" /\ (node'[s] = "draining" \/ s \in unsaid')
          /\ unsaid \subseteq unsaid' /\ child'[s] = child[s] /\ disp'[s] = disp[s] /\ job'[s] = job[s] /\ own'[s] = own[s] /\ setup' = setup
        BY <2>1 DEF Inv, TypeOK, OwnRec, DispRec, Drain, At, Goto, Answered, Unanswered, NoFault,
           Fault
    <2> QED
        BY <2>1, <2>2, Zenon DEF Stage, CliNode, Is, NoChild
<1> QED
    BY <1>1, <1>2, <1>3 DEF Inv

\* The server stops after the drain.
LEMMA StopServerInv == ASSUME NEW s \in Sessions, Inv, StopServer(s) PROVE Inv'
<1>1. TypeOK'
    <2>1. own' \in [Sessions -> OwnRec]
        BY OwnUpdate, Zenon DEF Inv, TypeOK, StopServer
    <2> QED
        BY <2>1 DEF Inv, TypeOK, StopServer, At, Goto, Installing, Tearing, Ended
<1>2. ASSUME NEW t \in Sessions, t # s PROVE Stage(t)'
    BY <1>2, StageKept, SMTT(30) DEF Inv, TypeOK, StopServer, At, Goto
<1>3. Stage(s)'
    <2>1. Stage(s) /\ at[s] = "stop"
        BY DEF Inv, StopServer, At
    <2>2. /\ at'[s] = "drop" /\ ~own'[s].server /\ own'[s].beat = own[s].beat
          /\ own'[s].plasma = own[s].plasma /\ unsaid' = unsaid /\ child'[s] = child[s]
          /\ disp'[s] = disp[s] /\ node'[s] = node[s] /\ job'[s] = job[s] /\ setup' = setup
        BY <2>1 DEF Inv, TypeOK, OwnRec, DispRec, StopServer, At, Goto
    <2> QED
        BY <2>1, <2>2 DEF Stage, CliNode, Is, NoChild
<1> QED
    BY <1>1, <1>2, <1>3 DEF Inv

\* The plasma server goes last.
LEMMA DropPlasmaInv == ASSUME NEW s \in Sessions, Inv, DropPlasma(s) PROVE Inv'
<1>1. TypeOK'
    <2>1. own' \in [Sessions -> OwnRec]
        BY OwnUpdate, Zenon DEF Inv, TypeOK, DropPlasma
    <2> QED
        BY <2>1 DEF Inv, TypeOK, DropPlasma, At, Goto, Installing, Tearing, Ended
<1>2. ASSUME NEW t \in Sessions, t # s PROVE Stage(t)'
    BY <1>2, StageKept, SMTT(30) DEF Inv, TypeOK, DropPlasma, At, Goto
<1>3. Stage(s)'
    <2>1. Stage(s) /\ at[s] = "drop"
        BY DEF Inv, DropPlasma, At
    <2>2. /\ at'[s] = "closed" /\ ~own'[s].plasma /\ own'[s].beat = own[s].beat
          /\ own'[s].server = own[s].server /\ unsaid' = unsaid /\ child'[s] = child[s]
          /\ disp'[s] = disp[s] /\ node'[s] = node[s] /\ job'[s] = job[s] /\ setup' = setup
        BY <2>1 DEF Inv, TypeOK, OwnRec, DispRec, DropPlasma, At, Goto
    <2> QED
        BY <2>1, <2>2 DEF Stage, CliNode, Is, NoChild
<1> QED
    BY <1>1, <1>2, <1>3 DEF Inv

-----------------------------------------------------------------------------
(* Steps that reach other sessions, and those of the background.           *)

\* The workers of this dispatcher, whoever forked them, start to exit.
LEMMA JoinHandlersInv == ASSUME NEW s \in Sessions, Inv, JoinHandlers(s) PROVE Inv'
<1>1. \A t \in Sessions : child[t] \in ChildRec /\ (child'[t] = child[t] \/
          (child[t].up = "connected" /\ child'[t] = [child[t] EXCEPT !.up = "exiting"]))
    BY DEF Inv, TypeOK, JoinHandlers
<1>2. child' \in [Sessions -> ChildRec]
    BY <1>1, ChildType, Zenon DEF JoinHandlers
<1>3. TypeOK'
    BY <1>2 DEF Inv, TypeOK, JoinHandlers, At, Goto, Installing, Tearing, Ended
<1>4. ASSUME NEW t \in Sessions PROVE Stage(t)'
    <2>1. CASE child'[t] = child[t] /\ t # s
        BY <2>1, StageKept DEF Inv, TypeOK, JoinHandlers, At, Goto
    <2>2. CASE child'[t] # child[t] /\ t # s
        <3>1. /\ child[t].up = "connected" /\ child'[t] = [child[t] EXCEPT !.up = "exiting"]
              /\ child[t] # NoChild
            BY <1>1, <2>2 DEF NoChild
        <3>2. /\ at'[t] = at[t] /\ disp' = disp /\ own' = own /\ node' = node /\ job' = job
              /\ unsaid' = unsaid /\ setup' = setup /\ Stage(t)
            BY <2>2, SMTT(30) DEF Inv, TypeOK, JoinHandlers, Goto
        <3> QED
            BY <3>1, <3>2 DEF Stage, Is, CliNode
    <2>3. CASE t = s
        <3>1. /\ Stage(s) /\ at[s] = "join" /\ at'[s] = "poke" /\ disp' = disp /\ own' = own
              /\ node' = node
              /\ job' = job /\ unsaid' = unsaid /\ setup' = setup
            BY DEF Inv, TypeOK, JoinHandlers, At, Goto
        <3> QED
            BY <2>3, <3>1 DEF Stage, Is, CliNode
    <2> QED
        BY <2>1, <2>2, <2>3
<1> QED
    BY <1>3, <1>4 DEF Inv

\* The connection wakes a listener, its own or another; no thread ends yet.
LEMMA PokeInv == ASSUME NEW s \in Sessions, Inv, Poke(s) PROVE Inv'
<1>1. disp' = disp \/ \E l \in Sessions : disp' = [disp EXCEPT ![l].woken = TRUE]
    <2>1. file[Path(s)] \in Sessions \cup {None}
        BY DEF Inv, TypeOK, Path, Paths
    <2> QED
        BY <2>1, Zenon DEF Poke
<1>2. disp' \in [Sessions -> DispRec] /\ \A t \in Sessions : disp'[t].accept = disp[t].accept
    <2>1. CASE disp' = disp
        BY <2>1 DEF Inv, TypeOK
    <2>2. ASSUME NEW l \in Sessions, disp' = [disp EXCEPT ![l].woken = TRUE]
          PROVE  /\ disp' \in [Sessions -> DispRec]
                 /\ \A t \in Sessions : disp'[t].accept = disp[t].accept
        <3>1. disp' \in [Sessions -> DispRec]
            BY <2>2, DispUpdate, Zenon DEF Inv, TypeOK
        <3> QED
            BY <2>2, <3>1 DEF Inv, TypeOK, DispRec
    <2> QED
        BY <1>1, <2>1, <2>2
<1>3. TypeOK'
    BY <1>2 DEF Inv, TypeOK, Poke, At, Goto, Installing, Tearing, Ended
<1>4. ASSUME NEW t \in Sessions, t # s PROVE Stage(t)'
    BY <1>2, <1>4, StageKept, SMTT(30) DEF Inv, TypeOK, Poke, Goto
<1>5. Stage(s)'
    <2>1. /\ Stage(s) /\ at[s] = "poke" /\ at'[s] = "accept" /\ child' = child /\ own' = own
          /\ node' = node
          /\ job' = job /\ unsaid' = unsaid /\ setup' = setup
        BY DEF Inv, TypeOK, Poke, At, Goto
    <2> QED
        BY <1>2, <2>1 DEF Stage, Is, CliNode
<1> QED
    BY <1>3, <1>4, <1>5 DEF Inv

\* An accept thread only ever ends.
LEMMA AcceptReturnsInv == ASSUME NEW s \in Sessions, Inv, AcceptReturns(s) PROVE Inv'
<1>1. /\ disp' \in [Sessions -> DispRec]
      /\ \A t \in Sessions : disp'[t].accept = disp[t].accept
                               \/ (disp[t].accept = "waiting" /\ disp'[t].accept = "done")
    <2> DEFINE d == [disp[s] EXCEPT !.woken = FALSE, !.accept = IF disp[s].shut THEN "done" ELSE @]
    <2>1. disp' = [disp EXCEPT ![s] = d]
        BY Zenon DEF Inv, TypeOK, AcceptReturns
    <2>2. /\ d \in DispRec /\ (d.accept = disp[s].accept \/ d.accept = "done")
          /\ disp[s].accept = "waiting"
        <3>1. disp[s] \in DispRec /\ disp[s].accept = "waiting"
            BY DEF Inv, TypeOK, AcceptReturns
        <3> QED
            BY <3>1, Zenon DEF DispRec
    <2> HIDE DEF d
    <2> QED
        BY <2>1, <2>2 DEF Inv, TypeOK
<1>2. /\ setup' = setup /\ at' = at /\ child' = child /\ own' = own /\ node' = node /\ job' = job
      /\ unsaid' = unsaid
    BY DEF AcceptReturns
<1>3. TypeOK'
    BY <1>1 DEF Inv, TypeOK, AcceptReturns
<1>4. ASSUME NEW t \in Sessions PROVE Stage(t)'
    BY <1>1, <1>2, SMTT(30) DEF Inv, Stage, Is, CliNode
<1> QED
    BY <1>3, <1>4 DEF Inv

\* A worker that starts has been forked and not reaped; it greets or exits.
LEMMA ConnectInv == ASSUME NEW s \in Sessions, Inv, Connect(s) PROVE Inv'
<1> DEFINE l == file[Path(s)]
<1>1. l \in Sessions \cup {None} /\ child[s] \in ChildRec /\ child[s].up = "starting" /\ Stage(s)
    BY DEF Inv, TypeOK, Connect, Path, Paths
<1>2. /\ setup' = setup /\ at' = at /\ own' = own /\ node' = node /\ job' = job /\ unsaid' = unsaid
      /\ \A t \in Sessions : t # s => child'[t] = child[t]
    BY SMTT(30) DEF Inv, TypeOK, Connect
<1>3. /\ child' \in [Sessions -> ChildRec]
      /\ child'[s].up \in {"gone", "connected"}
      /\ disp' \in [Sessions -> DispRec]
      /\ \A t \in Sessions : disp'[t].accept = disp[t].accept
                               \/ (disp[t].accept = "waiting" /\ disp'[t].accept = "done")
    <2>1. CASE l = None \/ disp[l].accept # "waiting"
        <3>1. child' = [child EXCEPT ![s] = [child[s] EXCEPT !.up = "gone"]] /\ disp' = disp
            BY <2>1, SMTT(30) DEF Connect
        <3> QED
            BY <1>1, <3>1, ChildType DEF Inv, TypeOK, ChildRec
    <2>2. CASE ~(l = None \/ disp[l].accept # "waiting") /\ disp[l].shut
        <3>1. /\ child' = [child EXCEPT ![s] = [child[s] EXCEPT !.up = "gone"]]
              /\ disp' = [disp EXCEPT ![l].accept = "done"] /\ l \in Sessions
            BY <1>1, <2>2 DEF Connect
        <3>2. child' \in [Sessions -> ChildRec] /\ child'[s].up = "gone"
            BY <1>1, <3>1, ChildType DEF Inv, TypeOK, ChildRec
        <3>3. disp' \in [Sessions -> DispRec]
            BY <3>1, DispUpdate, Zenon DEF Inv, TypeOK
        <3>4. \A t \in Sessions : IF t = l THEN disp'[t].accept = "done" ELSE disp'[t] = disp[t]
            BY <3>1 DEF Inv, TypeOK, DispRec
        <3> QED
            BY <2>2, <3>2, <3>3, <3>4
    <2>3. CASE ~(l = None \/ disp[l].accept # "waiting") /\ ~disp[l].shut
        <3>1. /\ child' = [child EXCEPT ![s] = [up |-> "connected", link |-> l]]
              /\ disp' = [disp EXCEPT ![l].ready = TRUE] /\ l \in Sessions
            BY <1>1, <2>3 DEF Connect
        <3>2. child' \in [Sessions -> ChildRec] /\ child'[s].up = "connected"
            BY <3>1, ChildType DEF Inv, TypeOK
        <3>3. disp' \in [Sessions -> DispRec]
            BY <3>1, DispUpdate, ZenonT(30) DEF Inv, TypeOK
        <3>4. \A t \in Sessions : disp'[t].accept = disp[t].accept
            BY <3>1 DEF Inv, TypeOK, DispRec
        <3> QED
            BY <3>2, <3>3, <3>4
    <2> QED
        BY <2>1, <2>2, <2>3
<1>4. TypeOK'
    BY <1>3, SMTT(30) DEF Inv, TypeOK, Connect
<1>5. ASSUME NEW t \in Sessions, t # s PROVE Stage(t)'
    BY <1>2, <1>3, <1>5, SMTT(30) DEF Inv, Stage, Is, CliNode
<1>6. Stage(s)'
    <2>1. at[s] \notin Unforked /\ at[s] \notin Reaped /\ ~CliNode(s)
        BY <1>1, ChildType DEF Stage
    <2> QED
        BY <1>1, <1>2, <1>3, <2>1 DEF Stage, Is, CliNode
<1> QED
    BY <1>4, <1>5, <1>6 DEF Inv

\* A worker that exits has been forked.
LEMMA WorkerExitsInv == ASSUME NEW s \in Sessions, Inv, WorkerExits(s) PROVE Inv'
<1>1. child' \in [Sessions -> ChildRec] /\ child'[s].up = "gone"
    BY ChildType DEF Inv, TypeOK, WorkerExits
<1>2. /\ setup' = setup /\ at' = at /\ own' = own /\ node' = node /\ job' = job /\ unsaid' = unsaid
      /\ disp' = disp /\ \A t \in Sessions : t # s => child'[t] = child[t]
    BY SMTT(30) DEF Inv, TypeOK, WorkerExits
<1>3. TypeOK'
    BY <1>1, SMTT(30) DEF Inv, TypeOK, WorkerExits
<1>4. ASSUME NEW t \in Sessions, t # s PROVE Stage(t)'
    BY <1>2, <1>4, StageKept, SMTT(30) DEF Inv
<1>5. Stage(s)'
    <2>1. Stage(s) /\ at[s] \notin Unforked /\ ~CliNode(s)
        BY ChildType, SMTT(30) DEF Inv, Stage, WorkerExits
    <2> QED
        BY <1>1, <1>2, <2>1, SMTT(30) DEF Stage, Is, CliNode
<1> QED
    BY <1>3, <1>4, <1>5 DEF Inv

\* The sweeper only takes a node off the list.
LEMMA ExpireInv == ASSUME NEW s \in Sessions, Inv, Expire(s) PROVE Inv'
<1>1. TypeOK'
    BY DEF Inv, TypeOK, Expire
<1>2. ASSUME NEW t \in Sessions, t # s PROVE Stage(t)'
    BY <1>2, StageKept, SMTT(30) DEF Inv, TypeOK, Expire
<1>3. Stage(s)'
    BY Zenon DEF Inv, TypeOK, Stage, Is, CliNode, Expire, Ended
<1> QED
    BY <1>1, <1>2, <1>3 DEF Inv

\* The process of several sessions dies at once.
LEMMA CrashInv == ASSUME NEW p \in Procs, Inv, Crash(p) PROVE Inv'
<1> DEFINE dead == {s \in Sessions : Proc(s) = p /\ at[s] \notin Ended}
<1>1. /\ setup' = setup /\ node' = node /\ job' = job /\ unsaid' = unsaid
      /\ \A t \in Sessions : t \notin dead => at'[t] = at[t] /\ own'[t] = own[t]
      /\ \A t \in dead : at'[t] = "crashed"
      /\ \A t \in Sessions : disp'[t] = disp[t] \/ disp'[t] = NoDisp
      /\ \A t \in Sessions : child[t] \in ChildRec /\ (child'[t] = child[t] \/
            (child[t].up = "connected" /\ child'[t] = [child[t] EXCEPT !.up = "exiting"]))
    BY DEF Inv, TypeOK, Crash
<1>2. child' \in [Sessions -> ChildRec]
    BY <1>1, ChildType, Zenon DEF Crash
<1>3. disp' \in [Sessions -> DispRec]
    BY <1>1, DispType, Zenon DEF Crash, Inv, TypeOK
<1>4. own' \in [Sessions -> OwnRec]
    BY OwnType DEF Crash, Inv, TypeOK
<1>5. faults' \in 0..MaxFaults
    BY FaultType DEF Crash, Inv
<1>6. TypeOK'
    BY <1>2, <1>3, <1>4, <1>5 DEF Inv, TypeOK, Crash, Ended
<1>7. ASSUME NEW t \in Sessions PROVE Stage(t)'
    <2>1. Stage(t) /\ NoDisp.accept = "none" /\ (child[t] = NoChild => child'[t] = NoChild)
          /\ (child[t].up \in {"none", "gone"} => child'[t] = child[t])
        BY <1>1, DispType, ChildType, Zenon DEF Inv
    <2>2. CASE t \in dead
        BY <1>1, <2>1, <2>2, StageEnds DEF Stage
    <2>3. CASE t \notin dead
        <3>1. at'[t] = at[t] /\ own'[t] = own[t]
            BY <1>1, <2>3
        <3>2. disp'[t].accept = disp[t].accept \/ disp'[t].accept = "none"
            BY <1>1, <2>1
        <3> QED
            BY <1>1, <2>1, <3>1, <3>2 DEF Stage, Is, CliNode
    <2> QED
        BY <2>2, <2>3
<1> QED
    BY <1>6, <1>7 DEF Inv

\* Every step keeps every session in its stage.
LEMMA NextInv == Inv /\ [Next]_vars => Inv'
<1> SUFFICES ASSUME Inv, [Next]_vars PROVE Inv'
    OBVIOUS
<1>1. CASE UNCHANGED <<setup, at, disp, child, own, node, job, unsaid, current, file, taken, faults>>
           /\ gcs' \in {"up", "stopping", "down"}
    <2>1. TypeOK'
        BY <1>1, SMTT(30) DEF Inv, TypeOK
    <2>2. ASSUME NEW t \in Sessions PROVE Stage(t)'
        BY <1>1, StageKept, SMTT(30) DEF Inv
    <2> QED
        BY <2>1, <2>2 DEF Inv
<1>2. CASE StopGcs \/ GcsStopped \/ UNCHANGED vars
    BY <1>1, <1>2 DEF StopGcs, GcsStopped, vars, Inv, TypeOK
<1>3. ASSUME NEW s \in Sessions, InstallStep(s) PROVE Inv'
    BY <1>3, ResolvePlasmaInv, UnlinkSocketInv, StartDispatcherInv, WaitForWorkersInv, ServeInv,
       RegisterInv, StartTasksInv, AddJobInv, InstallInv DEF InstallStep
<1>4. ASSUME NEW s \in Sessions, UninstallStep(s) PROVE Inv'
    BY <1>4, SetShutdownInv, JoinHandlersInv, PokeInv, JoinAcceptInv, RemoveSocketInv, ReapInv,
       MarkJobFinishedInv, StopTasksInv, DrainInv, StopServerInv, DropPlasmaInv DEF UninstallStep
<1>5. ASSUME NEW s \in Sessions, Background(s) PROVE Inv'
    BY <1>5, AcceptReturnsInv, ConnectInv, WorkerExitsInv DEF Background
<1> QED
    BY <1>2, <1>3, <1>4, <1>5, BeginInv, UninstallInv, ExpireInv, CrashInv DEF Next

-----------------------------------------------------------------------------
(***************************************************************************)
(* Type correctness of the session, the dispatcher and the GCS's tables.   *)
(***************************************************************************)
THEOREM TypeCorrect == Spec => []TypeOK
<1>1. Inv => TypeOK
    BY DEF Inv
<1> QED
    BY InitInv, NextInv, <1>1, PTL DEF Spec

(***************************************************************************)
(* Raylet::start serves before it registers and RayletHandle::shutdown     *)
(* drains before it stops: whatever fails, and wherever, a node listed as  *)
(* alive is served or is the sweeper's.                                    *)
(***************************************************************************)
THEOREM ListedIsServed == Spec => []AliveIsServed
<1>1. Inv => AliveIsServed
    <2> SUFFICES ASSUME Inv, NEW s \in Sessions, node[s] = "alive"
                 PROVE  own[s].server \/ at[s] \in {"failed", "crashed"} \/ s \in unsaid
        BY DEF AliveIsServed
    <2>1. Stage(s) /\ at[s] \in Installing \cup Tearing \cup Ended \cup {"new", "installed"}
        BY SMTT(30) DEF Inv, TypeOK
    <2> QED
        BY <2>1 DEF Stage, Installing, Ended
<1> QED
    BY InitInv, NextInv, <1>1, PTL DEF Spec

(***************************************************************************)
(* uninstall undoes the whole of install: accept thread, worker, job and   *)
(* node record, servers and tasks, with a second session of the process or *)
(* of the directory coming up or going down meanwhile.                     *)
(***************************************************************************)
THEOREM ShutdownIsClean == Spec => []ClosedIsClean
<1>1. Inv => ClosedIsClean
    <2> SUFFICES ASSUME Inv, NEW s \in Sessions, at[s] = "closed"
                 PROVE  /\ own[s] = Nothing /\ child[s].up \in {"none", "gone"}
                        /\ disp[s].accept # "waiting"
                        /\ s \in unsaid \/ (job[s] # "running" /\ node[s] # "alive")
        BY DEF ClosedIsClean
    <2>1. Stage(s) /\ own[s] \in OwnRec
        BY SMTT(30) DEF Inv, TypeOK
    <2>2. ~own[s].plasma /\ ~own[s].server /\ ~own[s].beat
        BY <2>1, SMTT(30) DEF Stage
    <2>3. own[s] = Nothing
        BY <2>1, <2>2, ZenonT(30) DEF OwnRec, Nothing
    <2> QED
        BY <2>1, <2>3 DEF Stage
<1> QED
    BY InitInv, NextInv, <1>1, PTL DEF Spec

(***************************************************************************)
(* uninstall drops the plasma server last, after the dispatcher has reaped *)
(* the workers that are connected to it.                                   *)
(***************************************************************************)
THEOREM StoreStays == Spec => []StoreOutlivesWorker
<1>1. Inv => StoreOutlivesWorker
    <2> SUFFICES ASSUME Inv, NEW s \in Sessions, Is(s, "private"),
                        child[s].up \in {"starting", "connected", "exiting"}
                 PROVE  own[s].plasma \/ at[s] \in {"failed", "crashed"}
        BY DEF StoreOutlivesWorker
    <2>1. Stage(s) /\ at[s] \in Installing \cup Tearing \cup Ended \cup {"new", "installed"}
        BY DEF Inv, TypeOK
    <2>2. at[s] \notin Unforked /\ at[s] \notin Reaped
        BY <2>1, ChildType DEF Stage
    <2> QED
        BY <2>1, <2>2 DEF Stage, Installing, Ended
<1> QED
    BY InitInv, NextInv, <1>1, PTL DEF Spec
=============================================================================
