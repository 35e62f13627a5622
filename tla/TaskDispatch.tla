---------------------------- MODULE TaskDispatch ----------------------------
(***************************************************************************)
(* Remote tasks: the driver's dispatcher (one queue, one handler thread    *)
(* and one Unix socket per worker process), the worker processes, the      *)
(* lineage table of the TaskManager and the driver threads that submit and *)
(* get.                                                                    *)
(*                                                                         *)
(* A task t has the return objects <<t, k>>.  plasma is what the shared    *)
(* store holds sealed, index what the driver's MemoryStore knows, owned[w] *)
(* what worker w's own RefCounter tracks: a worker tracks every object it  *)
(* seals, and its exit evicts them all from the shared store.  The spill   *)
(* path of these objects is in ObjectLifecycle, the create/seal protocol   *)
(* in Plasma; a create_and_seal is one step here.                          *)
(*                                                                         *)
(* Each socket holds at most one frame per direction, because a handler    *)
(* waits for the reply to a frame before it sends the next.  Notifying a   *)
(* condition variable is done together with the push it follows.           *)
(***************************************************************************)
EXTENDS Naturals, Sequences

CONSTANTS
    Tasks,
    Workers,
    Callers,      \* threads of the driver program
    GetTasks,     \* the tasks whose returns the program gets
    NumReturns,   \* returns of each task
    MaxRetries,   \* DEFAULT_MAX_RETRIES
    MaxKills,     \* bound: hard crashes of workers
    MaxLosses,    \* bound: returns freed or evicted by the driver
    None          \* no task, no object, an empty socket

ASSUME DispatchAssumption ==
    /\ NumReturns \in Nat \ {0} /\ MaxRetries \in Nat /\ MaxKills \in Nat /\ MaxLosses \in Nat
    /\ None \notin Tasks /\ "shutdown" \notin Tasks \cup {None}

VARIABLES
    queue, stopping,       \* the dispatcher's queue and shutdown flag
    handler,               \* its connection threads
    worker, owned,         \* the worker processes
    toWorker, toDriver,    \* the frame in flight on each socket
    plasma, index,         \* shared store, and driver's store
    record,                \* TaskManager.by_object, one record per task
    caller,                \* driver threads
    kills, losses          \* counters of the bounded faults

driver == <<index, record, caller>>
procs  == <<worker, owned, plasma, kills>>
vars   == <<queue, stopping, handler, toWorker, toDriver, losses, driver, procs>>

Rets == 0 .. NumReturns - 1
Objects == Tasks \X Rets
ReturnsOf(t) == {t} \X Rets

HandlerPcs == {"accepting", "next", "asleep", "send", "await", "mark", "stopped"}
WorkerPcs  == {"starting", "ready", "seal", "reply", "raise", "evict", "gone"}
CallerPcs  == {"idle", "push", "status", "resubmit", "repush", "wait"}

TypeOK ==
    /\ queue \in Seq(Tasks) /\ stopping \in BOOLEAN
    /\ handler \in [Workers -> [pc : HandlerPcs, job : Tasks \cup {None}]]
    /\ worker \in [Workers -> [pc : WorkerPcs, task : Tasks \cup {None}, k : 0 .. NumReturns]]
    /\ owned \in [Workers -> SUBSET Objects]
    /\ toWorker \in [Workers -> Tasks \cup {None, "shutdown"}]
    /\ toDriver \in [Workers -> Tasks \cup {None}]
    /\ plasma \subseteq Objects /\ index \subseteq Objects
    /\ record \in [Tasks -> [known : BOOLEAN, completed : BOOLEAN, retries : 0 .. MaxRetries]]
    /\ caller \in [Callers -> [pc : CallerPcs, obj : Objects \cup {None}]]
    /\ kills \in 0 .. MaxKills /\ losses \in 0 .. MaxLosses

Init ==
    /\ queue = <<>> /\ stopping = FALSE
    /\ handler = [w \in Workers |-> [pc |-> "accepting", job |-> None]]
    /\ worker = [w \in Workers |-> [pc |-> "starting", task |-> None, k |-> 0]]
    /\ owned = [w \in Workers |-> {}]
    /\ toWorker = [w \in Workers |-> None] /\ toDriver = [w \in Workers |-> None]
    /\ plasma = {} /\ index = {}
    /\ record = [t \in Tasks |-> [known |-> FALSE, completed |-> FALSE, retries |-> MaxRetries]]
    /\ caller = [c \in Callers |-> [pc |-> "idle", obj |-> None]]
    /\ kills = 0 /\ losses = 0

(***************************************************************************)
(* The queue.                                                              *)
(***************************************************************************)

\* The handler threads after notify_one: one sleeper, if any, is woken.
NotifyOne(hs) ==
    IF \E w \in Workers : hs[w].pc = "asleep"
    THEN {[hs EXCEPT ![w].pc = "next"] : w \in {v \in Workers : hs[v].pc = "asleep"}}
    ELSE {hs}

NotifyAll(hs) ==
    [w \in Workers |-> IF hs[w].pc = "asleep" THEN [hs[w] EXCEPT !.pc = "next"] ELSE hs[w]]

\* Dispatcher::submit after it has read the shutdown flag as unset.
Enqueue(t) ==
    /\ queue' = Append(queue, t)
    /\ handler' \in NotifyOne(handler)

(***************************************************************************)
(* Driver threads: submit_task, get, free and object loss.                 *)
(***************************************************************************)

\* wait_for_workers: init returns once every worker has registered.
Installed == \A w \in Workers : handler[w].pc # "accepting"

Caller(c, pc, o) == caller' = [caller EXCEPT ![c] = [pc |-> pc, obj |-> o]]

\* submit_task: record the lineage, then submit's look at the shutdown flag.
SubmitTask(c, t) ==
    /\ Installed /\ caller[c].pc = "idle" /\ ~record[t].known
    /\ record' = [record EXCEPT ![t].known = TRUE]
    /\ IF stopping THEN UNCHANGED caller ELSE Caller(c, "push", <<t, 0>>)
    /\ UNCHANGED <<queue, stopping, handler, toWorker, toDriver, losses, index, procs>>

Push(c) ==
    /\ caller[c].pc \in {"push", "repush"}
    /\ Enqueue(caller[c].obj[1])
    /\ IF caller[c].pc = "push" THEN Caller(c, "idle", None) ELSE Caller(c, "wait", caller[c].obj)
    /\ UNCHANGED <<stopping, toWorker, toDriver, losses, index, record, procs>>

\* get, up to ref.state(): a Pending ref goes on to the lineage table.
Get(c, o) ==
    /\ caller[c].pc = "idle" /\ record[o[1]].known /\ o[1] \in GetTasks
    /\ Caller(c, IF o \in index THEN "wait" ELSE "status", o)
    /\ UNCHANGED <<queue, stopping, handler, toWorker, toDriver, losses, index, record, procs>>

LineageStatus(t) ==
    IF ~record[t].known THEN "not_recorded"
    ELSE IF ~record[t].completed THEN "not_yet_completed"
    ELSE IF record[t].retries = 0 THEN "exhausted" ELSE "ready"

\* ObjectUnreconstructableError ends the get when the budget is exhausted.
GetStatus(c) ==
    LET o == caller[c].obj
        status == LineageStatus(o[1])
    IN  /\ caller[c].pc = "status"
        /\ \/ status = "ready" /\ Caller(c, "resubmit", o)
           \/ status = "exhausted" /\ Caller(c, "idle", None)
           \/ status \in {"not_recorded", "not_yet_completed"} /\ Caller(c, "wait", o)
        /\ UNCHANGED <<queue, stopping, handler, toWorker, toDriver, losses, index, record, procs>>

\* Mutant of TryResubmit: the completion flag is left set.
TryResubmitKeepsFlag(r) == [r EXCEPT !.retries = @ - 1]

\* TaskManager::try_resubmit's effect on the record of the task.
TryResubmit(r) == [r EXCEPT !.retries = @ - 1, !.completed = FALSE]

\* Mutant of GetResubmit: try_resubmit trusts the status read before.
GetResubmitBlind(c) ==
    LET o == caller[c].obj
        t == o[1]
    IN  /\ caller[c].pc = "resubmit"
        /\ record' = [record EXCEPT ![t] = IF @.retries = 0 THEN @ ELSE TryResubmit(@)]
        /\ Caller(c, IF stopping THEN "wait" ELSE "repush", o)
        /\ UNCHANGED <<queue, stopping, handler, toWorker, toDriver, losses, index, procs>>

GetResubmit(c) ==
    LET o == caller[c].obj
        t == o[1]
    IN  /\ caller[c].pc = "resubmit"
        /\ IF LineageStatus(t) = "ready"
           THEN /\ record' = [record EXCEPT ![t] = TryResubmit(@)]
                /\ Caller(c, IF stopping THEN "wait" ELSE "repush", o)
           ELSE UNCHANGED record /\ Caller(c, "wait", o)
        /\ UNCHANGED <<queue, stopping, handler, toWorker, toDriver, losses, index, procs>>

\* The blocking get returns once the store has an entry, with a value or,
\* when plasma has lost the bytes, with an error.
GetReturns(c) ==
    /\ caller[c].pc = "wait" /\ caller[c].obj \in index
    /\ Caller(c, "idle", None)
    /\ UNCHANGED <<queue, stopping, handler, toWorker, toDriver, losses, index, record, procs>>

\* rayd.free: the store entry goes, plasma keeps the bytes.
Free(o) ==
    /\ losses < MaxLosses /\ o \in index
    /\ index' = index \ {o} /\ losses' = losses + 1
    /\ UNCHANGED <<queue, stopping, handler, toWorker, toDriver, record, caller, procs>>

\* CoreWorker::evict_local: the store entry and the bytes go.
EvictLocal(o) ==
    /\ losses < MaxLosses /\ o \in index
    /\ index' = index \ {o} /\ plasma' = plasma \ {o} /\ losses' = losses + 1
    /\ UNCHANGED <<queue, stopping, handler, toWorker, toDriver, record, caller, worker, owned, kills>>

(***************************************************************************)
(* The handler thread of a worker's connection.                            *)
(***************************************************************************)

Handler(w, pc, t) == handler' = [handler EXCEPT ![w] = [pc |-> pc, job |-> t]]

SocketOpen(w) == worker[w].pc \notin {"evict", "gone"}

\* accept_loop and the worker_ready greeting.
Accept(w) ==
    /\ handler[w].pc = "accepting" /\ worker[w].pc = "starting"
    /\ Handler(w, "next", None)
    /\ worker' = [worker EXCEPT ![w].pc = "ready"]
    /\ UNCHANGED <<queue, stopping, toWorker, toDriver, losses, driver, owned, plasma, kills>>

\* Mutant of NextJob: the shutdown flag is looked at before the queue.
NextJobFlagFirst(w) ==
    /\ handler[w].pc = "next"
    /\ \/ stopping /\ Handler(w, "stopped", None)
          /\ toWorker' = [toWorker EXCEPT ![w] = IF SocketOpen(w) THEN "shutdown" ELSE None]
          /\ UNCHANGED queue
       \/ ~stopping /\ queue # <<>> /\ Handler(w, "send", Head(queue))
          /\ queue' = Tail(queue) /\ UNCHANGED toWorker
       \/ ~stopping /\ queue = <<>> /\ Handler(w, "asleep", None) /\ UNCHANGED <<queue, toWorker>>
    /\ UNCHANGED <<stopping, toDriver, losses, driver, procs>>

\* next_job, with the polite shutdown frame that follows its None.
NextJob(w) ==
    /\ handler[w].pc = "next"
    /\ \/ queue # <<>> /\ Handler(w, "send", Head(queue))
          /\ queue' = Tail(queue) /\ UNCHANGED toWorker
       \/ queue = <<>> /\ stopping /\ Handler(w, "stopped", None)
          /\ toWorker' = [toWorker EXCEPT ![w] = IF SocketOpen(w) THEN "shutdown" ELSE None]
          /\ UNCHANGED queue
       \/ queue = <<>> /\ ~stopping /\ Handler(w, "asleep", None) /\ UNCHANGED <<queue, toWorker>>
    /\ UNCHANGED <<stopping, toDriver, losses, driver, procs>>

SendTask(w) ==
    /\ handler[w].pc = "send" /\ SocketOpen(w)
    /\ toWorker' = [toWorker EXCEPT ![w] = handler[w].job]
    /\ Handler(w, "await", handler[w].job)
    /\ UNCHANGED <<queue, stopping, toDriver, losses, driver, procs>>

\* The send fails: the job goes back to the front, the handler ends.
SendFails(w) ==
    /\ handler[w].pc = "send" /\ ~SocketOpen(w)
    /\ queue' = <<handler[w].job>> \o queue
    /\ handler' \in NotifyOne([handler EXCEPT ![w] = [pc |-> "stopped", job |-> None]])
    /\ UNCHANGED <<stopping, toWorker, toDriver, losses, driver, procs>>

\* handle_completion: the driver's store learns every return.
TaskComplete(w) ==
    /\ handler[w].pc = "await" /\ toDriver[w] # None
    /\ index' = index \cup ReturnsOf(handler[w].job)
    /\ toDriver' = [toDriver EXCEPT ![w] = None]
    /\ Handler(w, "mark", handler[w].job)
    /\ UNCHANGED <<queue, stopping, toWorker, losses, record, caller, procs>>

MarkCompleted(w) ==
    /\ handler[w].pc = "mark"
    /\ record' = [record EXCEPT ![handler[w].job].completed = TRUE]
    /\ Handler(w, "next", None)
    /\ UNCHANGED <<queue, stopping, toWorker, toDriver, losses, index, caller, procs>>

\* End of file instead of a reply: the job goes with the connection.
Disconnected(w) ==
    /\ handler[w].pc = "await" /\ toDriver[w] = None /\ ~SocketOpen(w)
    /\ Handler(w, "stopped", None)
    /\ UNCHANGED <<queue, stopping, toWorker, toDriver, losses, driver, procs>>

\* Mutant of Shutdown: sleeping handlers are not woken.
ShutdownSilent ==
    /\ Installed /\ ~stopping /\ stopping' = TRUE
    /\ UNCHANGED <<queue, handler, toWorker, toDriver, losses, driver, procs>>

\* Dispatcher::shutdown, up to the joins.
Shutdown ==
    /\ Installed /\ ~stopping /\ stopping' = TRUE
    /\ handler' = NotifyAll(handler)
    /\ UNCHANGED <<queue, toWorker, toDriver, losses, driver, procs>>

(***************************************************************************)
(* The worker process.                                                     *)
(***************************************************************************)

\* A frame, or end of file once the handler has gone without one.
WorkerRecv(w) ==
    /\ worker[w].pc = "ready"
    /\ \/ /\ toWorker[w] \in Tasks
          /\ worker' = [worker EXCEPT ![w] = [pc |-> "seal", task |-> toWorker[w], k |-> 0]]
       \/ /\ toWorker[w] = "shutdown" \/ (toWorker[w] = None /\ handler[w].pc = "stopped")
          /\ worker' = [worker EXCEPT ![w].pc = "raise"]
    /\ toWorker' = [toWorker EXCEPT ![w] = None]
    /\ UNCHANGED <<queue, stopping, handler, toDriver, losses, driver, owned, plasma, kills>>

\* Mutant of WorkerSeal: the worker does not track what it seals.
WorkerSealUntracked(w) ==
    LET o == <<worker[w].task, worker[w].k>>
    IN  /\ worker[w].pc = "seal" /\ o \notin plasma
        /\ plasma' = plasma \cup {o} /\ UNCHANGED owned
        /\ worker' = [worker EXCEPT ![w].k = @ + 1,
                                    ![w].pc = IF worker[w].k + 1 = NumReturns THEN "reply" ELSE "seal"]
        /\ UNCHANGED <<queue, stopping, handler, toWorker, toDriver, losses, driver, kills>>

\* Mutant of WorkerSeal: the error payload of a task is reported, not sealed.
WorkerSealSkipped(w) ==
    /\ worker[w].pc = "seal"
    /\ worker' = [worker EXCEPT ![w].k = @ + 1,
                                ![w].pc = IF worker[w].k + 1 = NumReturns THEN "reply" ELSE "seal"]
    /\ UNCHANGED <<queue, stopping, handler, toWorker, toDriver, losses, driver, owned, plasma, kills>>

\* _worker_seal of the next return, a value or an error payload alike.
WorkerSeal(w) ==
    LET o == <<worker[w].task, worker[w].k>>
    IN  /\ worker[w].pc = "seal" /\ o \notin plasma
        /\ plasma' = plasma \cup {o} /\ owned' = [owned EXCEPT ![w] = @ \cup {o}]
        /\ worker' = [worker EXCEPT ![w].k = @ + 1,
                                    ![w].pc = IF worker[w].k + 1 = NumReturns THEN "reply" ELSE "seal"]
        /\ UNCHANGED <<queue, stopping, handler, toWorker, toDriver, losses, driver, kills>>

\* AlreadyExists is raised out of _execute_task and ends the main loop.
WorkerSealRefused(w) ==
    /\ worker[w].pc = "seal" /\ <<worker[w].task, worker[w].k>> \in plasma
    /\ worker' = [worker EXCEPT ![w].pc = "raise"]
    /\ UNCHANGED <<queue, stopping, handler, toWorker, toDriver, losses, driver, owned, plasma, kills>>

WorkerReply(w) ==
    /\ worker[w].pc = "reply"
    /\ toDriver' = [toDriver EXCEPT ![w] = worker[w].task]
    /\ worker' = [worker EXCEPT ![w] = [pc |-> "ready", task |-> None, k |-> 0]]
    /\ UNCHANGED <<queue, stopping, handler, toWorker, losses, driver, owned, plasma, kills>>

\* main's finally: the socket closes, then rayd.shutdown() frees the objects.
WorkerClose(w) ==
    /\ worker[w].pc = "raise"
    /\ worker' = [worker EXCEPT ![w] = [pc |-> "evict", task |-> None, k |-> 0]]
    /\ toWorker' = [toWorker EXCEPT ![w] = None]
    /\ UNCHANGED <<queue, stopping, handler, toDriver, losses, driver, owned, plasma, kills>>

WorkerEvict(w) ==
    /\ worker[w].pc = "evict"
    /\ \/ \E o \in owned[w] :
            /\ plasma' = plasma \ {o} /\ owned' = [owned EXCEPT ![w] = @ \ {o}]
            /\ UNCHANGED worker
       \/ owned[w] = {} /\ worker' = [worker EXCEPT ![w].pc = "gone"] /\ UNCHANGED <<plasma, owned>>
    /\ UNCHANGED <<queue, stopping, handler, toWorker, toDriver, losses, driver, kills>>

\* A hard crash, or the kill that ends shutdown's grace period.
Kill(w) ==
    /\ kills < MaxKills /\ worker[w].pc # "gone"
    /\ worker' = [worker EXCEPT ![w] = [pc |-> "gone", task |-> None, k |-> 0]]
    /\ owned' = [owned EXCEPT ![w] = {}]
    /\ toWorker' = [toWorker EXCEPT ![w] = None]
    /\ kills' = kills + 1
    /\ UNCHANGED <<queue, stopping, handler, toDriver, losses, driver, plasma>>

HandlerStep(w) ==
    \/ Accept(w) \/ NextJob(w) \/ SendTask(w) \/ SendFails(w)
    \/ TaskComplete(w) \/ MarkCompleted(w) \/ Disconnected(w)

WorkerStep(w) ==
    \/ WorkerRecv(w) \/ WorkerSeal(w) \/ WorkerSealRefused(w) \/ WorkerReply(w)
    \/ WorkerClose(w) \/ WorkerEvict(w)

CallerStep(c) == Push(c) \/ GetStatus(c) \/ GetResubmit(c) \/ GetReturns(c)

Next ==
    \/ \E w \in Workers : HandlerStep(w) \/ WorkerStep(w) \/ Kill(w)
    \/ \E c \in Callers : CallerStep(c)
    \/ \E c \in Callers, t \in Tasks : SubmitTask(c, t)
    \/ \E c \in Callers, o \in Objects : Get(c, o)
    \/ \E o \in Objects : Free(o) \/ EvictLocal(o)
    \/ Shutdown

Spec == Init /\ [][Next]_vars

\* The operating system runs every runnable thread and process, tasks end,
\* and sockets deliver; nobody has to submit, get, lose, kill or shut down.
FairSpec ==
    /\ Spec
    /\ \A w \in Workers : WF_vars(HandlerStep(w)) /\ WF_vars(WorkerStep(w))
    /\ \A c \in Callers : WF_vars(CallerStep(c))

(***************************************************************************)
(* Properties.                                                             *)
(***************************************************************************)

InQueue(t) == {i \in 1 .. Len(queue) : queue[i] = t}
Attempts(t) ==
    {<<"queued", i>> : i \in InQueue(t)}
    \cup {<<"handled", w>> : w \in {v \in Workers : handler[v].job = t}}
    \cup {<<"pushed", c>> : c \in {d \in Callers : /\ caller[d].pc \in {"push", "repush"}
                                                   /\ caller[d].obj[1] = t}}

\* At any moment at most one attempt of a task exists: in a driver thread
\* about to queue it, in the queue, or with a handler.  try_resubmit resets
\* was_completed under the table's lock so that concurrent gets of a lost
\* return do not submit the task twice.
OneAttempt ==
    \A t \in Tasks : \A a, b \in Attempts(t) : a = b

\* A task marked completed has no attempt under way: mark_completed comes
\* after the reply, and a resubmission takes the mark away before it queues.
CompletedIsOver ==
    \A t \in Tasks : record[t].completed =>
        \A w \in Workers : handler[w].job # t /\ worker[w].task # t

\* When shutdown has run to its end and no worker was killed, no return
\* value is left in the shared store: each worker's exit frees its own.
ShutdownFrees ==
    (stopping /\ kills = 0 /\ \A w \in Workers : handler[w].pc = "stopped" /\ worker[w].pc = "gone")
        => plasma = {}

\* Nothing was lost or killed, and no get resubmitted a task.
Undisturbed == losses = 0 /\ kills = 0 /\ \A t \in Tasks : record[t].retries = MaxRetries

\* While nothing is lost, killed, resubmitted or shut down, a return in the
\* driver's store is in plasma, so that a get of it finds its bytes: workers
\* seal before they reply, and keep what they sealed.
IndexedIsSealed == (Undisturbed /\ ~stopping) => index \subseteq plasma

\* A worker that seals a return of a task never finds that return sealed
\* already: "we MUST NOT resubmit (else the worker double-seals ...)".
NoDoubleSeal ==
    \A w \in Workers : worker[w].pc = "seal" => <<worker[w].task, worker[w].k>> \notin plasma

\* Dispatcher::shutdown ends: every handler stops and every worker exits.
ShutdownEnds ==
    stopping ~> \A w \in Workers : handler[w].pc = "stopped" /\ worker[w].pc = "gone"

\* A job that was queued is run and its returns reach the driver's store,
\* also when shutdown begins meanwhile ("Drain queued tasks"), unless a
\* worker is killed, or a return lost or made again, on the way.
QueuedResolves ==
    \A t \in Tasks :
        (InQueue(t) # {} /\ ~stopping) ~> (ReturnsOf(t) \subseteq index \/ ~Undisturbed)
=============================================================================
