------------------------- MODULE TaskDispatchProofs -------------------------
(***************************************************************************)
(* Proofs about TaskDispatch for any number of tasks, workers, callers,    *)
(* returns, retries, kills and losses: at most one attempt of a task       *)
(* exists, and none while the task is marked completed; a shutdown without *)
(* a kill leaves no return in the shared store; and until something is     *)
(* lost, killed, resubmitted or shut down a return in the driver's store   *)
(* is in the shared store.                                                 *)
(***************************************************************************)
EXTENDS TaskDispatch, TLAPS

HandlerTable == [Workers -> [pc : HandlerPcs, job : Tasks \cup {None}]]
WorkerTable  == [Workers -> [pc : WorkerPcs, task : Tasks \cup {None}, k : 0 .. NumReturns]]
RecordTable  == [Tasks -> [known : BOOLEAN, completed : BOOLEAN, retries : 0 .. MaxRetries]]
CallerTable  == [Callers -> [pc : CallerPcs, obj : Objects \cup {None}]]

\* Threads and processes that deal with a task or an object have one.
Busy ==
    /\ \A w \in Workers : handler[w].pc \in {"send", "await", "mark"} <=> handler[w].job # None
    /\ \A w \in Workers : worker[w].pc \in {"seal", "reply"} => worker[w].task # None
    /\ \A w \in Workers : worker[w].pc = "seal" => worker[w].k < NumReturns
    /\ \A c \in Callers : caller[c].pc # "idle" => caller[c].obj \in Objects

\* A frame, a task being run and a reply belong to the job the handler of the
\* connection waits for, and only one of them exists.
Line(w) ==
    /\ toWorker[w] \in Tasks =>
          /\ handler[w].pc = "await" /\ handler[w].job = toWorker[w]
          /\ toDriver[w] = None /\ worker[w].task = None
    /\ worker[w].task # None =>
          handler[w].pc = "await" /\ handler[w].job = worker[w].task /\ toDriver[w] = None
    /\ toDriver[w] # None => handler[w].pc = "await" /\ handler[w].job = toDriver[w]
    /\ worker[w].pc \in {"starting", "ready", "evict", "gone"} => worker[w].task = None
    /\ worker[w].pc \in {"evict", "gone"} => toWorker[w] = None

Pushing(c) == caller[c].pc \in {"push", "repush"}
TaskOf(c)  == caller[c].obj[1]
Queued(t)  == \E i \in 1 .. Len(queue) : queue[i] = t

\* No two attempts of one task.
Once ==
    /\ \A i, j \in 1 .. Len(queue) : queue[i] = queue[j] => i = j
    /\ \A v, w \in Workers : handler[v].job # None /\ handler[v].job = handler[w].job => v = w
    /\ \A c, d \in Callers : Pushing(c) /\ Pushing(d) /\ TaskOf(c) = TaskOf(d) => c = d
    /\ \A w \in Workers : ~Queued(handler[w].job)
    /\ \A c \in Callers : Pushing(c) => ~Queued(TaskOf(c)) /\ \A w \in Workers : handler[w].job # TaskOf(c)

Attempted(t) ==
    \/ Queued(t)
    \/ \E w \in Workers : handler[w].job = t
    \/ \E c \in Callers : Pushing(c) /\ TaskOf(c) = t

\* An attempt is of a recorded task that is not marked completed.
Recorded ==
    \A t \in Tasks : /\ Attempted(t) => record[t].known /\ ~record[t].completed
                     /\ record[t].completed => record[t].known

Inv == TypeOK /\ Busy /\ (\A w \in Workers : Line(w)) /\ Once /\ Recorded

-----------------------------------------------------------------------------
(* Data.                                                                   *)

\* The first and the next return of a task are objects.
LEMMA ReturnsAreObjects ==
    /\ 0 \in Rets /\ \A t \in Tasks : <<t, 0>> \in Objects /\ <<t, 0>>[1] = t /\ ReturnsOf(t) \subseteq Objects
    /\ \A t \in Tasks, k \in 0 .. NumReturns : k < NumReturns =>
          /\ <<t, k>> \in Objects
          /\ k + 1 \in 0 .. NumReturns
          /\ k + 1 # NumReturns => k + 1 < NumReturns
    /\ \A o \in Objects : o[1] \in Tasks
<1>1. 0 \in Rets
    BY DispatchAssumption DEF Rets
<1>2. \A k \in 0 .. NumReturns : k < NumReturns => k \in Rets /\ k + 1 \in 0 .. NumReturns
    BY DispatchAssumption DEF Rets
<1>3. \A k \in 0 .. NumReturns : k < NumReturns /\ k + 1 # NumReturns => k + 1 < NumReturns
    BY DispatchAssumption
<1> QED
    BY <1>1, <1>2, <1>3, Zenon DEF Objects, ReturnsOf

\* notify_one moves at most one sleeper, and no job.
LEMMA Notified ==
    ASSUME NEW h \in HandlerTable, NEW h2 \in NotifyOne(h)
    PROVE  /\ h2 \in HandlerTable
           /\ \A w \in Workers : /\ h2[w].job = h[w].job
                                 /\ h2[w].pc = h[w].pc \/ (h[w].pc = "asleep" /\ h2[w].pc = "next")
<1>1. CASE h2 = h
    BY <1>1, Zenon
<1>2. ASSUME NEW w \in Workers, h[w].pc = "asleep", h2 = [h EXCEPT ![w].pc = "next"]
      PROVE  /\ h2 \in HandlerTable
             /\ \A v \in Workers : /\ h2[v].job = h[v].job
                                   /\ h2[v].pc = h[v].pc \/ (h[v].pc = "asleep" /\ h2[v].pc = "next")
    BY <1>2, Zenon DEF HandlerTable, HandlerPcs
<1> QED
    BY <1>2, Zenon DEF NotifyOne

\* Nothing has been submitted at first.
LEMMA InitInv == Init => Inv
<1> SUFFICES ASSUME Init PROVE Inv
    BY Zenon
<1>1. TypeOK
    <2>1. queue \in Seq(Tasks) /\ kills \in 0 .. MaxKills /\ losses \in 0 .. MaxLosses
        BY DispatchAssumption DEF Init
    <2>2. worker \in [Workers -> [pc : WorkerPcs, task : Tasks \cup {None}, k : 0 .. NumReturns]]
        BY DispatchAssumption DEF Init, WorkerPcs
    <2>3. record \in [Tasks -> [known : BOOLEAN, completed : BOOLEAN, retries : 0 .. MaxRetries]]
        BY DispatchAssumption DEF Init
    <2> QED
        BY <2>1, <2>2, <2>3, Zenon DEF Init, TypeOK, HandlerPcs, CallerPcs
<1>2. Len(queue) = 0
    BY Zenon DEF Init
<1>3. \A t : ~Queued(t)
    BY <1>2 DEF Queued
<1>4. \A c \in Callers : ~Pushing(c)
    BY Zenon DEF Init, Pushing
<1>5. Busy /\ \A w \in Workers : Line(w)
    BY DispatchAssumption, Zenon DEF Init, Busy, Line
<1>6. Once
    BY <1>3, <1>4 DEF Init, Once
<1>7. Recorded
    BY <1>3, <1>4, DispatchAssumption, Zenon DEF Init, Recorded, Attempted
<1> QED
    BY <1>1, <1>5, <1>6, <1>7, Zenon DEF Inv

-----------------------------------------------------------------------------
(* Frames.                                                                 *)

\* Steps that add no attempt and mark no task completed.
LEMMA AttemptsShrink ==
    ASSUME TypeOK, Busy, Once, Recorded, queue' = queue,
           \A w \in Workers : handler'[w].job \in {handler[w].job, None},
           \A c \in Callers : Pushing(c)' => Pushing(c) /\ TaskOf(c)' = TaskOf(c),
           \A t \in Tasks : record'[t].known = record[t].known /\ (record'[t].completed => record[t].completed)
    PROVE  Once' /\ Recorded'
<1>1. \A t : Queued(t)' <=> Queued(t)
    BY Zenon DEF Queued
<1>2. ~Queued(None)
    BY DispatchAssumption DEF Queued, TypeOK
<1>3. Once'
    <2>1. \A v, w \in Workers : handler'[v].job # None /\ handler'[v].job = handler'[w].job => v = w
        BY Zenon DEF Once
    <2>2. \A w \in Workers : ~Queued(handler'[w].job)
        BY <1>2, Zenon DEF Once
    <2>3. \A c, d \in Callers : Pushing(c)' /\ Pushing(d)' /\ TaskOf(c)' = TaskOf(d)' => c = d
        BY Zenon DEF Once
    <2>4. \A c \in Callers : Pushing(c)' => ~Queued(TaskOf(c)') /\ TaskOf(c)' # None
        <3>1. \A c \in Callers : Pushing(c) => TaskOf(c) \in Tasks
            BY ReturnsAreObjects, Zenon DEF Busy, Pushing, TaskOf
        <3> QED
            BY <3>1, DispatchAssumption DEF Once
    <2>5. \A c \in Callers : Pushing(c)' => \A w \in Workers : handler'[w].job # TaskOf(c)'
        BY <2>4, Zenon DEF Once
    <2>6. \A i, j \in 1 .. Len(queue') : queue'[i] = queue'[j] => i = j
        BY Zenon DEF Once
    <2> QED
        BY <1>1, <2>1, <2>2, <2>3, <2>4, <2>5, <2>6, Zenon DEF Once
<1>4. \A t \in Tasks : Attempted(t)' => Attempted(t)
    BY <1>1, DispatchAssumption, Zenon DEF Attempted
<1>5. Recorded'
    BY <1>4, Zenon DEF Recorded
<1> QED
    BY <1>3, <1>5, Zenon

\* Steps of the driver that leave the connections alone, but for a wakeup.
LEMMA LinesStay ==
    ASSUME \A w \in Workers : Line(w), UNCHANGED <<worker, toWorker, toDriver>>,
           \A w \in Workers : /\ handler'[w].job = handler[w].job
                              /\ handler'[w].pc = handler[w].pc
                                 \/ (handler[w].pc = "asleep" /\ handler'[w].pc = "next")
    PROVE  \A w \in Workers : Line(w)'
BY DEF Line

\* The other connections are not concerned by a step on one of them.
LEMMA OtherLines ==
    ASSUME NEW w \in Workers, \A v \in Workers : Line(v), Line(w)',
           \A v \in Workers : v # w =>
               /\ handler'[v] = handler[v] /\ worker'[v] = worker[v]
               /\ toWorker'[v] = toWorker[v] /\ toDriver'[v] = toDriver[v]
    PROVE  \A v \in Workers : Line(v)'
BY DEF Line

\* A task that enters the queue at its end, at its front, or leaves it.
LEMMA QueueMoves ==
    ASSUME NEW q \in Seq(Tasks), NEW t \in Tasks
    PROVE  /\ Append(q, t) \in Seq(Tasks) /\ Len(Append(q, t)) = Len(q) + 1
           /\ Append(q, t)[Len(q) + 1] = t /\ \A i \in 1 .. Len(q) : Append(q, t)[i] = q[i]
           /\ <<t>> \o q \in Seq(Tasks) /\ Len(<<t>> \o q) = Len(q) + 1
           /\ (<<t>> \o q)[1] = t /\ \A i \in 1 .. Len(q) : (<<t>> \o q)[i + 1] = q[i]
           /\ q # <<>> => /\ Head(q) \in Tasks /\ Head(q) = q[1] /\ 1 \in 1 .. Len(q)
                          /\ Tail(q) \in Seq(Tasks) /\ Len(Tail(q)) = Len(q) - 1
                          /\ \A i \in 1 .. Len(q) - 1 : Tail(q)[i] = q[i + 1]
<1>1. /\ Append(q, t) \in Seq(Tasks) /\ Len(Append(q, t)) = Len(q) + 1
      /\ Append(q, t)[Len(q) + 1] = t /\ \A i \in 1 .. Len(q) : Append(q, t)[i] = q[i]
    OBVIOUS
<1>2. <<t>> \in Seq(Tasks) /\ Len(<<t>>) = 1 /\ <<t>>[1] = t /\ Len(q) \in Nat
    OBVIOUS
<1>3. <<t>> \o q \in Seq(Tasks) /\ Len(<<t>> \o q) = Len(q) + 1
    BY <1>2
<1>4. (<<t>> \o q)[1] = t
    BY <1>2
<1>5. \A i \in 1 .. Len(q) : (<<t>> \o q)[i + 1] = q[i]
    BY <1>2
<1>6. q # <<>> => /\ Head(q) \in Tasks /\ Head(q) = q[1] /\ 1 \in 1 .. Len(q)
                  /\ Tail(q) \in Seq(Tasks) /\ Len(Tail(q)) = Len(q) - 1
                  /\ \A i \in 1 .. Len(q) - 1 : Tail(q)[i] = q[i + 1]
    OBVIOUS
<1> QED
    OBVIOUS

-----------------------------------------------------------------------------
(* Driver threads.                                                         *)

\* The record of a driver thread after a step of its own.
LEMMA CallerType ==
    ASSUME TypeOK, Busy, NEW c \in Callers, NEW p \in CallerPcs, NEW o \in Objects \cup {None},
           Caller(c, p, o), p # "idle" => o \in Objects
    PROVE  /\ caller' \in CallerTable
           /\ caller'[c].pc = p /\ caller'[c].obj = o
           /\ \A d \in Callers : d # c => caller'[d] = caller[d]
           /\ \A d \in Callers : caller'[d].pc # "idle" => caller'[d].obj \in Objects
BY Zenon DEF Caller, CallerTable, TypeOK, Busy

\* A step of a driver thread that leaves queue, handlers and workers alone.
LEMMA CallerFrame ==
    ASSUME Inv, record' \in RecordTable, caller' \in CallerTable,
           \A d \in Callers : caller'[d].pc # "idle" => caller'[d].obj \in Objects,
           UNCHANGED <<queue, stopping, handler, toWorker, toDriver, losses, index, worker, owned, plasma, kills>>
    PROVE  TypeOK' /\ Busy'
<1>1. TypeOK'
    BY Zenon DEF Inv, TypeOK, RecordTable, CallerTable
<1>2. Busy'
    BY Zenon DEF Inv, Busy
<1> QED
    BY <1>1, <1>2, Zenon

\* A thread about to queue has a task.
LEMMA PushingTask ==
    ASSUME Inv, NEW c \in Callers, Pushing(c)
    PROVE  TaskOf(c) \in Tasks /\ TaskOf(c) # None
<1>1. caller[c].obj \in Objects
    BY Zenon DEF Inv, Busy, Pushing
<1> QED
    BY <1>1, ReturnsAreObjects, DispatchAssumption, Zenon DEF TaskOf

\* get up to the lineage status, and its return.
LEMMA GetInv ==
    ASSUME Inv, NEW c \in Callers, (\E o \in Objects : Get(c, o)) \/ GetStatus(c) \/ GetReturns(c)
    PROVE  Inv'
<1>1. PICK p \in {"idle", "status", "resubmit", "wait"}, o \in Objects \cup {None} :
          Caller(c, p, o) /\ (p # "idle" => o \in Objects)
    <2>1. CASE GetReturns(c)
        BY <2>1, Zenon DEF GetReturns
    <2>2. CASE GetStatus(c)
        <3>1. caller[c].obj \in Objects
            BY <2>2, Zenon DEF GetStatus, Inv, Busy
        <3> QED
            BY <2>2, <3>1, Zenon DEF GetStatus
    <2>3. ASSUME NEW o \in Objects, Get(c, o) PROVE \E p \in {"wait", "status"} : Caller(c, p, o)
        BY <2>3, Zenon DEF Get
    <2> QED
        BY <2>1, <2>2, <2>3, Zenon
<1>2. UNCHANGED <<queue, stopping, handler, toWorker, toDriver, losses, index, record, worker,
                  owned, plasma, kills>>
    BY Zenon DEF Get, GetStatus, GetReturns, procs
<1>3. TypeOK' /\ Busy'
    <2>1. p \in CallerPcs
        BY Zenon DEF CallerPcs
    <2>2. caller' \in CallerTable /\ \A d \in Callers : caller'[d].pc # "idle" => caller'[d].obj \in Objects
        BY <1>1, <2>1, CallerType, Zenon DEF Inv
    <2> QED
        <3>1. record' \in RecordTable
            BY <1>2, Zenon DEF Inv, TypeOK, RecordTable
        <3> QED
            BY <1>2, <2>2, <3>1, CallerFrame, Zenon
<1>4. \A w \in Workers : Line(w)'
    BY <1>2, LinesStay, Zenon DEF Inv
<1>5. \A d \in Callers : Pushing(d)' => Pushing(d) /\ TaskOf(d)' = TaskOf(d)
    BY <1>1, Zenon DEF Inv, TypeOK, Caller, Pushing, TaskOf
<1>6. Once' /\ Recorded'
    BY <1>2, <1>5, AttemptsShrink, Zenon DEF Inv
<1> QED
    BY <1>3, <1>4, <1>6, Zenon DEF Inv

\* A thread that takes up a new attempt of a task that had none.
LEMMA AttemptStarts ==
    ASSUME Inv, NEW c \in Callers, NEW t \in Tasks, ~Attempted(t), Busy',
           UNCHANGED <<queue, handler>>,
           Pushing(c)' /\ TaskOf(c)' = t, \A d \in Callers : d # c => caller'[d] = caller[d],
           record'[t].known /\ ~record'[t].completed, \A u \in Tasks : u # t => record'[u] = record[u]
    PROVE  Once' /\ Recorded'
<1>1. \A u : Queued(u)' <=> Queued(u)
    BY Zenon DEF Queued
<1>2. \A d \in Callers : d # c => (Pushing(d)' <=> Pushing(d)) /\ TaskOf(d)' = TaskOf(d)
    BY Zenon DEF Pushing, TaskOf
<1>3. ~Queued(t) /\ (\A w \in Workers : handler[w].job # t)
      /\ \A d \in Callers : Pushing(d) => TaskOf(d) # t
    BY Zenon DEF Attempted
<1>4. Once'
    BY <1>1, <1>2, <1>3 DEF Inv, Once
<1>5. \A u \in Tasks : u # t => (Attempted(u)' => Attempted(u))
    BY <1>1, <1>2 DEF Attempted
<1>6. Recorded'
    BY <1>5, Zenon DEF Inv, Recorded
<1> QED
    BY <1>4, <1>6, Zenon

\* submit_task: a task without a record has no attempt.
LEMMA SubmitInv == ASSUME Inv, NEW c \in Callers, NEW t \in Tasks, SubmitTask(c, t) PROVE Inv'
<1>1. UNCHANGED <<queue, stopping, handler, toWorker, toDriver, losses, index, worker, owned,
                  plasma, kills>>
    BY Zenon DEF SubmitTask, procs
<1>2. /\ record' \in RecordTable /\ record'[t].known /\ record'[t].completed = record[t].completed
      /\ \A u \in Tasks : u # t => record'[u] = record[u]
    BY ZenonT(30) DEF SubmitTask, Inv, TypeOK, RecordTable
<1>3. ~Attempted(t) /\ ~record[t].completed
    BY Zenon DEF SubmitTask, Inv, Recorded
<1>4. \A w \in Workers : Line(w)'
    BY <1>1, LinesStay, Zenon DEF Inv
<1>5. CASE stopping
    <2>1. caller' = caller
        BY <1>5, Zenon DEF SubmitTask
    <2>2. TypeOK' /\ Busy'
        BY <1>1, <1>2, <2>1, Zenon DEF Inv, TypeOK, Busy, RecordTable
    <2>3. \A u : Attempted(u)' <=> Attempted(u)
        BY <1>1, <2>1, Zenon DEF Attempted, Queued, Pushing, TaskOf
    <2>4. Once'
        BY <1>1, <2>1 DEF Inv, Once, Queued, Pushing, TaskOf
    <2>5. Recorded'
        BY <1>2, <2>3, Zenon DEF Inv, Recorded
    <2> QED
        BY <1>4, <2>2, <2>4, <2>5, Zenon DEF Inv
<1>6. CASE ~stopping
    <2>1. Caller(c, "push", <<t, 0>>) /\ "push" \in CallerPcs /\ <<t, 0>> \in Objects
        BY <1>6, ReturnsAreObjects, Zenon DEF SubmitTask, CallerPcs
    <2>2. /\ caller' \in CallerTable /\ caller'[c].pc = "push" /\ caller'[c].obj = <<t, 0>>
          /\ \A d \in Callers : d # c => caller'[d] = caller[d]
          /\ \A d \in Callers : caller'[d].pc # "idle" => caller'[d].obj \in Objects
        BY <2>1, CallerType DEF Inv
    <2>3. TypeOK' /\ Busy'
        BY <1>1, <1>2, <2>2, CallerFrame, Zenon
    <2>4. Pushing(c)' /\ TaskOf(c)' = t
        BY <2>2 DEF Pushing, TaskOf
    <2>5. Once' /\ Recorded'
        BY <1>1, <1>2, <1>3, <2>2, <2>3, <2>4, AttemptStarts, Zenon
    <2> QED
        BY <1>4, <2>3, <2>5, Zenon DEF Inv
<1> QED
    BY <1>5, <1>6, Zenon

\* try_resubmit: only a completed task is ready, and a completed one has no
\* attempt; the flag is reset in the same step.
LEMMA ResubmitInv == ASSUME Inv, NEW c \in Callers, GetResubmit(c) PROVE Inv'
<1> DEFINE o == caller[c].obj
           t == o[1]
<1>1. o \in Objects /\ t \in Tasks
    BY ReturnsAreObjects, Zenon DEF GetResubmit, Inv, Busy
<1>2. UNCHANGED <<queue, stopping, handler, toWorker, toDriver, losses, index, worker, owned,
                  plasma, kills>>
    BY Zenon DEF GetResubmit, procs
<1>3. \A w \in Workers : Line(w)'
    BY <1>2, LinesStay, Zenon DEF Inv
<1>4. PICK p \in {"wait", "repush"} : Caller(c, p, o)
    BY Zenon DEF GetResubmit
<1>5. /\ caller' \in CallerTable /\ caller'[c].pc = p /\ caller'[c].obj = o
      /\ \A d \in Callers : d # c => caller'[d] = caller[d]
      /\ \A d \in Callers : caller'[d].pc # "idle" => caller'[d].obj \in Objects
    <2>1. p \in CallerPcs
        BY Zenon DEF CallerPcs
    <2> QED
        BY <1>1, <1>4, <2>1, CallerType DEF Inv
<1>6. CASE LineageStatus(t) # "ready"
    <2>1. record' = record /\ caller'[c].pc = "wait"
        BY <1>6 DEF GetResubmit, Caller, Inv, TypeOK
    <2>2. TypeOK' /\ Busy'
        <3>1. record' \in RecordTable
            BY <2>1, Zenon DEF Inv, TypeOK, RecordTable
        <3> QED
            BY <1>2, <1>5, <3>1, CallerFrame, Zenon
    <2>3. \A d \in Callers : Pushing(d)' => Pushing(d) /\ TaskOf(d)' = TaskOf(d)
        BY <1>5, <2>1, Zenon DEF Pushing, TaskOf
    <2>4. Once' /\ Recorded'
        BY <1>2, <2>1, <2>3, AttemptsShrink, Zenon DEF Inv
    <2> QED
        BY <1>3, <2>2, <2>4, Zenon DEF Inv
<1>7. CASE LineageStatus(t) = "ready"
    <2>1. record[t].known /\ record[t].completed /\ record[t].retries # 0
        BY <1>7, Zenon DEF LineageStatus
    <2>2. /\ record' \in RecordTable /\ record'[t].known /\ ~record'[t].completed
          /\ \A u \in Tasks : u # t => record'[u] = record[u]
        <3>1. record' = [record EXCEPT ![t] = [record[t] EXCEPT !.retries = @ - 1, !.completed = FALSE]]
            BY <1>7, Zenon DEF GetResubmit, TryResubmit
        <3>2. record[t].retries \in 0 .. MaxRetries /\ record[t].retries - 1 \in 0 .. MaxRetries
            BY <1>1, <2>1, DispatchAssumption, SMTT(30) DEF Inv, TypeOK
        <3> QED
            BY <1>1, <2>1, <3>1, <3>2, ZenonT(30) DEF Inv, TypeOK, RecordTable
    <2>3. TypeOK' /\ Busy'
        BY <1>2, <1>5, <2>2, CallerFrame, Zenon
    <2>4. ~Attempted(t)
        BY <1>1, <2>1, Zenon DEF Inv, Recorded
    <2>5. CASE p = "repush"
        <3>1. Pushing(c)' /\ TaskOf(c)' = t
            BY <1>5, <2>5, Zenon DEF Pushing, TaskOf
        <3>2. Once' /\ Recorded'
            BY <1>1, <1>2, <1>5, <2>2, <2>3, <2>4, <3>1, AttemptStarts, Zenon
        <3> QED
            BY <1>3, <2>3, <3>2, Zenon DEF Inv
    <2>6. CASE p = "wait"
        <3>1. \A d \in Callers : Pushing(d)' => Pushing(d) /\ TaskOf(d)' = TaskOf(d)
            BY <1>5, <2>6, Zenon DEF Pushing, TaskOf
        <3>2. \A u \in Tasks : record'[u].known = record[u].known
                               /\ (record'[u].completed => record[u].completed)
            BY <2>1, <2>2, ZenonT(30) DEF RecordTable
        <3>3. Once' /\ Recorded'
            BY <1>2, <3>1, <3>2, AttemptsShrink, Zenon DEF Inv
        <3> QED
            BY <1>3, <2>3, <3>3, Zenon DEF Inv
    <2> QED
        BY <2>5, <2>6, Zenon
<1> QED
    BY <1>6, <1>7, Zenon

\* submit: the attempt moves from the thread to the end of the queue.
LEMMA PushInv == ASSUME Inv, NEW c \in Callers, Push(c) PROVE Inv'
<1> DEFINE t == TaskOf(c)
<1>1. Pushing(c) /\ caller[c].obj \in Objects /\ t \in Tasks /\ t = caller[c].obj[1]
    BY ReturnsAreObjects, Zenon DEF Push, Inv, Busy, Pushing, TaskOf
<1>2. UNCHANGED <<stopping, toWorker, toDriver, losses, index, record, worker, owned, plasma, kills>>
    BY Zenon DEF Push, procs
<1>3. queue' = Append(queue, t) /\ queue \in Seq(Tasks) /\ handler \in HandlerTable
      /\ handler' \in NotifyOne(handler)
    BY <1>1, Zenon DEF Push, Enqueue, Inv, TypeOK, HandlerTable
<1>4. /\ handler' \in HandlerTable
      /\ \A w \in Workers : /\ handler'[w].job = handler[w].job
                            /\ handler'[w].pc = handler[w].pc
                               \/ (handler[w].pc = "asleep" /\ handler'[w].pc = "next")
    BY <1>3, Notified
<1>5. /\ caller' \in CallerTable /\ caller'[c].pc \in {"idle", "wait"}
      /\ \A d \in Callers : d # c => caller'[d] = caller[d]
      /\ \A d \in Callers : caller'[d].pc # "idle" => caller'[d].obj \in Objects
    <2>1. PICK p \in {"idle", "wait"}, o \in Objects \cup {None} : Caller(c, p, o) /\ (p # "idle" => o \in Objects)
        BY <1>1, Zenon DEF Push
    <2>2. p \in CallerPcs
        BY Zenon DEF CallerPcs
    <2> QED
        BY <2>1, <2>2, CallerType, Zenon DEF Inv
<1>6. /\ queue' \in Seq(Tasks) /\ Len(queue') = Len(queue) + 1 /\ Len(queue) \in Nat
      /\ queue'[Len(queue) + 1] = t /\ \A i \in 1 .. Len(queue) : queue'[i] = queue[i]
    <2>1. Append(queue, t) \in Seq(Tasks) /\ Len(Append(queue, t)) = Len(queue) + 1
        BY <1>1, <1>3, QueueMoves, Zenon
    <2>2. Append(queue, t)[Len(queue) + 1] = t /\ \A i \in 1 .. Len(queue) : Append(queue, t)[i] = queue[i]
        OBVIOUS
    <2>3. Len(queue) \in Nat
        BY <1>3
    <2> QED
        BY <1>3, <2>1, <2>2, <2>3, Zenon
<1>7. TypeOK' /\ Busy'
    <2>1. TypeOK'
        BY <1>2, <1>4, <1>5, <1>6, Zenon DEF Inv, TypeOK, HandlerTable, CallerTable
    <2>2. Busy'
        BY <1>2, <1>4, <1>5 DEF Inv, Busy
    <2> QED
        BY <2>1, <2>2, Zenon
<1>8. \A w \in Workers : Line(w)'
    BY <1>2, <1>4, LinesStay, Zenon DEF Inv
<1>9. \A u : Queued(u)' <=> Queued(u) \/ u = t
    BY <1>6 DEF Queued
<1>10. \A d \in Callers : Pushing(d)' <=> Pushing(d) /\ d # c
    BY <1>5, Zenon DEF Pushing
<1>11. \A d \in Callers : Pushing(d)' => TaskOf(d)' = TaskOf(d) /\ TaskOf(d) # t
    BY <1>1, <1>5, <1>10, Zenon DEF TaskOf, Inv, Once
<1>12. Once'
    <2>1. \A i, j \in 1 .. Len(queue') : queue'[i] = queue'[j] => i = j
        <3>1. \A i \in 1 .. Len(queue) : queue[i] # t
            BY <1>1, Zenon DEF Inv, Once, Queued
        <3>2. \A i \in 1 .. Len(queue') : i = Len(queue) + 1 \/ i \in 1 .. Len(queue)
            BY <1>6
        <3> QED
            BY <1>6, <3>1, <3>2 DEF Inv, Once
    <2>2. \A w \in Workers : handler[w].job # t
        BY <1>1, Zenon DEF Inv, Once
    <2> QED
        <3>1. \A v, w \in Workers : handler'[v].job # None /\ handler'[v].job = handler'[w].job => v = w
            <4>1. \A w \in Workers : handler'[w].job = handler[w].job
                BY <1>4, Zenon
            <4> QED
                BY <4>1 DEF Inv, Once
        <3>2. \A d, e \in Callers : Pushing(d)' /\ Pushing(e)' /\ TaskOf(d)' = TaskOf(e)' => d = e
            BY <1>10, <1>11, Zenon DEF Inv, Once
        <3>3. \A w \in Workers : ~Queued(handler[w].job)'
            BY <1>4, <1>9, <2>2 DEF Inv, Once
        <3>4. \A d \in Callers : Pushing(d)' => ~Queued(TaskOf(d))' /\ \A w \in Workers : handler'[w].job # TaskOf(d)'
            <4> SUFFICES ASSUME NEW d \in Callers, Pushing(d)'
                         PROVE  ~Queued(TaskOf(d))' /\ \A w \in Workers : handler'[w].job # TaskOf(d)'
                BY Zenon
            <4>1. Pushing(d) /\ TaskOf(d)' = TaskOf(d) /\ TaskOf(d) # t
                BY <1>10, <1>11, Zenon
            <4>2. ~Queued(TaskOf(d)) /\ \A w \in Workers : handler[w].job # TaskOf(d)
                BY <4>1, Zenon DEF Inv, Once
            <4>3. ~Queued(TaskOf(d))'
                BY <1>9, <4>1, <4>2, Zenon
            <4>4. \A w \in Workers : handler'[w].job # TaskOf(d)
                BY <1>4, <4>2, Zenon
            <4> QED
                BY <4>1, <4>3, <4>4, Zenon
        <3> QED
            BY <2>1, <3>1, <3>2, <3>3, <3>4, Zenon DEF Once
<1>13. Recorded'
    <2>1. \A u \in Tasks : Attempted(u)' => Attempted(u)
        BY <1>1, <1>4, <1>9, <1>10, <1>11 DEF Attempted
    <2> QED
        BY <1>2, <2>1, Zenon DEF Inv, Recorded
<1> QED
    BY <1>7, <1>8, <1>12, <1>13, Zenon DEF Inv

\* free and evict_local touch the stores only.
LEMMA LossInv == ASSUME Inv, NEW o \in Objects, Free(o) \/ EvictLocal(o) PROVE Inv'
<1>1. /\ UNCHANGED <<queue, stopping, handler, toWorker, toDriver, record, caller, worker, owned, kills>>
      /\ index' \subseteq Objects /\ plasma' \subseteq Objects /\ losses' \in 0 .. MaxLosses
    BY DispatchAssumption DEF Inv, TypeOK, Free, EvictLocal, procs
<1>2. TypeOK' /\ Busy'
    BY <1>1, Zenon DEF Inv, TypeOK, Busy
<1>3. \A w \in Workers : Line(w)'
    BY <1>1, LinesStay, Zenon DEF Inv
<1>4. Once' /\ Recorded'
    BY <1>1, AttemptsShrink, Zenon DEF Inv, Pushing, TaskOf
<1> QED
    BY <1>2, <1>3, <1>4, Zenon DEF Inv

\* shutdown wakes the sleepers.
LEMMA ShutdownInv == ASSUME Inv, Shutdown PROVE Inv'
<1>1. UNCHANGED <<queue, toWorker, toDriver, losses, index, record, caller, worker, owned, plasma, kills>>
    BY Zenon DEF Shutdown, driver, procs
<1>2. /\ handler' \in HandlerTable /\ stopping' \in BOOLEAN
      /\ \A w \in Workers : /\ handler'[w].job = handler[w].job
                            /\ handler'[w].pc = handler[w].pc
                               \/ (handler[w].pc = "asleep" /\ handler'[w].pc = "next")
    <2> DEFINE Row == [pc : HandlerPcs, job : Tasks \cup {None}]
    <2>1. handler \in [Workers -> Row] /\ "next" \in HandlerPcs
        BY Zenon DEF Inv, TypeOK, HandlerPcs
    <2>2. \A x \in Row : /\ [x EXCEPT !.pc = "next"] \in Row
                         /\ [x EXCEPT !.pc = "next"].pc = "next" /\ [x EXCEPT !.pc = "next"].job = x.job
        BY <2>1, Zenon
    <2>3. handler' = [w \in Workers |-> IF handler[w].pc = "asleep" THEN [handler[w] EXCEPT !.pc = "next"]
                                        ELSE handler[w]]
        BY Zenon DEF Shutdown, NotifyAll
    <2> HIDE DEF Row
    <2>4. handler' \in [Workers -> Row]
        BY <2>1, <2>2, <2>3, Zenon
    <2>5. \A w \in Workers : handler'[w] = IF handler[w].pc = "asleep" THEN [handler[w] EXCEPT !.pc = "next"]
                                           ELSE handler[w]
        BY <2>3, Zenon
    <2>6. \A w \in Workers : /\ handler'[w].job = handler[w].job
                             /\ handler'[w].pc = handler[w].pc
                                \/ (handler[w].pc = "asleep" /\ handler'[w].pc = "next")
        <3> SUFFICES ASSUME NEW w \in Workers
                     PROVE  /\ handler'[w].job = handler[w].job
                            /\ handler'[w].pc = handler[w].pc
                               \/ (handler[w].pc = "asleep" /\ handler'[w].pc = "next")
            BY Zenon
        <3>1. handler[w] \in Row
            BY <2>1, Zenon
        <3>2. CASE handler[w].pc = "asleep"
            <4>1. handler'[w] = [handler[w] EXCEPT !.pc = "next"]
                BY <2>5, <3>2, Zenon
            <4> QED
                BY <2>2, <3>1, <3>2, <4>1, Zenon
        <3>3. CASE handler[w].pc # "asleep"
            BY <2>5, <3>3, Zenon
        <3> QED
            BY <3>2, <3>3, Zenon
    <2> QED
        BY <2>4, <2>6, Zenon DEF Row, HandlerTable, Shutdown
<1>3. TypeOK' /\ Busy'
    BY <1>1, <1>2, ZenonT(30) DEF Inv, TypeOK, Busy, HandlerTable
<1>4. \A w \in Workers : Line(w)'
    BY <1>1, <1>2, LinesStay, Zenon DEF Inv
<1>5. Once' /\ Recorded'
    BY <1>1, <1>2, AttemptsShrink, Zenon DEF Inv, Pushing, TaskOf
<1> QED
    BY <1>3, <1>4, <1>5, Zenon DEF Inv


-----------------------------------------------------------------------------
(* Handler threads.                                                        *)

\* The record of a handler thread after a step of its own.
LEMMA HandlerType ==
    ASSUME TypeOK, Busy, NEW w \in Workers, NEW p \in HandlerPcs, NEW j \in Tasks \cup {None},
           Handler(w, p, j), p \in {"send", "await", "mark"} <=> j # None
    PROVE  /\ handler' \in HandlerTable /\ handler'[w].pc = p /\ handler'[w].job = j
           /\ \A v \in Workers : v # w => handler'[v] = handler[v]
           /\ \A v \in Workers : handler'[v].pc \in {"send", "await", "mark"} <=> handler'[v].job # None
BY Zenon DEF Handler, HandlerTable, TypeOK, Busy

\* The greeting, an end of the connection, and a next_job without a job.
LEMMA IdleInv ==
    ASSUME Inv, NEW w \in Workers, Accept(w) \/ Disconnected(w) \/ (NextJob(w) /\ queue' = queue)
    PROVE  Inv'
<1>1. PICK p \in {"next", "stopped", "asleep"} : Handler(w, p, None)
    BY DEF Accept, Disconnected, NextJob
<1>2. UNCHANGED <<queue, stopping, toDriver, losses, record, caller, index, owned, plasma, kills>>
    BY Zenon DEF Accept, Disconnected, NextJob, driver, procs
<1>3. /\ handler' \in HandlerTable /\ handler'[w].pc = p /\ handler'[w].job = None
      /\ \A v \in Workers : v # w => handler'[v] = handler[v]
      /\ \A v \in Workers : handler'[v].pc \in {"send", "await", "mark"} <=> handler'[v].job # None
    <2>1. p \in HandlerPcs
        BY Zenon DEF HandlerPcs
    <2> QED
        BY <1>1, <2>1, HandlerType, Zenon DEF Inv
<1>4. /\ worker' \in WorkerTable
      /\ \A v \in Workers : v # w => worker'[v] = worker[v]
      /\ worker'[w].task = worker[w].task /\ worker'[w].k = worker[w].k
      /\ worker'[w].pc = worker[w].pc \/ (worker[w].pc = "starting" /\ worker'[w].pc = "ready")
    <2>1. worker' = worker \/ (worker[w].pc = "starting" /\ worker' = [worker EXCEPT ![w].pc = "ready"])
        BY Zenon DEF Accept, Disconnected, NextJob, procs
    <2>2. worker \in WorkerTable /\ "ready" \in WorkerPcs
        BY Zenon DEF Inv, TypeOK, WorkerTable, WorkerPcs
    <2>3. CASE worker' = worker
        BY <2>2, <2>3, Zenon
    <2>4. CASE worker[w].pc = "starting" /\ worker' = [worker EXCEPT ![w].pc = "ready"]
        BY <2>2, <2>4, ZenonT(30) DEF WorkerTable
    <2> QED
        BY <2>1, <2>3, <2>4, Zenon
<1>5. /\ toWorker' \in [Workers -> Tasks \cup {None, "shutdown"}]
      /\ \A v \in Workers : v # w => toWorker'[v] = toWorker[v]
      /\ toWorker'[w] \in {toWorker[w], None, "shutdown"}
      /\ worker[w].pc \in {"evict", "gone"} => toWorker'[w] = None
    <2>1. \/ toWorker' = toWorker
          \/ toWorker' = [toWorker EXCEPT ![w] = IF SocketOpen(w) THEN "shutdown" ELSE None]
        BY Zenon DEF Accept, Disconnected, NextJob
    <2> QED
        BY <2>1, ZenonT(30) DEF Inv, TypeOK, Line, SocketOpen
<1>6. TypeOK' /\ Busy'
    <2>1. TypeOK'
        BY <1>2, <1>3, <1>4, <1>5, ZenonT(30) DEF Inv, TypeOK, HandlerTable, WorkerTable
    <2>2. Busy'
        BY <1>2, <1>3, <1>4, SMTT(30) DEF Inv, Busy
    <2> QED
        BY <2>1, <2>2, Zenon
<1>7. toWorker[w] \notin Tasks /\ worker[w].task = None /\ toDriver[w] = None
    <2>1. CASE handler[w].pc # "await"
        BY <2>1, Zenon DEF Inv, Line
    <2>2. CASE handler[w].pc = "await"
        BY <2>2, DispatchAssumption, ZenonT(30) DEF Inv, Line, Accept, Disconnected, NextJob,
                                                    SocketOpen
    <2> QED
        BY <2>1, <2>2, Zenon
<1>8. Line(w)'
    BY <1>2, <1>4, <1>5, <1>7, DispatchAssumption DEF Inv, Line
<1>9. \A v \in Workers : Line(v)'
    BY <1>2, <1>3, <1>4, <1>5, <1>8, OtherLines, ZenonT(30) DEF Inv
<1>10. Once' /\ Recorded'
    BY <1>2, <1>3, AttemptsShrink, Zenon DEF Inv, Pushing, TaskOf
<1> QED
    BY <1>6, <1>9, <1>10, Zenon DEF Inv

\* The send, and the reply.
LEMMA JobInv == ASSUME Inv, NEW w \in Workers, SendTask(w) \/ TaskComplete(w) PROVE Inv'
<1> DEFINE t == handler[w].job
<1>1. t \in Tasks
    BY ZenonT(30) DEF SendTask, TaskComplete, Inv, TypeOK, Busy
<1>2. PICK p \in {"await", "mark"} : Handler(w, p, t) /\ (SendTask(w) => p = "await") /\ (TaskComplete(w) => p = "mark")
    BY Zenon DEF SendTask, TaskComplete
<1>3. UNCHANGED <<queue, stopping, losses, record, caller, worker, owned, plasma, kills>>
    BY Zenon DEF SendTask, TaskComplete, driver, procs
<1>4. /\ handler' \in HandlerTable /\ handler'[w].pc = p /\ handler'[w].job = t
      /\ \A v \in Workers : v # w => handler'[v] = handler[v]
      /\ \A v \in Workers : handler'[v].pc \in {"send", "await", "mark"} <=> handler'[v].job # None
    <2>1. p \in HandlerPcs /\ t # None
        BY <1>1, DispatchAssumption, Zenon DEF HandlerPcs
    <2> QED
        BY <1>1, <1>2, <2>1, HandlerType, Zenon DEF Inv
<1>5. /\ toWorker' \in [Workers -> Tasks \cup {None, "shutdown"}] /\ toDriver' \in [Workers -> Tasks \cup {None}]
      /\ index' \subseteq Objects
      /\ \A v \in Workers : v # w => toWorker'[v] = toWorker[v] /\ toDriver'[v] = toDriver[v]
    BY <1>1, ReturnsAreObjects, ZenonT(30) DEF SendTask, TaskComplete, Inv, TypeOK, driver
<1>6. TypeOK' /\ Busy'
    <2>1. TypeOK'
        BY <1>3, <1>4, <1>5, Zenon DEF Inv, TypeOK, HandlerTable
    <2>2. Busy'
        BY <1>3, <1>4, Zenon DEF Inv, Busy
    <2> QED
        BY <2>1, <2>2, Zenon
<1>7. Line(w)'
    <2>1. CASE SendTask(w)
        <3>1. toWorker'[w] = t /\ toDriver'[w] = toDriver[w] /\ handler[w].pc = "send" /\ p = "await"
              /\ worker[w].pc \notin {"evict", "gone"}
            BY <1>2, <2>1, Zenon DEF SendTask, SocketOpen, Inv, TypeOK
        <3> QED
            BY <1>3, <1>4, <3>1, Zenon DEF Inv, Line
    <2>2. CASE TaskComplete(w)
        <3>1. toWorker'[w] = toWorker[w] /\ toDriver[w] # None /\ toDriver'[w] = None /\ p = "mark"
            BY <1>2, <2>2, Zenon DEF TaskComplete, Inv, TypeOK
        <3>2. toWorker[w] \notin Tasks /\ worker[w].task = None
            BY <3>1, Zenon DEF Inv, Line
        <3> QED
            BY <1>3, <3>1, Zenon DEF Inv, Line
    <2> QED
        BY <2>1, <2>2, Zenon
<1>8. \A v \in Workers : Line(v)'
    BY <1>3, <1>4, <1>5, <1>7, OtherLines, Zenon DEF Inv
<1>9. Once' /\ Recorded'
    BY <1>3, <1>4, AttemptsShrink, Zenon DEF Inv, Pushing, TaskOf
<1> QED
    BY <1>6, <1>8, <1>9, Zenon DEF Inv

\* next_job: the attempt moves from the queue to the handler.
LEMMA TakeInv == ASSUME Inv, NEW w \in Workers, NextJob(w), queue' # queue PROVE Inv'
<1> DEFINE t == Head(queue)
<1>1. queue # <<>> /\ Handler(w, "send", t) /\ queue' = Tail(queue) /\ handler[w].pc = "next"
    BY Zenon DEF NextJob
<1>2. UNCHANGED <<stopping, toWorker, toDriver, losses, index, record, caller, worker, owned,
                  plasma, kills>>
    BY Zenon DEF NextJob, driver, procs
<1>3. /\ queue \in Seq(Tasks) /\ t \in Tasks /\ t = queue[1] /\ 1 \in 1 .. Len(queue) /\ Len(queue) \in Nat
      /\ queue' \in Seq(Tasks) /\ Len(queue') = Len(queue) - 1
      /\ \A i \in 1 .. Len(queue) - 1 : queue'[i] = queue[i + 1]
    <2>1. queue \in Seq(Tasks)
        BY Zenon DEF Inv, TypeOK
    <2>2. queue # <<>> /\ t \in Tasks
        <3>1. queue # <<>>
            BY <1>1, Zenon
        <3> QED
            BY <2>1, <3>1
    <2>3. /\ t = queue[1] /\ 1 \in 1 .. Len(queue)
          /\ Tail(queue) \in Seq(Tasks) /\ Len(Tail(queue)) = Len(queue) - 1
          /\ \A i \in 1 .. Len(queue) - 1 : Tail(queue)[i] = queue[i + 1]
        BY <2>1, <2>2, QueueMoves, Zenon
    <2>4. Len(queue) \in Nat
        BY <2>1
    <2> QED
        BY <1>1, <2>1, <2>2, <2>3, <2>4, Zenon
<1>4. /\ handler' \in HandlerTable /\ handler'[w].pc = "send" /\ handler'[w].job = t
      /\ \A v \in Workers : v # w => handler'[v] = handler[v]
      /\ \A v \in Workers : handler'[v].pc \in {"send", "await", "mark"} <=> handler'[v].job # None
    <2>1. "send" \in HandlerPcs /\ t # None /\ t \in Tasks \cup {None}
        BY <1>3, DispatchAssumption, Zenon DEF HandlerPcs
    <2> QED
        BY <1>1, <2>1, HandlerType, Zenon DEF Inv
<1>5. TypeOK' /\ Busy'
    <2>1. TypeOK'
        BY <1>2, <1>3, <1>4, Zenon DEF Inv, TypeOK, HandlerTable
    <2>2. Busy'
        BY <1>2, <1>4, Zenon DEF Inv, Busy
    <2> QED
        BY <2>1, <2>2, Zenon
<1>6. Line(w)'
    BY <1>1, <1>2, Zenon DEF Inv, Line
<1>7. \A v \in Workers : Line(v)'
    BY <1>2, <1>4, <1>6, OtherLines, Zenon DEF Inv
<1>8. \A u : Queued(u)' => Queued(u) /\ u # t
    <2> SUFFICES ASSUME NEW i \in 1 .. Len(queue'), NEW u, queue'[i] = u PROVE Queued(u) /\ u # t
        BY Zenon DEF Queued
    <2>1. i + 1 \in 1 .. Len(queue) /\ queue[i + 1] = u /\ i + 1 # 1
        BY <1>3
    <2> QED
        BY <1>3, <2>1, Zenon DEF Inv, Once, Queued
<1>9. Queued(t)
    BY <1>3, Zenon DEF Queued
<1>10. \A c \in Callers : (Pushing(c)' <=> Pushing(c)) /\ TaskOf(c)' = TaskOf(c)
    BY <1>2, Zenon DEF Pushing, TaskOf
<1>11. Once'
    <2>1. \A i, j \in 1 .. Len(queue') : queue'[i] = queue'[j] => i = j
        <3> SUFFICES ASSUME NEW i \in 1 .. Len(queue'), NEW j \in 1 .. Len(queue'), queue'[i] = queue'[j]
                     PROVE  i = j
            BY Zenon
        <3>1. i + 1 \in 1 .. Len(queue) /\ j + 1 \in 1 .. Len(queue) /\ queue[i + 1] = queue[j + 1]
            BY <1>3
        <3> QED
            BY <3>1 DEF Inv, Once
    <2>2. \A v, x \in Workers : handler'[v].job # None /\ handler'[v].job = handler'[x].job => v = x
        BY <1>4, <1>9 DEF Inv, Once
    <2>3. \A v \in Workers : ~Queued(handler[v].job)'
        BY <1>4, <1>8, Zenon DEF Inv, Once
    <2>4. \A c \in Callers : Pushing(c)' => ~Queued(TaskOf(c))' /\ \A v \in Workers : handler'[v].job # TaskOf(c)'
        <3> SUFFICES ASSUME NEW c \in Callers, Pushing(c)'
                     PROVE  ~Queued(TaskOf(c))' /\ \A v \in Workers : handler'[v].job # TaskOf(c)'
            BY Zenon
        <3>1. ~Queued(TaskOf(c)) /\ \A v \in Workers : handler[v].job # TaskOf(c)
            BY <1>10, Zenon DEF Inv, Once
        <3>2. ~Queued(TaskOf(c))' /\ TaskOf(c)' = TaskOf(c)
            BY <1>8, <1>10, <3>1, Zenon
        <3>3. TaskOf(c) # t
            BY <1>9, <3>1, Zenon
        <3>4. \A v \in Workers : handler'[v].job # TaskOf(c)
            BY <1>4, <3>1, <3>3, Zenon
        <3> QED
            BY <3>2, <3>4, Zenon
    <2> QED
        BY <1>10, <2>1, <2>2, <2>3, <2>4, Zenon DEF Inv, Once
<1>12. Recorded'
    <2>1. \A u \in Tasks : Attempted(u)' => Attempted(u)
        BY <1>4, <1>8, <1>9, <1>10, Zenon DEF Attempted
    <2> QED
        BY <1>2, <2>1, Zenon DEF Inv, Recorded
<1> QED
    BY <1>5, <1>7, <1>11, <1>12, Zenon DEF Inv

\* A failed send: the attempt moves back to the front of the queue.
LEMMA SendFailsInv == ASSUME Inv, NEW w \in Workers, SendFails(w) PROVE Inv'
<1> DEFINE h == [handler EXCEPT ![w] = [pc |-> "stopped", job |-> None]]
<1>1. PICK t \in Tasks : t = handler[w].job /\ t # None /\ handler[w].pc = "send"
    BY DEF SendFails, Inv, TypeOK, Busy
<1>2. UNCHANGED <<stopping, toWorker, toDriver, losses, index, record, caller, worker, owned,
                  plasma, kills>>
    BY Zenon DEF SendFails, driver, procs
<1>3. /\ queue' \in Seq(Tasks) /\ Len(queue') = Len(queue) + 1 /\ Len(queue) \in Nat
      /\ queue'[1] = t /\ \A i \in 1 .. Len(queue) : queue'[i + 1] = queue[i]
    <2>1. queue' = <<t>> \o queue /\ queue \in Seq(Tasks)
        BY <1>1, Zenon DEF SendFails, Inv, TypeOK
    <2> QED
        BY <2>1
<1>4. /\ h \in HandlerTable /\ h[w].pc = "stopped" /\ h[w].job = None
      /\ \A v \in Workers : v # w => h[v] = handler[v]
    BY Zenon DEF Inv, TypeOK, HandlerTable, HandlerPcs
<1>5. handler' \in NotifyOne(h)
    BY Zenon DEF SendFails
<1> HIDE DEF h
<1>6. /\ handler' \in HandlerTable
      /\ handler'[w].pc = "stopped" /\ handler'[w].job = None
      /\ \A v \in Workers : v # w =>
            /\ handler'[v].job = handler[v].job
            /\ handler'[v].pc = handler[v].pc \/ (handler[v].pc = "asleep" /\ handler'[v].pc = "next")
    BY <1>4, <1>5, Notified
<1>7. TypeOK' /\ Busy'
    <2>1. TypeOK'
        BY <1>2, <1>3, <1>6, Zenon DEF Inv, TypeOK, HandlerTable
    <2>2. Busy'
        BY <1>2, <1>6 DEF Inv, Busy
    <2> QED
        BY <2>1, <2>2, Zenon
<1>8. \A v \in Workers : Line(v)'
    <2>1. Line(w)'
        BY <1>1, <1>2, Zenon DEF Inv, Line
    <2>2. ASSUME NEW v \in Workers, v # w PROVE Line(v)'
        BY <1>2, <1>6, <2>2 DEF Inv, Line
    <2> QED
        BY <2>1, <2>2, Zenon
<1>9. \A u : Queued(u)' <=> Queued(u) \/ u = t
    <2>1. ASSUME NEW u, Queued(u)' PROVE Queued(u) \/ u = t
        <3>1. PICK i \in 1 .. Len(queue') : queue'[i] = u
            BY <2>1, Zenon DEF Queued
        <3>2. CASE i = 1
            BY <1>3, <3>1, <3>2, Zenon
        <3>3. CASE i # 1
            <4>1. i - 1 \in 1 .. Len(queue) /\ (i - 1) + 1 = i
                BY <1>3, <3>3
            <4>2. queue[i - 1] = u
                BY <1>3, <3>1, <4>1, Zenon
            <4> QED
                BY <4>1, <4>2, Zenon DEF Queued
        <3> QED
            BY <3>2, <3>3, Zenon
    <2>2. ASSUME NEW u, Queued(u) PROVE Queued(u)'
        <3>1. PICK i \in 1 .. Len(queue) : queue[i] = u
            BY <2>2, Zenon DEF Queued
        <3>2. i + 1 \in 1 .. Len(queue') /\ queue'[i + 1] = u
            BY <1>3, <3>1
        <3> QED
            BY <3>2, Zenon DEF Queued
    <2>3. Queued(t)'
        <3>1. 1 \in 1 .. Len(queue')
            BY <1>3
        <3> QED
            BY <1>3, <3>1, Zenon DEF Queued
    <2> QED
        BY <2>1, <2>2, <2>3, Zenon
<1>10. \A c \in Callers : (Pushing(c)' <=> Pushing(c)) /\ TaskOf(c)' = TaskOf(c)
    BY <1>2, Zenon DEF Pushing, TaskOf
<1>11. Once'
    <2>1. \A i, j \in 1 .. Len(queue') : queue'[i] = queue'[j] => i = j
        <3>1. \A i \in 1 .. Len(queue) : queue[i] # t
            BY <1>1, Zenon DEF Inv, Once, Queued
        <3>2. \A i \in 1 .. Len(queue') : i # 1 => i - 1 \in 1 .. Len(queue) /\ queue'[i] = queue[i - 1]
            <4> SUFFICES ASSUME NEW i \in 1 .. Len(queue'), i # 1
                         PROVE  i - 1 \in 1 .. Len(queue) /\ queue'[i] = queue[i - 1]
                BY Zenon
            <4>1. i - 1 \in 1 .. Len(queue) /\ (i - 1) + 1 = i
                BY <1>3
            <4> QED
                BY <1>3, <4>1, Zenon
        <3> SUFFICES ASSUME NEW i \in 1 .. Len(queue'), NEW j \in 1 .. Len(queue'), queue'[i] = queue'[j]
                     PROVE  i = j
            BY Zenon
        <3>3. CASE i = 1 \/ j = 1
            BY <1>3, <3>1, <3>2, <3>3
        <3>4. CASE i # 1 /\ j # 1
            <4>1. i - 1 = j - 1
                BY <3>2, <3>4 DEF Inv, Once
            <4> QED
                BY <4>1, <1>3
        <3> QED
            BY <3>3, <3>4, Zenon
    <2>2. \A v, x \in Workers : handler'[v].job # None /\ handler'[v].job = handler'[x].job => v = x
        BY <1>6 DEF Inv, Once
    <2>3. \A v \in Workers : ~Queued(handler[v].job)'
        <3>1. ~Queued(None)
            BY DispatchAssumption DEF Inv, TypeOK, Queued
        <3>2. \A v \in Workers : v # w => handler[v].job # t
            BY <1>1, Zenon DEF Inv, Once
        <3> QED
            BY <1>1, <1>6, <1>9, <3>1 DEF Inv, Once
    <2>4. \A c \in Callers : Pushing(c)' => ~Queued(TaskOf(c))' /\ \A v \in Workers : handler'[v].job # TaskOf(c)'
        <3>1. \A c \in Callers : Pushing(c) => TaskOf(c) # None /\ TaskOf(c) # t
            <4>1. \A c \in Callers : Pushing(c) => TaskOf(c) # None
                BY PushingTask, Zenon
            <4>2. \A c \in Callers : Pushing(c) => TaskOf(c) # handler[w].job
                BY Zenon DEF Inv, Once
            <4> QED
                BY <1>1, <4>1, <4>2, Zenon
        <3> SUFFICES ASSUME NEW c \in Callers, Pushing(c)'
                     PROVE  ~Queued(TaskOf(c))' /\ \A v \in Workers : handler'[v].job # TaskOf(c)'
            BY Zenon
        <3>2. Pushing(c) /\ TaskOf(c)' = TaskOf(c) /\ TaskOf(c) # None /\ TaskOf(c) # t
            BY <1>10, <3>1, Zenon
        <3>3. ~Queued(TaskOf(c)) /\ \A v \in Workers : handler[v].job # TaskOf(c)
            BY <3>2, Zenon DEF Inv, Once
        <3>4. ~Queued(TaskOf(c))'
            BY <1>9, <3>2, <3>3, Zenon
        <3>5. \A v \in Workers : handler'[v].job # TaskOf(c)
            BY <1>6, <3>2, <3>3, Zenon
        <3> QED
            BY <3>2, <3>4, <3>5, Zenon
    <2> QED
        BY <1>10, <2>1, <2>2, <2>3, <2>4, Zenon DEF Inv, Once
<1>12. Recorded'
    <2>1. \A u \in Tasks : Attempted(u)' => Attempted(u)
        BY <1>1, <1>6, <1>9, <1>10, DispatchAssumption, ZenonT(30) DEF Attempted
    <2> QED
        BY <1>2, <2>1, Zenon DEF Inv, Recorded
<1> QED
    BY <1>7, <1>8, <1>11, <1>12, Zenon DEF Inv

\* mark_completed: the attempt ends, and there is no other, in a worker either.
LEMMA MarkInv == ASSUME Inv, NEW w \in Workers, MarkCompleted(w) PROVE Inv'
<1>1. PICK t \in Tasks : t = handler[w].job /\ t # None /\ handler[w].pc = "mark"
    BY DEF MarkCompleted, Inv, TypeOK, Busy
<1>2. UNCHANGED <<queue, stopping, toWorker, toDriver, losses, index, caller, worker, owned, plasma, kills>>
    BY Zenon DEF MarkCompleted, procs
<1>3. /\ handler' \in HandlerTable /\ handler'[w].pc = "next" /\ handler'[w].job = None
      /\ \A v \in Workers : v # w => handler'[v] = handler[v]
      /\ \A v \in Workers : handler'[v].pc \in {"send", "await", "mark"} <=> handler'[v].job # None
    <2>1. Handler(w, "next", None) /\ "next" \in HandlerPcs
        BY Zenon DEF MarkCompleted, HandlerPcs
    <2> QED
        BY <2>1, HandlerType, Zenon DEF Inv
<1>4. /\ record' \in RecordTable /\ record'[t].known = record[t].known
      /\ \A u \in Tasks : u # t => record'[u] = record[u]
    BY <1>1, ZenonT(30) DEF MarkCompleted, Inv, TypeOK, RecordTable
<1>5. TypeOK' /\ Busy'
    <2>1. TypeOK'
        BY <1>2, <1>3, <1>4, Zenon DEF Inv, TypeOK, HandlerTable, RecordTable
    <2>2. Busy'
        BY <1>2, <1>3, Zenon DEF Inv, Busy
    <2> QED
        BY <2>1, <2>2, Zenon
<1>6. Line(w)'
    BY <1>1, <1>2, Zenon DEF Inv, Line
<1>7. \A v \in Workers : Line(v)'
    BY <1>2, <1>3, <1>6, OtherLines, Zenon DEF Inv
<1>8. \A u : Queued(u)' <=> Queued(u)
    BY <1>2, Zenon DEF Queued
<1>9. \A c \in Callers : (Pushing(c)' <=> Pushing(c)) /\ TaskOf(c)' = TaskOf(c)
    BY <1>2, Zenon DEF Pushing, TaskOf
<1>10. ~Queued(None) /\ \A c \in Callers : Pushing(c) => TaskOf(c) # None
    <2>1. ~Queued(None)
        BY DispatchAssumption DEF Inv, TypeOK, Queued
    <2> QED
        BY <2>1, PushingTask, Zenon
<1>11. Once'
    <2>1. \A v, x \in Workers : handler'[v].job # None /\ handler'[v].job = handler'[x].job => v = x
        <3> SUFFICES ASSUME NEW v \in Workers, NEW x \in Workers,
                            handler'[v].job # None, handler'[v].job = handler'[x].job
                     PROVE  v = x
            BY Zenon
        <3>1. v # w /\ x # w
            BY <1>3, Zenon
        <3>2. handler[v].job # None /\ handler[v].job = handler[x].job
            BY <1>3, <3>1, Zenon
        <3> QED
            BY <3>2, Zenon DEF Inv, Once
    <2>2. \A v \in Workers : ~Queued(handler[v].job)'
        BY <1>3, <1>8, <1>10, Zenon DEF Inv, Once
    <2>3. \A c \in Callers : Pushing(c)' => ~Queued(TaskOf(c))' /\ \A v \in Workers : handler'[v].job # TaskOf(c)'
        <3> SUFFICES ASSUME NEW c \in Callers, Pushing(c)'
                     PROVE  ~Queued(TaskOf(c))' /\ \A v \in Workers : handler'[v].job # TaskOf(c)'
            BY Zenon
        <3>1. Pushing(c) /\ TaskOf(c)' = TaskOf(c) /\ TaskOf(c) # None
            BY <1>9, <1>10, Zenon
        <3>2. ~Queued(TaskOf(c)) /\ \A v \in Workers : handler[v].job # TaskOf(c)
            BY <3>1, Zenon DEF Inv, Once
        <3>3. ~Queued(TaskOf(c))'
            BY <1>8, <3>1, <3>2, Zenon
        <3>4. \A v \in Workers : handler'[v].job # TaskOf(c)
            BY <1>3, <3>1, <3>2, Zenon
        <3> QED
            BY <3>1, <3>3, <3>4, Zenon
    <2> QED
        BY <1>2, <1>9, <2>1, <2>2, <2>3 DEF Inv, Once
<1>12. Recorded'
    <2>1. ~Attempted(t)'
        BY <1>1, <1>3, <1>8, <1>9 DEF Inv, Once, Attempted
    <2>2. record[t].known
        BY <1>1, Zenon DEF Inv, Recorded, Attempted
    <2>3. \A u \in Tasks : Attempted(u)' => Attempted(u)
        BY <1>3, <1>8, <1>9, DispatchAssumption, Zenon DEF Attempted
    <2> QED
        BY <1>4, <2>1, <2>2, <2>3, Zenon DEF Inv, Recorded
<1> QED
    BY <1>5, <1>7, <1>11, <1>12, Zenon DEF Inv

-----------------------------------------------------------------------------
(* Worker processes.                                                       *)

\* What a worker's step leaves alone.
LEMMA WorkerFrame ==
    ASSUME Inv, NEW w \in Workers, UNCHANGED <<queue, stopping, handler, losses, index, record, caller>>,
           NEW r \in [pc : WorkerPcs, task : Tasks \cup {None}, k : 0 .. NumReturns],
           worker' = [worker EXCEPT ![w] = r],
           r.pc \in {"seal", "reply"} => r.task # None, r.pc = "seal" => r.k < NumReturns,
           NEW f \in Tasks \cup {None, "shutdown"}, toWorker' = [toWorker EXCEPT ![w] = f],
           NEW g \in Tasks \cup {None}, toDriver' = [toDriver EXCEPT ![w] = g],
           owned' \in [Workers -> SUBSET Objects], plasma' \subseteq Objects, kills' \in 0 .. MaxKills,
           Line(w)'
    PROVE  Inv'
<1>1. /\ worker' \in WorkerTable /\ worker'[w] = r
      /\ \A v \in Workers : v # w => worker'[v] = worker[v]
    BY ZenonT(30) DEF Inv, TypeOK, WorkerTable
<1>2. /\ toWorker' \in [Workers -> Tasks \cup {None, "shutdown"}] /\ toDriver' \in [Workers -> Tasks \cup {None}]
      /\ \A v \in Workers : v # w => toWorker'[v] = toWorker[v] /\ toDriver'[v] = toDriver[v]
    BY Zenon DEF Inv, TypeOK
<1>3. TypeOK'
    BY Zenon DEF Inv, TypeOK
<1>4. Busy'
    BY DEF Inv, Busy
<1>5. \A v \in Workers : Line(v)'
    BY <1>1, <1>2, OtherLines, Zenon DEF Inv
<1>6. Once' /\ Recorded'
    BY AttemptsShrink, Zenon DEF Inv, Pushing, TaskOf
<1> QED
    BY <1>3, <1>4, <1>5, <1>6, Zenon DEF Inv

\* A worker of TypeOK, field by field.
LEMMA WorkerType ==
    ASSUME TypeOK, NEW w \in Workers
    PROVE  /\ worker[w].pc \in WorkerPcs /\ worker[w].task \in Tasks \cup {None} /\ worker[w].k \in 0 .. NumReturns
           /\ \A p \in WorkerPcs :
                 [worker EXCEPT ![w].pc = p] =
                     [worker EXCEPT ![w] = [pc |-> p, task |-> worker[w].task, k |-> worker[w].k]]
           /\ \A p \in WorkerPcs, n \in 0 .. NumReturns :
                 [worker EXCEPT ![w].k = n, ![w].pc = p] =
                     [worker EXCEPT ![w] = [pc |-> p, task |-> worker[w].task, k |-> n]]
           /\ worker = [worker EXCEPT ![w] = [pc |-> worker[w].pc, task |-> worker[w].task, k |-> worker[w].k]]
           /\ toWorker = [toWorker EXCEPT ![w] = toWorker[w]] /\ toWorker[w] \in Tasks \cup {None, "shutdown"}
           /\ toDriver = [toDriver EXCEPT ![w] = toDriver[w]] /\ toDriver[w] \in Tasks \cup {None}
<1> DEFINE Row == [pc : WorkerPcs, task : Tasks \cup {None}, k : 0 .. NumReturns]
<1>1. worker \in [Workers -> Row] /\ worker[w] \in Row
    BY Zenon DEF TypeOK
<1>2. worker[w] = [pc |-> worker[w].pc, task |-> worker[w].task, k |-> worker[w].k]
    BY <1>1, Zenon
<1>3. \A p : [worker[w] EXCEPT !.pc = p] = [pc |-> p, task |-> worker[w].task, k |-> worker[w].k]
    BY <1>1, <1>2
<1>4. \A p, n : [worker[w] EXCEPT !.k = n, !.pc = p] = [pc |-> p, task |-> worker[w].task, k |-> n]
    <2> TAKE p, n
    <2> DEFINE x == worker[w]
               y == [x EXCEPT !.k = n]
               z == [x EXCEPT !.k = n, !.pc = p]
    <2>1. y = [pc |-> x.pc, task |-> x.task, k |-> n]
        BY <1>1, <1>2
    <2>2. z = [y EXCEPT !.pc = p]
        BY Zenon
    <2> HIDE DEF y
    <2>3. z = [pc |-> p, task |-> x.task, k |-> n]
        BY <2>1, <2>2
    <2> QED
        BY <2>3, Zenon
<1>5. \A p : [worker EXCEPT ![w].pc = p] = [worker EXCEPT ![w] = [pc |-> p, task |-> worker[w].task, k |-> worker[w].k]]
    BY <1>1, <1>3, Zenon
<1>6. \A p, n : [worker EXCEPT ![w].k = n, ![w].pc = p] =
                     [worker EXCEPT ![w] = [pc |-> p, task |-> worker[w].task, k |-> n]]
    BY <1>1, <1>4, Zenon
<1>7. worker = [worker EXCEPT ![w] = worker[w]]
    BY <1>1, Zenon
<1>8. /\ toWorker = [toWorker EXCEPT ![w] = toWorker[w]] /\ toWorker[w] \in Tasks \cup {None, "shutdown"}
      /\ toDriver = [toDriver EXCEPT ![w] = toDriver[w]] /\ toDriver[w] \in Tasks \cup {None}
    BY Zenon DEF TypeOK
<1> QED
    BY <1>1, <1>5, <1>6, <1>7, <1>8, Zenon

\* The steps of a worker.  Its task is the job its handler waits for, from the
\* frame to the reply.
LEMMA WorkerInv == ASSUME Inv, NEW w \in Workers, WorkerStep(w) \/ Kill(w) PROVE Inv'
<1> DEFINE Row == [pc : WorkerPcs, task : Tasks \cup {None}, k : 0 .. NumReturns]
<1>1. owned \in [Workers -> SUBSET Objects] /\ plasma \subseteq Objects /\ kills \in 0 .. MaxKills
      /\ Line(w)
    BY Zenon DEF Inv, TypeOK
<1>2. UNCHANGED <<queue, stopping, handler, losses, index, record, caller>>
    BY Zenon DEF WorkerStep, WorkerRecv, WorkerSeal, WorkerSealRefused, WorkerReply, WorkerClose,
                 WorkerEvict, Kill, driver
<1>3. /\ worker[w].pc \in WorkerPcs /\ worker[w].task \in Tasks \cup {None} /\ worker[w].k \in 0 .. NumReturns
      /\ 0 \in 0 .. NumReturns /\ 0 < NumReturns
    BY WorkerType, DispatchAssumption DEF Inv
<1>4. /\ toWorker = [toWorker EXCEPT ![w] = toWorker[w]] /\ toWorker[w] \in Tasks \cup {None, "shutdown"}
      /\ toDriver = [toDriver EXCEPT ![w] = toDriver[w]] /\ toDriver[w] \in Tasks \cup {None}
    BY WorkerType, Zenon DEF Inv
<1>5. \A f : [toWorker EXCEPT ![w] = f][w] = f
    BY Zenon DEF Inv, TypeOK
<1>6. \A f : [toDriver EXCEPT ![w] = f][w] = f /\ [worker EXCEPT ![w] = f][w] = f
    BY Zenon DEF Inv, TypeOK
<1>7. CASE WorkerRecv(w)
    <2>1. /\ toWorker' = [toWorker EXCEPT ![w] = None] /\ toDriver' = [toDriver EXCEPT ![w] = toDriver[w]]
          /\ owned' = owned /\ plasma' = plasma /\ kills' = kills
        BY <1>4, <1>7, Zenon DEF WorkerRecv
    <2>2. CASE worker' = [worker EXCEPT ![w] = [pc |-> "seal", task |-> toWorker[w], k |-> 0]] /\ toWorker[w] \in Tasks
        <3>1. [pc |-> "seal", task |-> toWorker[w], k |-> 0] \in Row
            BY <1>3, <2>2, Zenon DEF WorkerPcs
        <3>2. Line(w)'
            BY <1>1, <1>2, <1>5, <2>1, <2>2, DispatchAssumption, SMTT(30) DEF Line
        <3> QED
            BY <1>1, <1>2, <1>3, <1>4, <2>1, <2>2, <3>1, <3>2, WorkerFrame, DispatchAssumption,
               Zenon
    <2>3. CASE worker' = [worker EXCEPT ![w].pc = "raise"]
        <3>1. worker' = [worker EXCEPT ![w] = [pc |-> "raise", task |-> worker[w].task, k |-> worker[w].k]]
            BY <2>3, WorkerType, Zenon DEF Inv, WorkerPcs
        <3>2. [pc |-> "raise", task |-> worker[w].task, k |-> worker[w].k] \in Row
            BY <1>3, Zenon DEF WorkerPcs
        <3>3. Line(w)'
            BY <1>1, <1>2, <2>1, <3>1, DispatchAssumption DEF Line
        <3> QED
            BY <1>1, <1>2, <1>4, <2>1, <3>1, <3>2, <3>3, WorkerFrame, Zenon
    <2> QED
        BY <1>7, <2>2, <2>3, Zenon DEF WorkerRecv
<1>8. CASE WorkerSeal(w)
    <2> DEFINE o == <<worker[w].task, worker[w].k>>
    <2>1. worker[w].task \in Tasks /\ worker[w].k < NumReturns
        BY <1>3, <1>8, Zenon DEF Inv, Busy, WorkerSeal
    <2>2. o \in Objects /\ worker[w].k + 1 \in 0 .. NumReturns
          /\ (worker[w].k + 1 # NumReturns => worker[w].k + 1 < NumReturns)
        BY <1>3, <2>1, ReturnsAreObjects, Zenon
    <2>3. PICK p \in {"seal", "reply"} :
              /\ worker' = [worker EXCEPT ![w].k = worker[w].k + 1, ![w].pc = p]
              /\ p = "seal" => worker[w].k + 1 # NumReturns
        BY <1>8, Zenon DEF WorkerSeal
    <2>4. worker' = [worker EXCEPT ![w] = [pc |-> p, task |-> worker[w].task, k |-> worker[w].k + 1]]
        <3>1. p \in WorkerPcs /\ TypeOK
            BY Zenon DEF WorkerPcs, Inv
        <3>2. [worker EXCEPT ![w].k = worker[w].k + 1, ![w].pc = p] =
                  [worker EXCEPT ![w] = [pc |-> p, task |-> worker[w].task, k |-> worker[w].k + 1]]
            <4>1. \A q \in WorkerPcs, n \in 0 .. NumReturns :
                      [worker EXCEPT ![w].k = n, ![w].pc = q] =
                          [worker EXCEPT ![w] = [pc |-> q, task |-> worker[w].task, k |-> n]]
                BY <3>1, WorkerType, Zenon
            <4> DEFINE n == worker[w].k + 1
            <4>2. n \in 0 .. NumReturns
                BY <2>2, Zenon
            <4> HIDE DEF n
            <4>3. [worker EXCEPT ![w].k = n, ![w].pc = p] =
                      [worker EXCEPT ![w] = [pc |-> p, task |-> worker[w].task, k |-> n]]
                BY <3>1, <4>1, <4>2, Zenon
            <4> QED
                BY <4>3, Zenon DEF n
        <3> QED
            BY <2>3, <3>2, Zenon
    <2>5. [pc |-> p, task |-> worker[w].task, k |-> worker[w].k + 1] \in Row
        BY <1>3, <2>2, Zenon DEF WorkerPcs
    <2>6. /\ toWorker' = [toWorker EXCEPT ![w] = toWorker[w]] /\ toDriver' = [toDriver EXCEPT ![w] = toDriver[w]]
          /\ owned' \in [Workers -> SUBSET Objects] /\ plasma' \subseteq Objects /\ kills' = kills
        BY <1>1, <1>4, <1>8, <2>2, Zenon DEF WorkerSeal
    <2>7. Line(w)'
        <3>1. toWorker'[w] = toWorker[w] /\ toDriver'[w] = toDriver[w] /\ handler' = handler
            BY <1>2, <1>5, <1>6, <2>6, Zenon
        <3>2. worker'[w].task = worker[w].task /\ worker'[w].pc \in {"seal", "reply"}
            BY <1>6, <2>4, Zenon
        <3> QED
            BY <1>1, <3>1, <3>2, Zenon DEF Line
    <2>8. worker[w].task # None
        BY <2>1, DispatchAssumption, Zenon
    <2> QED
        BY <1>1, <1>2, <1>4, <2>2, <2>3, <2>4, <2>5, <2>6, <2>7, <2>8, WorkerFrame, Zenon
<1>9. CASE WorkerSealRefused(w)
    <2>1. worker' = [worker EXCEPT ![w] = [pc |-> "raise", task |-> worker[w].task, k |-> worker[w].k]]
        BY <1>9, WorkerType, Zenon DEF Inv, WorkerPcs, WorkerSealRefused
    <2>2. [pc |-> "raise", task |-> worker[w].task, k |-> worker[w].k] \in Row
        <3>1. "raise" \in WorkerPcs
            BY Zenon DEF WorkerPcs
        <3> QED
            BY <1>3, <3>1, Zenon
    <2>3. /\ toWorker' = [toWorker EXCEPT ![w] = toWorker[w]] /\ toDriver' = [toDriver EXCEPT ![w] = toDriver[w]]
          /\ owned' = owned /\ plasma' = plasma /\ kills' = kills
        BY <1>4, <1>9, Zenon DEF WorkerSealRefused
    <2>4. Line(w)'
        <3>1. toWorker'[w] = toWorker[w] /\ toDriver'[w] = toDriver[w] /\ handler' = handler
            BY <1>2, <1>5, <1>6, <2>3, Zenon
        <3>2. worker'[w].task = worker[w].task /\ worker'[w].pc = "raise"
            BY <1>6, <2>1, Zenon
        <3> QED
            BY <1>1, <3>1, <3>2, Zenon DEF Line
    <2> QED
        BY <1>1, <1>2, <1>4, <2>1, <2>2, <2>3, <2>4, WorkerFrame, Zenon
<1>10. CASE WorkerReply(w)
    <2>1. worker' = [worker EXCEPT ![w] = [pc |-> "ready", task |-> None, k |-> 0]]
        BY <1>10, Zenon DEF WorkerReply
    <2>2. [pc |-> "ready", task |-> None, k |-> 0] \in Row
        BY <1>3, Zenon DEF WorkerPcs
    <2>3. /\ toWorker' = [toWorker EXCEPT ![w] = toWorker[w]] /\ toDriver' = [toDriver EXCEPT ![w] = worker[w].task]
          /\ owned' = owned /\ plasma' = plasma /\ kills' = kills /\ worker[w].task # None
        BY <1>4, <1>10, Zenon DEF WorkerReply, Inv, Busy
    <2>4. Line(w)'
        BY <1>1, <1>2, <1>6, <2>1, <2>3 DEF Line
    <2> QED
        BY <1>1, <1>2, <1>3, <1>4, <2>1, <2>2, <2>3, <2>4, WorkerFrame, Zenon
<1>11. CASE WorkerClose(w) \/ Kill(w)
    <2>1. PICK p \in {"evict", "gone"} : worker' = [worker EXCEPT ![w] = [pc |-> p, task |-> None, k |-> 0]]
        BY <1>11, Zenon DEF WorkerClose, Kill
    <2>2. [pc |-> p, task |-> None, k |-> 0] \in Row
        BY <1>3, Zenon DEF WorkerPcs
    <2>3. /\ toWorker' = [toWorker EXCEPT ![w] = None] /\ toDriver' = [toDriver EXCEPT ![w] = toDriver[w]]
          /\ owned' \in [Workers -> SUBSET Objects] /\ plasma' = plasma /\ kills' \in 0 .. MaxKills
        BY <1>1, <1>4, <1>11, DispatchAssumption DEF WorkerClose, Kill
    <2>4. Line(w)'
        <3>1. toWorker'[w] = None /\ toDriver'[w] = toDriver[w] /\ handler' = handler
            BY <1>2, <1>5, <1>6, <2>3, Zenon
        <3>2. worker'[w].task = None /\ worker'[w].pc = p
            BY <1>6, <2>1, Zenon
        <3> QED
            BY <1>1, <3>1, <3>2, DispatchAssumption, Zenon DEF Line
    <2> QED
        BY <1>1, <1>2, <1>4, <2>1, <2>2, <2>3, <2>4, WorkerFrame, Zenon
<1>12. CASE WorkerEvict(w)
    <2>1. PICK p \in {"evict", "gone"} :
              worker' = [worker EXCEPT ![w] = [pc |-> p, task |-> worker[w].task, k |-> worker[w].k]]
        BY <1>12, WorkerType, Zenon DEF Inv, WorkerPcs, WorkerEvict
    <2>2. [pc |-> p, task |-> worker[w].task, k |-> worker[w].k] \in Row /\ worker[w].pc = "evict"
        BY <1>3, <1>12, Zenon DEF WorkerPcs, WorkerEvict
    <2>3. /\ toWorker' = [toWorker EXCEPT ![w] = toWorker[w]] /\ toDriver' = [toDriver EXCEPT ![w] = toDriver[w]]
          /\ kills' = kills
        BY <1>4, <1>12, Zenon DEF WorkerEvict
    <2>4. owned' \in [Workers -> SUBSET Objects] /\ plasma' \subseteq Objects
        BY <1>1, <1>12, Zenon DEF WorkerEvict
    <2>5. Line(w)'
        BY <1>1, <1>2, <2>1, <2>2, <2>3 DEF Line
    <2> QED
        BY <1>1, <1>2, <1>4, <2>1, <2>2, <2>3, <2>4, <2>5, WorkerFrame, Zenon
<1> QED
    BY <1>7, <1>8, <1>9, <1>10, <1>11, <1>12, Zenon DEF WorkerStep

-----------------------------------------------------------------------------
\* Every step keeps the invariant.
LEMMA NextInv == Inv /\ [Next]_vars => Inv'
<1> SUFFICES ASSUME Inv, [Next]_vars PROVE Inv'
    BY Zenon
<1>1. CASE UNCHANGED vars
    <2>1. UNCHANGED <<queue, stopping, handler, toWorker, toDriver, losses, index, record, caller,
                      worker, owned, plasma, kills>>
        BY <1>1, Zenon DEF vars, driver, procs
    <2>2. TypeOK' /\ Busy'
        BY <2>1, Zenon DEF Inv, TypeOK, Busy
    <2>3. \A w \in Workers : Line(w)'
        BY <2>1, LinesStay, Zenon DEF Inv
    <2>4. Once' /\ Recorded'
        BY <2>1, AttemptsShrink, Zenon DEF Inv, Pushing, TaskOf
    <2> QED
        BY <2>2, <2>3, <2>4, Zenon DEF Inv
<1>2. ASSUME NEW w \in Workers, HandlerStep(w) PROVE Inv'
    BY <1>2, IdleInv, JobInv, TakeInv, SendFailsInv, MarkInv, Zenon DEF HandlerStep
<1>3. ASSUME NEW w \in Workers, WorkerStep(w) \/ Kill(w) PROVE Inv'
    BY <1>3, WorkerInv, Zenon
<1>4. ASSUME NEW c \in Callers, CallerStep(c) PROVE Inv'
    BY <1>4, GetInv, PushInv, ResubmitInv, Zenon DEF CallerStep
<1>5. ASSUME NEW c \in Callers, NEW t \in Tasks, SubmitTask(c, t) PROVE Inv'
    BY <1>5, SubmitInv, Zenon
<1>6. ASSUME NEW c \in Callers, NEW o \in Objects, Get(c, o) PROVE Inv'
    BY <1>6, GetInv, Zenon
<1>7. ASSUME NEW o \in Objects, Free(o) \/ EvictLocal(o) PROVE Inv'
    BY <1>7, LossInv, Zenon
<1>8. CASE Shutdown
    BY <1>8, ShutdownInv, Zenon
<1> QED
    BY <1>1, <1>2, <1>3, <1>4, <1>5, <1>6, <1>7, <1>8, Zenon DEF Next

\* Type correctness: retries never go below zero, a worker never seals more
\* returns than the task has.
THEOREM TypeCorrect == Spec => []TypeOK
<1>1. Inv => TypeOK
    BY Zenon DEF Inv
<1> QED
    BY InitInv, NextInv, <1>1, PTL DEF Spec

\* mark_completed comes after the reply and a resubmission takes the mark away
\* before it queues: a task marked completed is with no handler and no worker.
THEOREM CompletionIsFinal == Spec => []CompletedIsOver
<1>1. Inv => CompletedIsOver
    <2> SUFFICES ASSUME Inv, NEW t \in Tasks, record[t].completed, NEW w \in Workers
                 PROVE  handler[w].job # t /\ worker[w].task # t
        BY Zenon DEF CompletedIsOver
    <2>1. handler[w].job # t
        BY Zenon DEF Inv, Recorded, Attempted
    <2> QED
        BY <2>1, DispatchAssumption DEF Inv, Line
<1> QED
    BY InitInv, NextInv, <1>1, PTL DEF Spec

\* However gets, submissions, failed sends and deaths interleave, at most one
\* attempt of a task is with a driver thread, in the queue or with a handler.
THEOREM NeverTwoAttempts == Spec => []OneAttempt
<1>1. Inv => OneAttempt
    <2> SUFFICES ASSUME Inv, NEW t \in Tasks, NEW a \in Attempts(t), NEW b \in Attempts(t)
                 PROVE  a = b
        BY Zenon DEF OneAttempt
    <2> DEFINE Q(x) == \E i \in 1 .. Len(queue) : queue[i] = t /\ x = <<"queued", i>>
               H(x) == \E w \in Workers : handler[w].job = t /\ x = <<"handled", w>>
               P(x) == \E c \in Callers : Pushing(c) /\ TaskOf(c) = t /\ x = <<"pushed", c>>
    <2>1. (Q(a) \/ H(a) \/ P(a)) /\ (Q(b) \/ H(b) \/ P(b))
        BY Zenon DEF Attempts, InQueue, Pushing, TaskOf
    <2>2. t # None /\ \A x : Q(x) => Queued(t)
        BY DispatchAssumption, Zenon DEF Queued
    <2>3. ~(Queued(t) /\ \E w \in Workers : handler[w].job = t)
        BY Zenon DEF Inv, Once
    <2>4. ~\E c \in Callers : /\ Pushing(c) /\ TaskOf(c) = t
                              /\ Queued(t) \/ \E w \in Workers : handler[w].job = t
        BY Zenon DEF Inv, Once
    <2>5. CASE Q(a) /\ Q(b)
        BY <2>5, Zenon DEF Inv, Once
    <2>6. CASE H(a) /\ H(b)
        BY <2>2, <2>6, Zenon DEF Inv, Once
    <2>7. CASE P(a) /\ P(b)
        BY <2>7, Zenon DEF Inv, Once
    <2> QED
        BY <2>1, <2>2, <2>3, <2>4, <2>5, <2>6, <2>7, Zenon
<1> QED
    BY InitInv, NextInv, <1>1, PTL DEF Spec

-----------------------------------------------------------------------------
(* What shutdown frees.                                                    *)

\* Unless a worker was killed, some worker tracks each sealed return, and one
\* that is gone has freed all of its own.
Tracked ==
    kills = 0 =>
        /\ \A o \in plasma : \E w \in Workers : o \in owned[w]
        /\ \A w \in Workers : worker[w].pc = "gone" => owned[w] = {}

\* Steps that seal nothing and end no worker.
LEMMA TrackedStays ==
    ASSUME Tracked, plasma' \subseteq plasma, UNCHANGED <<owned, kills>>,
           \A w \in Workers : worker'[w].pc = "gone" => worker[w].pc = "gone"
    PROVE  Tracked'
BY Zenon DEF Tracked

\* A seal is tracked by the worker that made it, an exit frees what its worker
\* tracks before the worker is gone.
LEMMA NextTracked == Inv /\ Tracked /\ [Next]_vars => Tracked'
<1> SUFFICES ASSUME Inv, Tracked, [Next]_vars PROVE Tracked'
    BY Zenon
<1>1. ASSUME UNCHANGED procs PROVE Tracked'
    BY <1>1, TrackedStays, Zenon DEF procs
<1>2. ASSUME NEW w \in Workers, Accept(w) PROVE Tracked'
    BY <1>2, TrackedStays DEF Accept, Inv, TypeOK
<1>3. ASSUME NEW w \in Workers, HandlerStep(w) PROVE Tracked'
    BY <1>1, <1>2, <1>3, Zenon DEF HandlerStep, NextJob, SendTask, SendFails, TaskComplete,
                                   MarkCompleted, Disconnected
<1>4. ASSUME NEW w \in Workers, WorkerRecv(w) PROVE Tracked'
    <2>1. \/ worker' = [worker EXCEPT ![w] = [pc |-> "seal", task |-> toWorker[w], k |-> 0]]
          \/ worker' = [worker EXCEPT ![w].pc = "raise"]
        BY <1>4, Zenon DEF WorkerRecv
    <2>2. worker'[w].pc # "gone" /\ \A v \in Workers : v # w => worker'[v] = worker[v]
        BY <2>1 DEF Inv, TypeOK
    <2> QED
        BY <1>4, <2>2, TrackedStays, Zenon DEF WorkerRecv
<1>5. ASSUME NEW w \in Workers, WorkerSealRefused(w) PROVE Tracked'
    BY <1>5, TrackedStays DEF WorkerSealRefused, Inv, TypeOK
<1>6. ASSUME NEW w \in Workers, WorkerReply(w) \/ WorkerClose(w) PROVE Tracked'
    <2>1. PICK p \in {"ready", "evict"} : worker' = [worker EXCEPT ![w] = [pc |-> p, task |-> None, k |-> 0]]
        BY <1>6, Zenon DEF WorkerReply, WorkerClose
    <2>2. worker'[w].pc # "gone" /\ \A v \in Workers : v # w => worker'[v] = worker[v]
        BY <2>1, Zenon DEF Inv, TypeOK
    <2> QED
        BY <1>6, <2>2, TrackedStays, Zenon DEF WorkerReply, WorkerClose
<1>7. ASSUME NEW w \in Workers, WorkerSeal(w) PROVE Tracked'
    <2> DEFINE o == <<worker[w].task, worker[w].k>>
               p == IF worker[w].k + 1 = NumReturns THEN "reply" ELSE "seal"
    <2>1. plasma' = plasma \cup {o} /\ owned' = [owned EXCEPT ![w] = @ \cup {o}] /\ kills' = kills
          /\ worker[w].pc = "seal" /\ worker' = [worker EXCEPT ![w].k = @ + 1, ![w].pc = p]
        BY <1>7, Zenon DEF WorkerSeal
    <2>2. worker'[w].pc # "gone" /\ \A v \in Workers : v # w => worker'[v] = worker[v]
        BY <2>1 DEF Inv, TypeOK
    <2> HIDE DEF o
    <2>3. owned'[w] = owned[w] \cup {o} /\ \A v \in Workers : v # w => owned'[v] = owned[v]
        BY <2>1, Zenon DEF Inv, TypeOK
    <2> QED
        BY <2>1, <2>2, <2>3, ZenonT(30) DEF Tracked
<1>8. ASSUME NEW w \in Workers, WorkerEvict(w) PROVE Tracked'
    <2>1. ASSUME NEW o \in owned[w], plasma' = plasma \ {o}, owned' = [owned EXCEPT ![w] = @ \ {o}], UNCHANGED worker
          PROVE  Tracked'
        <3>2. kills' = kills
            BY <1>8, Zenon DEF WorkerEvict
        <3>3. owned'[w] = owned[w] \ {o} /\ \A v \in Workers : v # w => owned'[v] = owned[v]
            BY <2>1, Zenon DEF Inv, TypeOK
        <3> QED
            BY <2>1, <3>2, <3>3, Zenon DEF Tracked
    <2>2. CASE owned[w] = {} /\ worker' = [worker EXCEPT ![w].pc = "gone"] /\ UNCHANGED <<plasma, owned>>
        <3>1. \A v \in Workers : v # w => worker'[v] = worker[v]
            BY <2>2, Zenon DEF Inv, TypeOK
        <3>2. kills' = kills
            BY <1>8, Zenon DEF WorkerEvict
        <3> QED
            BY <2>2, <3>1, <3>2, Zenon DEF Tracked
    <2> QED
        BY <1>8, <2>1, <2>2, Zenon DEF WorkerEvict
<1>9. ASSUME NEW w \in Workers, Kill(w) PROVE Tracked'
    <2>1. kills' # 0
        BY <1>9 DEF Kill, Inv, TypeOK
    <2> QED
        BY <2>1, Zenon DEF Tracked
<1>10. ASSUME NEW o \in Objects, Free(o) \/ EvictLocal(o) PROVE Tracked'
    BY <1>10, TrackedStays, Zenon DEF Free, EvictLocal, procs
<1>11. ASSUME NEW c \in Callers, CallerStep(c) PROVE UNCHANGED procs
    BY <1>11, Zenon DEF CallerStep, Push, GetStatus, GetResubmit, GetReturns
<1>12. ASSUME NEW c \in Callers, NEW t \in Tasks, SubmitTask(c, t) PROVE UNCHANGED procs
    BY <1>12, Zenon DEF SubmitTask
<1>13. ASSUME NEW c \in Callers, NEW o \in Objects, Get(c, o) PROVE UNCHANGED procs
    BY <1>13, Zenon DEF Get
<1>14. Shutdown \/ UNCHANGED vars => UNCHANGED procs
    BY Zenon DEF Shutdown, vars
<1> QED
    BY <1>1, <1>3, <1>4, <1>5, <1>6, <1>7, <1>8, <1>9, <1>10, <1>11, <1>12, <1>13, <1>14, Zenon
       DEF Next, WorkerStep

\* When shutdown has run to its end and no worker was killed, no return value
\* is left in the shared store: each worker's exit frees its own.
THEOREM ShutdownLeavesNothing == Spec => []ShutdownFrees
<1>1. Init => Tracked
    BY Zenon DEF Init, Tracked
<1>2. Tracked => ShutdownFrees
    BY Zenon DEF Tracked, ShutdownFrees
<1> QED
    BY InitInv, NextInv, NextTracked, <1>1, <1>2, PTL DEF Spec

-----------------------------------------------------------------------------
(* What is indexed is sealed.                                              *)

\* No worker has begun the task: it is not recorded, or an attempt of it is
\* still on its way to a worker.
Waiting(w, t) == handler[w].job = t /\ (handler[w].pc = "send" \/ toWorker[w] = t)

Unstarted(t) ==
    \/ ~record[t].known \/ Queued(t)
    \/ \E c \in Callers : Pushing(c) /\ TaskOf(c) = t
    \/ \E w \in Workers : Waiting(w, t)

\* A connection on which nothing went wrong: the worker has sealed exactly the
\* returns before k, and all of them once it replies.
Running(w) ==
    /\ worker[w].pc \in {"starting", "ready", "seal", "reply"}
    /\ handler[w].pc # "stopped" /\ toWorker[w] # "shutdown"
    /\ worker[w].pc \in {"seal", "reply"} => \A j \in Rets : <<worker[w].task, j>> \in plasma <=> j < worker[w].k
    /\ worker[w].pc = "reply" => worker[w].k = NumReturns
    /\ toDriver[w] # None => \A j \in Rets : <<toDriver[w], j>> \in plasma

Clean ==
    /\ index \subseteq plasma
    /\ \A w \in Workers : Running(w)
    /\ \A t \in Tasks : Unstarted(t) => \A j \in Rets : <<t, j>> \notin plasma

Quiet == Undisturbed /\ ~stopping

\* A connection that a step leaves alone, but for a wakeup.
LEMMA RunningStays ==
    ASSUME NEW w \in Workers, Running(w), plasma' = plasma,
           UNCHANGED <<worker[w], toWorker[w], toDriver[w]>>,
           handler'[w].pc = "stopped" => handler[w].pc = "stopped"
    PROVE  Running(w)'
BY Zenon DEF Running

\* Steps that seal nothing and move one connection.
LEMMA CleanStays ==
    ASSUME Clean, index' \subseteq plasma, plasma' = plasma, NEW p \in Workers, Running(p)',
           \A w \in Workers : w # p => UNCHANGED <<worker[w], toWorker[w], toDriver[w], handler[w]>>,
           \A t \in Tasks : Unstarted(t)' => Unstarted(t)
    PROVE  Clean'
<1>1. ASSUME NEW w \in Workers PROVE Running(w)'
    <2>1. CASE w = p
        BY <2>1, Zenon
    <2>2. CASE w # p
        BY RunningStays, Zenon DEF Clean
    <2> QED
        BY <2>1, <2>2, Zenon
<1> QED
    BY <1>1, Zenon DEF Clean

\* Nothing undoes a loss, a kill, a resubmission or a shutdown.
LEMMA QuietBefore == ASSUME Inv, Inv', [Next]_vars, Quiet' PROVE Quiet
<1>1. losses = 0 /\ kills = 0 /\ ~stopping
    <2>1. /\ losses' = losses \/ losses' = losses + 1
          /\ kills' = kills \/ kills' = kills + 1
          /\ stopping' = stopping \/ stopping'
        <3>1. ASSUME NEW w \in Workers, HandlerStep(w) PROVE UNCHANGED <<losses, kills, stopping>>
            BY <3>1, Zenon DEF HandlerStep, Accept, NextJob, SendTask, SendFails, TaskComplete,
                               MarkCompleted, Disconnected, procs
        <3>2. ASSUME NEW w \in Workers, WorkerStep(w) PROVE UNCHANGED <<losses, kills, stopping>>
            BY <3>2, Zenon DEF WorkerStep, WorkerRecv, WorkerSeal, WorkerSealRefused, WorkerReply,
                               WorkerClose, WorkerEvict
        <3>3. ASSUME NEW c \in Callers, CallerStep(c) PROVE UNCHANGED <<losses, kills, stopping>>
            BY <3>3, Zenon DEF CallerStep, Push, GetStatus, GetResubmit, GetReturns, procs
        <3>4. ASSUME NEW c \in Callers, NEW t \in Tasks, SubmitTask(c, t)
              PROVE  UNCHANGED <<losses, kills, stopping>>
            BY <3>4, Zenon DEF SubmitTask, procs
        <3>5. ASSUME NEW c \in Callers, NEW o \in Objects, Get(c, o)
              PROVE  UNCHANGED <<losses, kills, stopping>>
            BY <3>5, Zenon DEF Get, procs
        <3>6. ASSUME NEW o \in Objects, Free(o) \/ EvictLocal(o)
              PROVE  losses' = losses + 1 /\ UNCHANGED <<kills, stopping>>
            BY <3>6, Zenon DEF Free, EvictLocal, procs
        <3>7. ASSUME NEW w \in Workers, Kill(w) PROVE kills' = kills + 1 /\ UNCHANGED <<losses, stopping>>
            BY <3>7, Zenon DEF Kill
        <3>8. Shutdown => stopping' /\ UNCHANGED <<losses, kills>>
            BY Zenon DEF Shutdown, procs
        <3>9. UNCHANGED vars => UNCHANGED <<losses, kills, stopping>>
            BY Zenon DEF vars, procs
        <3> QED
            BY <3>1, <3>2, <3>3, <3>4, <3>5, <3>6, <3>7, <3>8, <3>9, Zenon DEF Next
    <2>2. losses \in Nat /\ kills \in Nat /\ losses' = 0 /\ kills' = 0 /\ ~stopping'
        BY DEF Inv, TypeOK, Quiet, Undisturbed
    <2> QED
        BY <2>1, <2>2
<1>2. ASSUME NEW t \in Tasks PROVE record[t].retries = MaxRetries
    <2>1. record'[t].retries = record[t].retries \/ record'[t].retries = record[t].retries - 1
        <3>1. ASSUME NEW w \in Workers, HandlerStep(w) PROVE record'[t].retries = record[t].retries
            <4>1. record' = record \/ record' = [record EXCEPT ![handler[w].job].completed = TRUE]
                BY <3>1, Zenon DEF HandlerStep, Accept, NextJob, SendTask, SendFails, TaskComplete,
                                   MarkCompleted, Disconnected, driver
            <4>2. record \in RecordTable
                BY Zenon DEF Inv, TypeOK, RecordTable
            <4>3. \A u : [record EXCEPT ![u].completed = TRUE][t].retries = record[t].retries
                BY <4>2, Zenon DEF RecordTable
            <4> QED
                BY <4>1, <4>3, Zenon
        <3>2. ASSUME NEW w \in Workers, WorkerStep(w) \/ Kill(w) PROVE record' = record
            BY <3>2, Zenon DEF WorkerStep, WorkerRecv, WorkerSeal, WorkerSealRefused, WorkerReply,
                               WorkerClose, WorkerEvict, Kill, driver
        <3>3. ASSUME NEW c \in Callers, Push(c) \/ GetStatus(c) \/ GetReturns(c) PROVE record' = record
            BY <3>3, Zenon DEF Push, GetStatus, GetReturns
        <3>4. ASSUME NEW c \in Callers, GetResubmit(c)
              PROVE  record'[t].retries = record[t].retries \/ record'[t].retries = record[t].retries - 1
            <4> DEFINE u == caller[c].obj[1]
            <4>1. record' = record \/ record' = [record EXCEPT ![u] = TryResubmit(record[u])]
                BY <3>4, Zenon DEF GetResubmit
            <4>2. TryResubmit(record[t]).retries = record[t].retries - 1
                BY DEF TryResubmit
            <4>3. record \in RecordTable
                BY Zenon DEF Inv, TypeOK, RecordTable
            <4> HIDE DEF u
            <4> QED
                BY <4>1, <4>2, <4>3, Zenon DEF RecordTable
        <3>5. ASSUME NEW c \in Callers, NEW u \in Tasks, SubmitTask(c, u)
              PROVE  record'[t].retries = record[t].retries
            BY <3>5 DEF SubmitTask
        <3>6. ASSUME NEW c \in Callers, NEW o \in Objects, Get(c, o) PROVE record' = record
            BY <3>6, Zenon DEF Get
        <3>7. ASSUME NEW o \in Objects, Free(o) \/ EvictLocal(o) PROVE record' = record
            BY <3>7, Zenon DEF Free, EvictLocal
        <3>8. Shutdown \/ UNCHANGED vars => record' = record
            BY Zenon DEF Shutdown, vars, driver
        <3> QED
            BY <3>1, <3>2, <3>3, <3>4, <3>5, <3>6, <3>7, <3>8, Zenon DEF Next, CallerStep
    <2>2. record[t].retries \in 0 .. MaxRetries /\ record'[t].retries = MaxRetries /\ MaxRetries \in Nat
        BY DispatchAssumption, Zenon DEF Inv, TypeOK, Quiet, Undisturbed
    <2> QED
        BY <2>1, <2>2
<1> QED
    BY <1>1, <1>2, Zenon DEF Quiet, Undisturbed

\* A step of a driver thread that leaves stores and connections alone.
LEMMA DriverClean ==
    ASSUME Clean, UNCHANGED <<worker, toWorker, toDriver, plasma, index>>,
           \A w \in Workers : handler'[w].pc = "stopped" => handler[w].pc = "stopped",
           \A t \in Tasks : Unstarted(t)' => Unstarted(t)
    PROVE  Clean'
<1>1. ASSUME NEW w \in Workers PROVE Running(w)'
    BY RunningStays, Zenon DEF Clean
<1> QED
    BY <1>1, Zenon DEF Clean

\* Driver threads: a get that resubmits nothing.
LEMMA GetClean ==
    ASSUME Inv, Quiet, Clean, Quiet', NEW c \in Callers,
           (\E o \in Objects : Get(c, o)) \/ GetStatus(c) \/ GetReturns(c) \/ GetResubmit(c)
    PROVE  Clean'
<1>1. PICK p, o : p \in {"idle", "status", "resubmit", "wait"} /\ Caller(c, p, o) /\ record' = record
    <2>1. CASE GetReturns(c)
        BY <2>1, Zenon DEF GetReturns
    <2>2. CASE GetStatus(c)
        BY <2>2, Zenon DEF GetStatus
    <2>3. ASSUME NEW o \in Objects, Get(c, o)
          PROVE  \E p \in {"wait", "status"} : Caller(c, p, o) /\ record' = record
        BY <2>3, Zenon DEF Get
    <2>4. CASE GetResubmit(c)
        <3> DEFINE t == caller[c].obj[1]
        <3>1. LineageStatus(t) # "ready"
            <4> SUFFICES ASSUME LineageStatus(t) = "ready" PROVE FALSE
                BY Zenon
            <4>1. record' = [record EXCEPT ![t] = TryResubmit(record[t])]
                BY <2>4, Zenon DEF GetResubmit
            <4>2. t \in Tasks
                BY <2>4, ReturnsAreObjects, Zenon DEF GetResubmit, Inv, Busy
            <4>3. record'[t] = TryResubmit(record[t])
                BY <4>1, <4>2, Zenon DEF Inv, TypeOK
            <4>4. record[t] \in [known : BOOLEAN, completed : BOOLEAN, retries : 0 .. MaxRetries]
                BY <4>2, Zenon DEF Inv, TypeOK
            <4>5. record'[t].retries = record[t].retries - 1
                BY <4>3, <4>4, Zenon DEF TryResubmit
            <4>6. record'[t].retries = MaxRetries /\ record[t].retries = MaxRetries
                BY <4>2, Zenon DEF Quiet, Undisturbed
            <4> QED
                BY <4>5, <4>6, DispatchAssumption
        <3>2. record' = record /\ Caller(c, "wait", caller[c].obj)
            BY <2>4, <3>1, Zenon DEF GetResubmit
        <3> QED
            BY <3>2, Zenon
    <2> QED
        BY <2>1, <2>2, <2>3, <2>4, Zenon
<1>2. UNCHANGED <<queue, handler, toWorker, toDriver, index, worker, plasma>>
    BY Zenon DEF Get, GetStatus, GetReturns, GetResubmit, procs
<1>3. \A d \in Callers : Pushing(d)' => Pushing(d) /\ TaskOf(d)' = TaskOf(d)
    BY <1>1, Zenon DEF Inv, TypeOK, Caller, Pushing, TaskOf
<1>4. \A t \in Tasks : Unstarted(t)' => Unstarted(t)
    BY <1>1, <1>2, <1>3, Zenon DEF Unstarted, Waiting, Queued
<1> QED
    BY <1>2, <1>4, DriverClean, Zenon

\* Driver threads: a submission, up to its push.
LEMMA SubmitClean ==
    ASSUME Inv, Clean, Quiet, NEW c \in Callers, NEW t \in Tasks, SubmitTask(c, t)
    PROVE  Clean'
<1>1. UNCHANGED <<queue, handler, toWorker, toDriver, index, worker, plasma>>
    BY Zenon DEF SubmitTask, procs
<1>2. Caller(c, "push", <<t, 0>>) /\ ~record[t].known /\ record' = [record EXCEPT ![t].known = TRUE]
    BY Zenon DEF SubmitTask, Quiet
<1>3. \A d \in Callers : Pushing(d)' => (Pushing(d) /\ TaskOf(d)' = TaskOf(d)) \/ TaskOf(d)' = t
    BY <1>2, Zenon DEF Inv, TypeOK, Caller, Pushing, TaskOf
<1>4. \A u \in Tasks : ~record'[u].known => ~record[u].known
    BY <1>2, Zenon DEF Inv, TypeOK
<1>5. \A u \in Tasks : Unstarted(u)' => Unstarted(u)
    BY <1>1, <1>2, <1>3, <1>4, Zenon DEF Unstarted, Waiting, Queued
<1> QED
    BY <1>1, <1>5, DriverClean, Zenon

\* Driver threads: the push into the scheduler queue.
LEMMA PushClean == ASSUME Inv, Clean, NEW c \in Callers, Push(c) PROVE Clean'
<1> DEFINE t == TaskOf(c)
<1>1. Pushing(c) /\ t \in Tasks /\ t = caller[c].obj[1]
    BY ReturnsAreObjects, Zenon DEF Push, Inv, Busy, Pushing, TaskOf
<1>2. UNCHANGED <<toWorker, toDriver, index, record, worker, plasma>>
    BY Zenon DEF Push, procs
<1>3. queue' = Append(queue, t) /\ queue \in Seq(Tasks) /\ handler \in HandlerTable
      /\ handler' \in NotifyOne(handler)
    BY <1>1, Zenon DEF Push, Enqueue, Inv, TypeOK, HandlerTable
<1>4. \A w \in Workers : /\ handler'[w].job = handler[w].job
                         /\ handler'[w].pc \in {"send", "stopped"} => handler'[w].pc = handler[w].pc
    BY <1>3, Notified, Zenon
<1>5. \A u : Queued(u)' => Queued(u) \/ u = t
    <2>1. /\ Len(Append(queue, t)) = Len(queue) + 1 /\ Append(queue, t)[Len(queue) + 1] = t
          /\ \A i \in 1 .. Len(queue) : Append(queue, t)[i] = queue[i]
        OBVIOUS
    <2>2. Len(queue) \in Nat
        BY <1>3
    <2> QED
        BY <1>3 DEF Queued
<1>6. \A d \in Callers : Pushing(d)' => Pushing(d) /\ TaskOf(d)' = TaskOf(d)
    <2>1. PICK p, o : p \in {"idle", "wait"} /\ Caller(c, p, o)
        BY DEF Push
    <2> QED
        BY <2>1, Zenon DEF Caller, Pushing, TaskOf, Inv, TypeOK
<1>7. \A u \in Tasks : Unstarted(u)' => Unstarted(u)
    BY <1>1, <1>2, <1>4, <1>5, <1>6, Zenon DEF Unstarted, Waiting
<1> QED
    BY <1>2, <1>4, <1>7, DriverClean, Zenon

\* Handler threads: the greeting, a job or none, the send, the reply, the mark.
LEMMA HandlerClean ==
    ASSUME Inv, Clean, ~stopping, NEW w \in Workers, HandlerStep(w)
    PROVE  Clean'
<1>1. Running(w) /\ SocketOpen(w) /\ index \subseteq plasma
    BY Zenon DEF Clean, Running, SocketOpen
<1>2. \A p, j : Handler(w, p, j) => /\ handler'[w].pc = p /\ handler'[w].job = j
                                    /\ \A v \in Workers : v # w => handler'[v] = handler[v]
    BY DEF Handler, Inv, TypeOK
<1>3. \A j \in Tasks : handler[w].job = j => j # None /\ j # "shutdown"
    BY DispatchAssumption, Zenon
<1>4. CASE Accept(w)
    <2>1. /\ UNCHANGED <<queue, record, caller, index, plasma, toWorker, toDriver>>
          /\ handler'[w].pc = "next" /\ handler'[w].job = None
          /\ \A v \in Workers : v # w => handler'[v] = handler[v]
        BY <1>2, <1>4, Zenon DEF Accept, driver
    <2>2. /\ worker'[w].pc = "ready" /\ \A v \in Workers : v # w => worker'[v] = worker[v]
        BY <1>4 DEF Accept, Inv, TypeOK
    <2>3. Running(w)'
        BY <1>1, <2>1, <2>2, Zenon DEF Running
    <2>4. \A t \in Tasks : Unstarted(t)' => Unstarted(t)
        BY <2>1, DispatchAssumption DEF Unstarted, Waiting, Queued, Pushing, TaskOf
    <2> QED
        BY <1>1, <2>1, <2>2, <2>3, <2>4, CleanStays, Zenon
<1>5. CASE NextJob(w) /\ queue' = queue
    <2>1. /\ Handler(w, "asleep", None) /\ UNCHANGED toWorker
          /\ UNCHANGED <<record, caller, index, plasma, worker, toDriver>>
        BY <1>5 DEF NextJob, driver, procs
    <2>2. /\ handler'[w].pc = "asleep" /\ handler'[w].job = None
          /\ \A v \in Workers : v # w => handler'[v] = handler[v]
        BY <1>2, <2>1, Zenon
    <2>3. Running(w)'
        BY <1>1, <2>1, <2>2, Zenon DEF Running
    <2>4. \A t \in Tasks : Unstarted(t)' => Unstarted(t)
        BY <1>5, <2>1, <2>2, DispatchAssumption DEF Unstarted, Waiting, Queued, Pushing, TaskOf
    <2> QED
        BY <1>1, <2>1, <2>2, <2>3, <2>4, CleanStays, Zenon
<1>6. CASE NextJob(w) /\ queue' # queue
    <2>1. /\ queue # <<>> /\ queue' = Tail(queue) /\ Handler(w, "send", Head(queue))
          /\ UNCHANGED <<record, caller, index, plasma, worker, toWorker, toDriver>>
        BY <1>6, Zenon DEF NextJob, driver, procs
    <2>2. /\ handler'[w].pc = "send" /\ handler'[w].job = Head(queue)
          /\ \A v \in Workers : v # w => handler'[v] = handler[v]
        BY <1>2, <2>1, Zenon
    <2>3. Running(w)'
        BY <1>1, <2>1, <2>2, Zenon DEF Running
    <2>4. queue \in Seq(Tasks)
        BY Zenon DEF Inv, TypeOK
    <2>5. Queued(Head(queue)) /\ \A t \in Tasks : Queued(t)' => Queued(t)
        <3>1. /\ Head(queue) \in Tasks /\ Head(queue) = queue[1] /\ 1 \in 1 .. Len(queue)
              /\ Len(Tail(queue)) = Len(queue) - 1
              /\ \A i \in 1 .. Len(queue) - 1 : Tail(queue)[i] = queue[i + 1]
            BY <2>1, <2>4
        <3>2. Len(queue) \in Nat /\ \A i \in 1 .. Len(queue) - 1 : i + 1 \in 1 .. Len(queue)
            BY <2>4
        <3> QED
            BY <2>1, <3>1, <3>2, Zenon DEF Queued
    <2>6. \A t \in Tasks : Unstarted(t)' => Unstarted(t)
        BY <2>1, <2>2, <2>5 DEF Unstarted, Waiting, Pushing, TaskOf
    <2> QED
        BY <1>1, <2>1, <2>2, <2>3, <2>6, CleanStays, Zenon
<1>7. CASE SendTask(w)
    <2>1. /\ handler[w].pc = "send" /\ Handler(w, "await", handler[w].job)
          /\ UNCHANGED <<queue, record, caller, index, plasma, worker, toDriver>>
          /\ toWorker' = [toWorker EXCEPT ![w] = handler[w].job]
        BY <1>7, Zenon DEF SendTask, driver, procs
    <2>2. /\ handler'[w].pc = "await" /\ handler'[w].job = handler[w].job
          /\ \A v \in Workers : v # w => handler'[v] = handler[v]
        BY <1>2, <2>1, Zenon
    <2>3. /\ toWorker'[w] = handler[w].job /\ handler[w].job \in Tasks \cup {None}
          /\ \A v \in Workers : v # w => toWorker'[v] = toWorker[v]
        BY <2>1, Zenon DEF Inv, TypeOK
    <2>4. Running(w)'
        BY <1>1, <2>1, <2>2, <2>3, DispatchAssumption, Zenon DEF Running
    <2>5. \A t \in Tasks : Unstarted(t)' => Unstarted(t)
        BY <2>1, <2>2 DEF Unstarted, Waiting, Queued, Pushing, TaskOf
    <2> QED
        BY <1>1, <2>1, <2>2, <2>3, <2>4, <2>5, CleanStays, Zenon
<1>8. CASE SendFails(w) \/ Disconnected(w)
    BY <1>1, <1>8, Zenon DEF SendFails, Disconnected
<1>9. CASE TaskComplete(w)
    <2>1. /\ toDriver[w] # None /\ Handler(w, "mark", handler[w].job)
          /\ UNCHANGED <<queue, record, caller, plasma, worker, toWorker>>
          /\ index' = index \cup ReturnsOf(handler[w].job) /\ toDriver' = [toDriver EXCEPT ![w] = None]
        BY <1>9, Zenon DEF TaskComplete, procs
    <2>2. /\ handler'[w].pc = "mark" /\ handler'[w].job = handler[w].job
          /\ \A v \in Workers : v # w => handler'[v] = handler[v]
        BY <1>2, <2>1, Zenon
    <2>3. toDriver'[w] = None /\ \A v \in Workers : v # w => toDriver'[v] = toDriver[v]
        BY <2>1, Zenon DEF Inv, TypeOK
    <2>4. index' \subseteq plasma
        <3>1. handler[w].job = toDriver[w]
            BY <2>1, Zenon DEF Inv, Line
        <3>2. \A j \in Rets : <<handler[w].job, j>> \in plasma
            BY <1>1, <2>1, <3>1, Zenon DEF Running
        <3> QED
            BY <1>1, <2>1, <3>2 DEF ReturnsOf
    <2>5. Running(w)'
        BY <1>1, <2>1, <2>2, <2>3, Zenon DEF Running
    <2>6. \A t \in Tasks : Unstarted(t)' => Unstarted(t)
        BY <2>1, <2>2 DEF Unstarted, Waiting, Queued, Pushing, TaskOf
    <2> QED
        BY <2>1, <2>2, <2>3, <2>4, <2>5, <2>6, CleanStays, Zenon
<1>10. CASE MarkCompleted(w)
    <2>1. /\ Handler(w, "next", None) /\ record' = [record EXCEPT ![handler[w].job].completed = TRUE]
          /\ UNCHANGED <<queue, caller, index, plasma, worker, toWorker, toDriver>>
        BY <1>10, Zenon DEF MarkCompleted, procs
    <2>2. /\ handler'[w].pc = "next" /\ handler'[w].job = None
          /\ \A v \in Workers : v # w => handler'[v] = handler[v]
        BY <1>2, <2>1, Zenon
    <2>3. Running(w)'
        BY <1>1, <2>1, <2>2, Zenon DEF Running
    <2>4. \A t \in Tasks : record'[t].known = record[t].known
        <3>1. record \in RecordTable
            BY Zenon DEF Inv, TypeOK, RecordTable
        <3>2. \A u : \A t \in Tasks : [record EXCEPT ![u].completed = TRUE][t].known = record[t].known
            BY <3>1, Zenon DEF RecordTable
        <3> QED
            BY <2>1, <3>2, Zenon
    <2>5. \A t \in Tasks : Unstarted(t)' => Unstarted(t)
        BY <2>1, <2>2, DispatchAssumption DEF Unstarted, Waiting, Queued, Pushing, TaskOf
    <2> QED
        BY <1>1, <2>1, <2>2, <2>3, <2>5, CleanStays, Zenon
<1> QED
    BY <1>4, <1>5, <1>6, <1>7, <1>8, <1>9, <1>10, Zenon DEF HandlerStep

\* Worker processes: a task begins with no return sealed, and seals them in
\* order; the other steps need a loss, a kill or a shutdown before.
LEMMA WorkerClean ==
    ASSUME Inv, Clean, NEW w \in Workers, WorkerStep(w)
    PROVE  Clean'
<1>1. Running(w) /\ Line(w) /\ index \subseteq plasma
    BY Zenon DEF Clean, Inv
<1>2. UNCHANGED <<queue, record, caller, index, handler>>
    BY Zenon DEF WorkerStep, WorkerRecv, WorkerSeal, WorkerSealRefused, WorkerReply, WorkerClose,
                 WorkerEvict, driver
<1>3. CASE WorkerRecv(w)
    <2>1. /\ toWorker[w] \in Tasks /\ UNCHANGED <<toDriver, plasma>>
          /\ worker' = [worker EXCEPT ![w] = [pc |-> "seal", task |-> toWorker[w], k |-> 0]]
          /\ toWorker' = [toWorker EXCEPT ![w] = None]
        BY <1>1, <1>3, Zenon DEF WorkerRecv, Running
    <2>2. /\ worker'[w].pc = "seal" /\ worker'[w].task = toWorker[w] /\ worker'[w].k = 0 /\ toWorker'[w] = None
          /\ \A v \in Workers : v # w => worker'[v] = worker[v] /\ toWorker'[v] = toWorker[v]
        BY <2>1, Zenon DEF Inv, TypeOK
    <2>3. \A j \in Rets : <<toWorker[w], j>> \notin plasma
        <3>1. Waiting(w, toWorker[w])
            BY <1>1, <2>1, Zenon DEF Waiting, Line
        <3> QED
            BY <2>1, <3>1, Zenon DEF Clean, Unstarted
    <2>4. \A j \in Rets : ~(j < 0)
        BY DEF Rets
    <2>5. Running(w)'
        <3>1. handler'[w].pc # "stopped" /\ toDriver'[w] = toDriver[w]
            BY <1>1, <1>2, <2>1, Zenon DEF Running
        <3>2. toWorker'[w] # "shutdown"
            BY <2>2, DispatchAssumption, Zenon
        <3>3. \A j \in Rets : <<worker'[w].task, j>> \in plasma' <=> j < worker'[w].k
            BY <2>1, <2>2, <2>3, <2>4
        <3>4. toDriver[w] # None => \A j \in Rets : <<toDriver[w], j>> \in plasma'
            BY <1>1, <2>1, Zenon DEF Running
        <3> QED
            BY <2>2, <3>1, <3>2, <3>3, <3>4, Zenon DEF Running
    <2>6. \A t \in Tasks : Unstarted(t)' => Unstarted(t)
        <3>1. \A v \in Workers, t \in Tasks : Waiting(v, t)' => Waiting(v, t)
            <4>1. None \notin Tasks
                BY DispatchAssumption, Zenon
            <4> QED
                BY <1>2, <2>2, <4>1, Zenon DEF Waiting
        <3> QED
            BY <1>2, <3>1, Zenon DEF Unstarted, Queued, Pushing, TaskOf
    <2> QED
        BY <1>1, <1>2, <2>1, <2>2, <2>5, <2>6, CleanStays, Zenon
<1>4. CASE WorkerSeal(w)
    <2> DEFINE t == worker[w].task
               k == worker[w].k
               q == IF k + 1 = NumReturns THEN "reply" ELSE "seal"
    <2>1. /\ worker[w].pc = "seal" /\ UNCHANGED <<toWorker, toDriver>>
          /\ plasma' = plasma \cup {<<t, k>>}
          /\ worker' = [worker EXCEPT ![w].k = k + 1, ![w].pc = q]
        BY <1>4, Zenon DEF WorkerSeal
    <2>2. /\ t \in Tasks /\ k \in 0 .. NumReturns /\ k < NumReturns
        BY <2>1, Zenon DEF Inv, TypeOK, Busy
    <2>3. /\ worker'[w].pc = q /\ worker'[w].task = t /\ worker'[w].k = k + 1
          /\ \A v \in Workers : v # w => worker'[v] = worker[v]
        <3>1. worker' = [worker EXCEPT ![w] = [pc |-> q, task |-> t, k |-> k + 1]]
            <4>1. q \in WorkerPcs /\ k + 1 \in 0 .. NumReturns
                BY <2>2, ReturnsAreObjects, Zenon DEF WorkerPcs
            <4>2. TypeOK /\ \A p \in WorkerPcs, n \in 0 .. NumReturns :
                    [worker EXCEPT ![w].k = n, ![w].pc = p] = [worker EXCEPT ![w] = [pc |-> p, task |-> t, k |-> n]]
                BY WorkerType, Zenon DEF Inv
            <4> HIDE DEF q, k, t
            <4> QED
                BY <2>1, <4>1, <4>2, Zenon
        <3> HIDE DEF q, t, k
        <3> QED
            BY <3>1, Zenon DEF Inv, TypeOK
    <2>4. handler[w].job = t /\ handler[w].pc = "await" /\ toWorker[w] \notin Tasks /\ toDriver[w] = None
        BY <1>1, <2>2, DispatchAssumption, Zenon DEF Line
    <2>5. Running(w)'
        <3>1. \A j \in Rets : <<t, j>> \in plasma' <=> j < k + 1
            <4>1. \A j \in Rets : <<t, j>> \in plasma <=> j < k
                BY <1>1, <2>1, Zenon DEF Running
            <4>2. \A j \in Rets : j < k + 1 <=> j < k \/ j = k
                BY <2>2 DEF Rets
            <4>3. \A j : <<t, j>> = <<t, k>> <=> j = k
                BY Zenon
            <4> HIDE DEF t, k
            <4> QED
                BY <2>1, <4>1, <4>2, Zenon
        <3>2. worker'[w].pc \in {"seal", "reply"} /\ (worker'[w].pc = "reply" => k + 1 = NumReturns)
            BY <2>3, Zenon
        <3> HIDE DEF t, k, q
        <3> QED
            BY <1>1, <1>2, <2>1, <2>3, <3>1, <3>2, Zenon DEF Running
    <2>6. ASSUME NEW v \in Workers, v # w PROVE Running(v)'
        <3>1. Running(v) /\ Line(v) /\ handler[v].job # t
            BY <2>2, <2>4, <2>6, DispatchAssumption DEF Clean, Inv, Once
        <3>2. worker[v].pc \in {"seal", "reply"} => worker[v].task # t
            BY <2>2, <3>1, DispatchAssumption, Zenon DEF Line
        <3>3. \A u, j : u # t => (<<u, j>> \in plasma' <=> <<u, j>> \in plasma)
            BY <2>1, Zenon
        <3>4. worker'[v] = worker[v]
            BY <2>3, <2>6, Zenon
        <3> HIDE DEF t, k
        <3> QED
            BY <1>2, <2>1, <3>1, <3>2, <3>3, <3>4, Zenon DEF Running
    <2>7. ASSUME NEW u \in Tasks, Unstarted(u)', NEW j \in Rets PROVE <<u, j>> \notin plasma'
        <3>1. Unstarted(u)
            BY <1>2, <2>1, <2>7, Zenon DEF Unstarted, Waiting, Queued, Pushing, TaskOf
        <3>2. ~Unstarted(t)
            <4>1. Attempted(t)
                BY <2>4, Zenon DEF Attempted
            <4>2. record[t].known
                BY <2>2, <4>1, Zenon DEF Inv, Recorded
            <4>3. ~Queued(t) /\ \A c \in Callers : Pushing(c) => TaskOf(c) # t
                BY <2>4, Zenon DEF Inv, Once
            <4>4. \A v \in Workers : handler[v].job = t => v = w
                BY <2>2, <2>4, DispatchAssumption DEF Inv, Once
            <4>5. \A v \in Workers : ~Waiting(v, t)
                BY <2>2, <2>4, <4>4, Zenon DEF Waiting
            <4> QED
                BY <4>2, <4>3, <4>5, Zenon DEF Unstarted
        <3>3. <<u, j>> # <<t, k>>
            BY <3>1, <3>2, Zenon
        <3> QED
            BY <2>1, <3>1, <3>3, Zenon DEF Clean
    <2>8. index' \subseteq plasma'
        BY <1>1, <1>2, <2>1, Zenon
    <2> QED
        BY <2>5, <2>6, <2>7, <2>8, Zenon DEF Clean
<1>5. CASE WorkerSealRefused(w)
    <2>1. /\ worker[w].pc = "seal" /\ worker[w].k \in Rets
        BY <1>5, DispatchAssumption DEF WorkerSealRefused, Inv, TypeOK, Busy, Rets
    <2>2. <<worker[w].task, worker[w].k>> \in plasma /\ ~(worker[w].k < worker[w].k)
        BY <1>5, <2>1 DEF WorkerSealRefused, Rets
    <2> QED
        BY <1>1, <2>1, <2>2, Zenon DEF Running
<1>6. CASE WorkerReply(w)
    <2>1. /\ worker[w].pc = "reply" /\ UNCHANGED <<toWorker, plasma>>
          /\ toDriver' = [toDriver EXCEPT ![w] = worker[w].task]
          /\ worker' = [worker EXCEPT ![w] = [pc |-> "ready", task |-> None, k |-> 0]]
        BY <1>6, Zenon DEF WorkerReply
    <2>2. /\ worker'[w].pc = "ready" /\ toDriver'[w] = worker[w].task
          /\ \A v \in Workers : v # w => worker'[v] = worker[v] /\ toDriver'[v] = toDriver[v]
        BY <2>1, Zenon DEF Inv, TypeOK
    <2>3. \A j \in Rets : <<worker[w].task, j>> \in plasma
        <3>1. \A j \in Rets : j < NumReturns
            BY DispatchAssumption DEF Rets
        <3> QED
            BY <1>1, <2>1, <3>1, Zenon DEF Running
    <2>4. Running(w)'
        BY <1>1, <1>2, <2>1, <2>3 DEF Running
    <2>5. \A t \in Tasks : Unstarted(t)' => Unstarted(t)
        BY <1>2, <2>1, Zenon DEF Unstarted, Waiting, Queued, Pushing, TaskOf
    <2> QED
        BY <1>1, <1>2, <2>1, <2>2, <2>4, <2>5, CleanStays, Zenon
<1>7. CASE WorkerClose(w) \/ WorkerEvict(w)
    BY <1>1, <1>7, Zenon DEF WorkerClose, WorkerEvict, Running
<1> QED
    BY <1>3, <1>4, <1>5, <1>6, <1>7, Zenon DEF WorkerStep

\* Every step keeps the stores in order as long as nothing goes wrong.
LEMMA NextClean == Inv /\ Inv' /\ (Quiet => Clean) /\ [Next]_vars => (Quiet => Clean)'
<1> SUFFICES ASSUME Inv, Inv', Quiet => Clean, [Next]_vars, Quiet' PROVE Clean'
    BY Zenon
<1>1. Quiet /\ Clean /\ ~stopping /\ ~stopping'
    BY QuietBefore, Zenon DEF Quiet
<1>2. losses = 0 /\ losses' = 0 /\ kills = 0 /\ kills' = 0
    BY <1>1, Zenon DEF Quiet, Undisturbed
<1>3. CASE UNCHANGED vars
    <2>1. UNCHANGED <<queue, handler, toWorker, toDriver, record, caller, index, worker, plasma>>
        BY <1>3, Zenon DEF vars, driver, procs
    <2>2. \A t \in Tasks : Unstarted(t)' => Unstarted(t)
        BY <2>1, Zenon DEF Unstarted, Waiting, Queued, Pushing, TaskOf
    <2> QED
        BY <1>1, <2>1, <2>2, DriverClean, Zenon
<1>4. ASSUME NEW w \in Workers, HandlerStep(w) \/ WorkerStep(w) PROVE Clean'
    BY <1>1, <1>4, HandlerClean, WorkerClean, Zenon
<1>5. ASSUME NEW w \in Workers, Kill(w) PROVE FALSE
    BY <1>2, <1>5 DEF Kill
<1>6. ASSUME NEW c \in Callers, CallerStep(c) PROVE Clean'
    BY <1>1, <1>6, PushClean, GetClean, Zenon DEF CallerStep
<1>7. ASSUME NEW c \in Callers, NEW t \in Tasks, SubmitTask(c, t) PROVE Clean'
    BY <1>1, <1>7, SubmitClean, Zenon
<1>8. ASSUME NEW c \in Callers, NEW o \in Objects, Get(c, o) PROVE Clean'
    BY <1>1, <1>8, GetClean, Zenon
<1>9. ASSUME NEW o \in Objects, Free(o) \/ EvictLocal(o) PROVE FALSE
    BY <1>2, <1>9 DEF Free, EvictLocal
<1>10. ~Shutdown
    BY <1>1, Zenon DEF Shutdown
<1> QED
    BY <1>3, <1>4, <1>5, <1>6, <1>7, <1>8, <1>9, <1>10, Zenon DEF Next

\* While nothing is lost, killed, resubmitted or shut down, a return in the
\* driver's store is in plasma: workers seal every return before they reply,
\* and no second worker ever begins the task.
THEOREM IndexedReturnsAreSealed == Spec => []IndexedIsSealed
<1>1. Init => (Quiet => Clean)
    <2> SUFFICES ASSUME Init PROVE Clean
        BY Zenon
    <2>1. \A w \in Workers : Running(w)
        BY DispatchAssumption, Zenon DEF Init, Running
    <2> QED
        BY <2>1, Zenon DEF Init, Clean
<1>2. (Quiet => Clean) => IndexedIsSealed
    BY Zenon DEF Quiet, Clean, IndexedIsSealed
<1> QED
    BY InitInv, NextInv, NextClean, <1>1, <1>2, PTL DEF Spec
=============================================================================
