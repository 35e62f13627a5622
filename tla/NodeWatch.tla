------------------------------ MODULE NodeWatch ------------------------------
(***************************************************************************)
(* Cluster membership: the GCS node registry with its event log            *)
(* (rayd-gcs/src/service.rs, server.rs), the raylets that register, send   *)
(* heartbeats, drain or die (rayd-raylet/src/lifecycle.rs), and one        *)
(* raylet's WatchNodes subscription that keeps a NodeIndex                 *)
(* (watch_nodes.rs, node_index.rs).                                        *)
(*                                                                         *)
(* Handlers are the GCS tasks that change the registry: RPC handlers and   *)
(* the sweeper.  Each changes the map under its lock, releases it, and     *)
(* then publishes in three steps: take a sequence number, push on the      *)
(* replay buffer, broadcast.                                               *)
(***************************************************************************)
EXTENDS Naturals, Sequences, SequencesExt

CONSTANTS
    Nodes,          \* node ids
    Handlers,       \* concurrent GCS tasks
    BufferCap,      \* REPLAY_BUFFER_CAPACITY
    ChannelCap,     \* BROADCAST_CHANNEL_CAPACITY
    MaxBlips,       \* bound: connection losses of the subscriber
    MaxRestarts     \* bound: restarts of the GCS

ASSUME NodeWatchAssumption ==
    /\ BufferCap \in Nat \ {0}
    /\ ChannelCap \in Nat \ {0}
    /\ MaxBlips \in Nat
    /\ MaxRestarts \in Nat

Status == {"alive", "draining", "dead"}

VARIABLES
    life,       \* life[n]: the raylet process of n
    nodes,      \* nodes[n]: status in the registry, "none" if unknown
    overdue,    \* nodes whose last heartbeat is older than the timeout
    sequence,   \* next_sequence
    buffer,     \* replay_buffer
    handler,    \* handler[h]: infos left to publish, step, event in hand
    sub,        \* the subscriber's stream: step, catch-up batch, live queue
    lastSeen,   \* the subscriber's last_seen_sequence
    index,      \* index[n]: status in the subscriber's NodeIndex
    blips, restarts

vars == <<life, nodes, overdue, sequence, buffer, handler, sub, lastSeen, index,
          blips, restarts>>

Info == [node : Nodes, status : Status]
Event == [seq : Nat, node : Nodes, status : Status]
NoEvent == [seq |-> 0]

IdleHandler == [todo |-> <<>>, step |-> "idle", event |-> NoEvent]
Closed == [step |-> "closed", catchup |-> <<>>, live |-> <<>>, lagged |-> FALSE,
           highest |-> 0]

TypeOK ==
    /\ life \in [Nodes -> {"out", "joining", "up", "leaving", "gone"}]
    /\ nodes \in [Nodes -> Status \cup {"none"}]
    /\ overdue \subseteq Nodes
    /\ sequence \in Nat \ {0}
    /\ buffer \in Seq(Event) /\ Len(buffer) <= BufferCap
    /\ handler \in [Handlers -> [todo : Seq(Info),
                                 step : {"idle", "number", "buffer", "send"},
                                 event : Event \cup {NoEvent}]]
    /\ sub.step \in {"closed", "attached", "floor", "open"}
    /\ sub.catchup \in Seq(Event) /\ sub.live \in Seq(Event)
    /\ Len(sub.live) <= ChannelCap
    /\ sub.lagged \in BOOLEAN /\ sub.highest \in Nat
    /\ lastSeen \in Nat
    /\ index \in [Nodes -> Status \cup {"none"}]
    /\ blips \in 0 .. MaxBlips
    /\ restarts \in 0 .. MaxRestarts

Init ==
    /\ life = [n \in Nodes |-> "out"]
    /\ nodes = [n \in Nodes |-> "none"]
    /\ overdue = {}
    /\ sequence = 1
    /\ buffer = <<>>
    /\ handler = [h \in Handlers |-> IdleHandler]
    /\ sub = Closed
    /\ lastSeen = 0
    /\ index = [n \in Nodes |-> "none"]
    /\ blips = 0
    /\ restarts = 0

-----------------------------------------------------------------------------
InfoOf(n, s) == [node |-> n, status |-> s]
Publish(h, infos) ==
    /\ handler[h].step = "idle"
    /\ handler' = [handler EXCEPT ![h].todo = infos, ![h].step = "number"]

\* A raylet registers: a fresh node id, alive.  It learns the id from the
\* reply, which follows the broadcast.
Register(h, n) ==
    /\ life[n] = "out"
    /\ life' = [life EXCEPT ![n] = "joining"]
    /\ nodes' = [nodes EXCEPT ![n] = "alive"]
    /\ Publish(h, <<InfoOf(n, "alive")>>)
    /\ UNCHANGED <<overdue, sequence, buffer, sub, lastSeen, index, blips, restarts>>

\* RayletHandle::shutdown stops the heartbeats first, then drains.
StopHeartbeat(n) ==
    /\ life[n] = "up"
    /\ life' = [life EXCEPT ![n] = "leaving"]
    /\ UNCHANGED <<nodes, overdue, sequence, buffer, handler, sub, lastSeen, index, blips, restarts>>

\* drain: whatever the status was; NotFound if the GCS does not know n.
Drain(h, n) ==
    /\ life[n] = "leaving"
    /\ life' = [life EXCEPT ![n] = "gone"]
    /\ \/ /\ nodes[n] # "none"
          /\ nodes' = [nodes EXCEPT ![n] = "draining"]
          /\ Publish(h, <<InfoOf(n, "draining")>>)
       \/ /\ nodes[n] = "none"
          /\ UNCHANGED <<nodes, handler>>
    /\ UNCHANGED <<overdue, sequence, buffer, sub, lastSeen, index, blips, restarts>>

Crash(n) ==
    /\ life[n] \in {"up", "leaving"}
    /\ life' = [life EXCEPT ![n] = "gone"]
    /\ UNCHANGED <<nodes, overdue, sequence, buffer, handler, sub, lastSeen, index, blips, restarts>>

\* heartbeat: only the timestamp; NotFound for an unknown node is ignored.
Heartbeat(n) ==
    /\ life[n] = "up"
    /\ n \in overdue
    /\ overdue' = IF nodes[n] = "none" THEN overdue ELSE overdue \ {n}
    /\ UNCHANGED <<life, nodes, sequence, buffer, handler, sub, lastSeen, index, blips, restarts>>

\* The heartbeat timeout passes: heartbeats stopped, were lost or were late.
\* (The reply to Register is not delayed by a whole timeout.)
HeartbeatLate(n) ==
    /\ nodes[n] = "alive"
    /\ life[n] # "joining"
    /\ overdue' = overdue \cup {n}
    /\ UNCHANGED <<life, nodes, sequence, buffer, handler, sub, lastSeen, index, blips, restarts>>

Stale == {n \in overdue : nodes[n] = "alive"}

\* Mutant of Sweep: the change is not published.
SweepSilent(h) ==
    /\ Stale # {}
    /\ handler[h].step = "idle"
    /\ nodes' = [n \in Nodes |-> IF n \in Stale THEN "dead" ELSE nodes[n]]
    /\ UNCHANGED <<life, overdue, sequence, buffer, handler, sub, lastSeen, index, blips, restarts>>

\* run_sweeper / expire_stale: flip every stale alive node under the lock.
Sweep(h) ==
    /\ Stale # {}
    /\ nodes' = [n \in Nodes |-> IF n \in Stale THEN "dead" ELSE nodes[n]]
    /\ LET order == SetToSeq(Stale)
       IN  Publish(h, [k \in 1 .. Len(order) |-> InfoOf(order[k], "dead")])
    /\ UNCHANGED <<life, overdue, sequence, buffer, sub, lastSeen, index, blips, restarts>>

-----------------------------------------------------------------------------
\* Registry::publish
TakeNumber(h) ==
    /\ handler[h].step = "number"
    /\ LET info == Head(handler[h].todo)
       IN  handler' = [handler EXCEPT
               ![h] = [todo |-> Tail(@.todo), step |-> "buffer",
                       event |-> [seq |-> sequence, node |-> info.node, status |-> info.status]]]
    /\ sequence' = sequence + 1
    /\ UNCHANGED <<life, nodes, overdue, buffer, sub, lastSeen, index, blips, restarts>>

PushBuffer(h) ==
    /\ handler[h].step = "buffer"
    /\ buffer' = Append(IF Len(buffer) = BufferCap THEN Tail(buffer) ELSE buffer,
                        handler[h].event)
    /\ handler' = [handler EXCEPT ![h].step = "send"]
    /\ UNCHANGED <<life, nodes, overdue, sequence, sub, lastSeen, index, blips, restarts>>

Sent(h) ==
    /\ handler' = [handler EXCEPT
           ![h] = [todo |-> @.todo, event |-> NoEvent,
                   step |-> IF @.todo = <<>> THEN "idle" ELSE "number"]]
    /\ LET n == handler[h].event.node
       IN  life' = [life EXCEPT ![n] = IF @ = "joining" THEN "up" ELSE @]

\* Mutant of Broadcast: the channel has no bound.
BroadcastUnbounded(h) ==
    /\ handler[h].step = "send"
    /\ Sent(h)
    /\ sub' = IF sub.step = "closed" THEN sub
              ELSE [sub EXCEPT !.live = Append(@, handler[h].event)]
    /\ UNCHANGED <<nodes, overdue, sequence, buffer, lastSeen, index, blips, restarts>>

\* A subscriber that is ChannelCap events behind loses the oldest (Lagged).
Broadcast(h) ==
    /\ handler[h].step = "send"
    /\ Sent(h)
    /\ sub' = IF sub.step = "closed" THEN sub
              ELSE IF Len(sub.live) < ChannelCap
                   THEN [sub EXCEPT !.live = Append(@, handler[h].event)]
                   ELSE [sub EXCEPT !.live = Append(Tail(@), handler[h].event),
                                    !.lagged = TRUE]
    /\ UNCHANGED <<nodes, overdue, sequence, buffer, lastSeen, index, blips, restarts>>

-----------------------------------------------------------------------------
(***************************************************************************)
(* watch_nodes: attach to the channel, then build the catch-up batch.  A   *)
(* resume looks at the buffer twice, once for its floor and once for the   *)
(* events.  A refused resume is retried by run_watch_nodes with the same   *)
(* last_seen_sequence.                                                     *)
(***************************************************************************)
Subscribe ==
    /\ sub.step = "closed"
    /\ sub' = [Closed EXCEPT !.step = "attached"]
    /\ UNCHANGED <<life, nodes, overdue, sequence, buffer, handler, lastSeen, index, blips, restarts>>

Snapshot ==
    LET order == SetToSeq({n \in Nodes : nodes[n] # "none"})
    IN  [k \in 1 .. Len(order) |-> [seq |-> 0, node |-> order[k], status |-> nodes[order[k]]]]

SnapshotCatchUp ==
    /\ sub.step = "attached"
    /\ lastSeen = 0
    /\ sub' = [sub EXCEPT !.step = "open", !.catchup = Snapshot]
    /\ UNCHANGED <<life, nodes, overdue, sequence, buffer, handler, lastSeen, index, blips, restarts>>

BelowFloor == buffer # <<>> /\ lastSeen + 1 < Head(buffer).seq

\* Mutant of ResumeCheck: a token from before a restart is refused.
ResumeCheckStrict ==
    /\ sub.step = "attached"
    /\ lastSeen > 0
    /\ sub' = IF BelowFloor \/ lastSeen >= sequence THEN Closed ELSE [sub EXCEPT !.step = "floor"]
    /\ UNCHANGED <<life, nodes, overdue, sequence, buffer, handler, lastSeen, index, blips, restarts>>

ResumeCheck ==
    /\ sub.step = "attached"
    /\ lastSeen > 0
    /\ sub' = IF BelowFloor THEN Closed ELSE [sub EXCEPT !.step = "floor"]
    /\ UNCHANGED <<life, nodes, overdue, sequence, buffer, handler, lastSeen, index, blips, restarts>>

\* Mutant of BufferedAfter: off by one.
BufferedAfterNext == SelectSeq(buffer, LAMBDA e : e.seq > lastSeen + 1)

BufferedAfter == SelectSeq(buffer, LAMBDA e : e.seq > lastSeen)

ResumeCatchUp ==
    /\ sub.step = "floor"
    /\ sub' = [sub EXCEPT !.step = "open", !.catchup = BufferedAfter,
                          !.highest = IF BufferedAfter = <<>> THEN 0
                                      ELSE Last(BufferedAfter).seq]
    /\ UNCHANGED <<life, nodes, overdue, sequence, buffer, handler, lastSeen, index, blips, restarts>>

-----------------------------------------------------------------------------
\* consume_stream: remember the highest sequence and apply the event.
Apply(e) ==
    /\ lastSeen' = IF e.seq > lastSeen THEN e.seq ELSE lastSeen
    /\ index' = [index EXCEPT ![e.node] = e.status]

DeliverCatchUp ==
    /\ sub.step = "open" /\ sub.catchup # <<>>
    /\ Apply(Head(sub.catchup))
    /\ sub' = [sub EXCEPT !.catchup = Tail(@)]
    /\ UNCHANGED <<life, nodes, overdue, sequence, buffer, handler, blips, restarts>>

DeliverLive ==
    /\ sub.step = "open" /\ sub.catchup = <<>>
    /\ ~sub.lagged /\ sub.live # <<>>
    /\ IF Head(sub.live).seq > sub.highest
       THEN Apply(Head(sub.live))
       ELSE UNCHANGED <<lastSeen, index>>
    /\ sub' = [sub EXCEPT !.live = Tail(@)]
    /\ UNCHANGED <<life, nodes, overdue, sequence, buffer, handler, blips, restarts>>

\* The stream yields OUT_OF_RANGE: ResetResume.
DeliverLagged ==
    /\ sub.step = "open" /\ sub.catchup = <<>>
    /\ sub.lagged
    /\ sub' = Closed
    /\ lastSeen' = 0
    /\ UNCHANGED <<life, nodes, overdue, sequence, buffer, handler, index, blips, restarts>>

\* TransientError or CleanReset: reconnect with the resume token.
Blip ==
    /\ sub.step # "closed"
    /\ blips < MaxBlips
    /\ blips' = blips + 1
    /\ sub' = Closed
    /\ UNCHANGED <<life, nodes, overdue, sequence, buffer, handler, lastSeen, index, restarts>>

\* The GCS restarts with an empty registry and a fresh sequence.
Restart ==
    /\ restarts < MaxRestarts
    /\ restarts' = restarts + 1
    /\ nodes' = [n \in Nodes |-> "none"]
    /\ overdue' = {}
    /\ sequence' = 1
    /\ buffer' = <<>>
    /\ handler' = [h \in Handlers |-> IdleHandler]
    /\ sub' = Closed
    /\ life' = [n \in Nodes |-> IF life[n] = "joining" THEN "gone" ELSE life[n]]
    /\ UNCHANGED <<lastSeen, index, blips>>

-----------------------------------------------------------------------------
PublishStep(h) == TakeNumber(h) \/ PushBuffer(h) \/ Broadcast(h)
SubscriberStep ==
    \/ Subscribe \/ SnapshotCatchUp \/ ResumeCheck \/ ResumeCatchUp
    \/ DeliverCatchUp \/ DeliverLive \/ DeliverLagged

Next ==
    \/ \E n \in Nodes : StopHeartbeat(n) \/ Crash(n) \/ Heartbeat(n) \/ HeartbeatLate(n)
    \/ \E h \in Handlers : Sweep(h) \/ PublishStep(h)
    \/ \E h \in Handlers, n \in Nodes : Register(h, n) \/ Drain(h, n)
    \/ SubscriberStep \/ Blip \/ Restart

Spec == Init /\ [][Next]_vars

(***************************************************************************)
(* Time passes for a node that sends no heartbeats, the sweeper's timer    *)
(* fires, the GCS's tasks are scheduled, and run_watch_nodes retries.      *)
(* Nothing obliges a node to crash, to drain or to be late.                *)
(***************************************************************************)
SilenceNoticed(n) == life[n] = "gone" /\ HeartbeatLate(n)
Fairness ==
    /\ \A n \in Nodes : WF_vars(SilenceNoticed(n))
    /\ WF_vars(\E h \in Handlers : Sweep(h))
    /\ \A h \in Handlers : WF_vars(PublishStep(h))
    /\ WF_vars(SubscriberStep)

FairSpec == Spec /\ Fairness

-----------------------------------------------------------------------------
(***************************************************************************)
(* A subscriber that has read everything sent to it agrees with the        *)
(* registry: whatever it missed while disconnected or lagging came in a    *)
(* snapshot or in the replay (watch_nodes, consume_stream; service.rs:     *)
(* "so subscribers never observe a publish that disagrees with             *)
(* `snapshot()`").                                                         *)
(***************************************************************************)
Settled ==
    /\ \A h \in Handlers : handler[h].step = "idle"
    /\ sub.step = "open" /\ sub.catchup = <<>> /\ sub.live = <<>> /\ ~sub.lagged
CaughtUp == Settled => index = nodes

\* The server refuses the resume token for good: what comes next has left the
\* replay buffer, and run_watch_nodes keeps the token after a refused call.
Refused == lastSeen > 0 /\ BelowFloor

(***************************************************************************)
(* A node whose process is gone while registered alive is eventually seen  *)
(* as not alive by the subscriber (run_sweeper, run_watch_nodes), unless   *)
(* the GCS forgets the node in a restart or refuses the subscriber.        *)
(***************************************************************************)
DeathNoticed ==
    \A n \in Nodes :
        (life[n] = "gone" /\ nodes[n] = "alive")
            ~> (index[n] \in {"dead", "draining"} \/ restarts > 0 \/ Refused)

(***************************************************************************)
(* A subscription that was lost is eventually open again, after blips, lag *)
(* and a restart of the GCS alike, unless its token is refused             *)
(* (run_watch_nodes, watch_nodes).                                         *)
(***************************************************************************)
Resubscribes == sub.step = "closed" ~> (sub.step = "open" \/ Refused)
=============================================================================
