----------------------------- MODULE MemoryStore -----------------------------
(***************************************************************************)
(* The driver's index of objects (rayd-core/src/store.rs) and the calls    *)
(* that block on it: get, get_settled, wait and wait_with_states of        *)
(* rayd-py/src/lib.rs.  One mutex guards the entries and the byte count;   *)
(* one condition variable wakes every blocked reader after every insert.   *)
(* A pass through a reader's loop runs under the mutex, so it is one step; *)
(* an insert and its notification are two, because the mutex is released   *)
(* in between.                                                             *)
(***************************************************************************)
EXTENDS Naturals, Sequences, FiniteSets, FiniteSetsExt

CONSTANTS
    ObjectIds,    \* object ids
    Writers,      \* threads that insert: put, dispatcher handlers, actor readers
    Readers,      \* threads that get or wait
    IdLists,      \* the lists of ids the readers ask for (sequences of them)
    Targets,      \* values of num_returns
    Payloads,     \* what is put: [size, err], err for an exception
    InlineThreshold, \* larger payloads go to plasma
    IndexBytes    \* size_of::<PlasmaIndex>()

ASSUME StoreAssumption ==
    /\ IsFiniteSet(ObjectIds)
    /\ IdLists \subseteq Seq(ObjectIds)
    /\ Targets \subseteq Nat
    /\ Payloads \subseteq [size : Nat, err : BOOLEAN]
    /\ InlineThreshold \in Nat /\ IndexBytes \in Nat

VARIABLES
    entries,      \* entries[i]: the StoredEntry, or Missing
    bytes,        \* Inner.bytes
    notifying,    \* writers between an insert and its notify_all
    reader        \* reader[r]: the call a reader is in

indexVars == <<entries, bytes, notifying, reader>>

\* An entry as far as readers and the byte count tell entries apart.
Entry == [kind : {"inline", "plasma"}, err : BOOLEAN, local_bytes : Nat]
Missing == [kind |-> "missing", err |-> FALSE, local_bytes |-> 0]

Present(i) == entries[i] # Missing

RefState(e) ==
    CASE e = Missing -> "Pending"
      [] e.err       -> "Failed"
      [] OTHER       -> "ReadyLocal"

Calls == {"get", "get_settled", "wait", "wait_with_states"}

\* A reader's call: its list, how many ids it needs (wait), the position in
\* the list (get), whether it has a timeout and whether that has passed, and
\* where it is: idle, about to look (wants or holds the mutex), blocked on the
\* condition variable, or between the wait and the snapshot of
\* wait_with_states.
Activity == [call : Calls \cup {"none"}, ids : Seq(ObjectIds), target : Nat, pos : Nat \ {0},
             timed : BOOLEAN, expired : BOOLEAN,
             at : {"idle", "look", "blocked", "snapshot"}]

NoCall == [call |-> "none", ids |-> <<>>, target |-> 0, pos |-> 1, timed |-> FALSE,
           expired |-> FALSE, at |-> "idle"]

IndexTypeOK ==
    /\ entries \in [ObjectIds -> Entry \cup {Missing}]
    /\ bytes \in Nat
    /\ notifying \subseteq Writers
    /\ reader \in [Readers -> Activity]
    /\ \A r \in Readers : reader[r].pos <= Len(reader[r].ids) + 1

IndexInit ==
    /\ entries = [i \in ObjectIds |-> Missing]
    /\ bytes = 0
    /\ notifying = {}
    /\ reader = [r \in Readers |-> NoCall]

-----------------------------------------------------------------------------
(***************************************************************************)
(* Writers.                                                                *)
(***************************************************************************)

SaturatingSub(a, b) == IF a >= b THEN a - b ELSE 0

\* seal_value: a payload over the threshold goes to plasma and leaves only an
\* index entry here.
Sealed(p) ==
    IF p.size > InlineThreshold
    THEN [kind |-> "plasma", err |-> p.err, local_bytes |-> IndexBytes]
    ELSE [kind |-> "inline", err |-> p.err, local_bytes |-> p.size]

\* Mutant of Replaced: a replaced entry stays in the count.
ReplacedKept(total, old, new) == total + new.local_bytes

\* The byte count once `new` has taken the place of `old`.
Replaced(total, old, new) ==
    SaturatingSub(total, old.local_bytes) + new.local_bytes

\* The critical section of MemoryStore::insert.
Insert(w, i, e) ==
    /\ w \notin notifying
    /\ entries' = [entries EXCEPT ![i] = e]
    /\ bytes' = Replaced(bytes, entries[i], e)
    /\ notifying' = notifying \cup {w}
    /\ UNCHANGED reader

Awake(c) == IF c.at = "blocked" THEN [c EXCEPT !.at = "look"] ELSE c

\* Mutant of Notify: notify_one.
NotifyOne(w) ==
    /\ w \in notifying
    /\ notifying' = notifying \ {w}
    /\ IF \E r \in Readers : reader[r].at = "blocked"
       THEN \E r \in Readers :
               /\ reader[r].at = "blocked"
               /\ reader' = [reader EXCEPT ![r] = Awake(@)]
       ELSE UNCHANGED reader
    /\ UNCHANGED <<entries, bytes>>

\* notify_all, after the mutex was released.
Notify(w) ==
    /\ w \in notifying
    /\ notifying' = notifying \ {w}
    /\ reader' = [r \in Readers |-> Awake(reader[r])]
    /\ UNCHANGED <<entries, bytes>>

\* MemoryStore::delete of one id (free, evict, the last drop); no notification.
Delete(i) ==
    /\ Present(i)
    /\ entries' = [entries EXCEPT ![i] = Missing]
    /\ bytes' = SaturatingSub(bytes, entries[i].local_bytes)
    /\ UNCHANGED <<notifying, reader>>

-----------------------------------------------------------------------------
(***************************************************************************)
(* Readers.                                                                *)
(***************************************************************************)

CountPresent(ids) == Cardinality({k \in 1..Len(ids) : Present(ids[k])})

\* target = num_returns.min(ids.len())
Clamp(n, ids) == IF n <= Len(ids) THEN n ELSE Len(ids)

NewCall(call, ids, n, timed) ==
    [call |-> call, ids |-> ids, target |-> IF call = "wait" THEN Clamp(n, ids) ELSE Len(ids),
     pos |-> 1, timed |-> timed, expired |-> FALSE, at |-> "look"]

Call(r, call, ids, n, timed) ==
    /\ reader[r].at = "idle"
    /\ reader' = [reader EXCEPT ![r] = NewCall(call, ids, n, timed)]
    /\ UNCHANGED <<entries, bytes, notifying>>

Waits(c) == c.call \in {"wait", "wait_with_states"}

\* What ends the reader's loop other than its deadline: enough ids are there
\* (duplicates count twice), or the one it is at.
Satisfied(c) ==
    IF Waits(c) THEN CountPresent(c.ids) >= c.target
    ELSE c.pos <= Len(c.ids) => Present(c.ids[c.pos])

\* Mutant of NextElement: the list is not advanced.
SameElement(c) == [c EXCEPT !.expired = FALSE]

\* Done with one element of a list: the next one has a timeout of its own.
NextElement(c) == [c EXCEPT !.pos = @ + 1, !.expired = FALSE]

\* What the call does when its loop ends, satisfied or expired: wait returns
\* the partition, wait_with_states comes back for the states, get stops at the
\* first error or timeout, get_settled goes on, and both raise when the payload
\* of a plasma entry can no longer be had (lost).
LoopEnds(c, lost) ==
    CASE c.call = "wait" \/ lost -> NoCall
      [] c.call = "wait_with_states" -> [c EXCEPT !.at = "snapshot"]
      [] c.call = "get" /\ RefState(entries[c.ids[c.pos]]) # "ReadyLocal" -> NoCall
      [] OTHER -> NextElement(c)

MayBeLost(c) ==
    ~Waits(c) /\ c.pos <= Len(c.ids) /\ entries[c.ids[c.pos]].kind = "plasma"

\* Mutant of Look: the timeout starts again at every wake-up.
LookAnew(r, lost) ==
    LET c == reader[r]
    IN /\ c.at = "look"
       /\ lost => MayBeLost(c)
       /\ reader' = [reader EXCEPT ![r] =
             IF ~Waits(c) /\ c.pos > Len(c.ids) THEN NoCall
             ELSE IF Satisfied(c) THEN LoopEnds(c, lost)
             ELSE [c EXCEPT !.at = "blocked", !.expired = FALSE]]
       /\ UNCHANGED <<entries, bytes, notifying>>

\* One pass of the loop: look, then return, or release the mutex and block.
Look(r, lost) ==
    LET c == reader[r]
    IN /\ c.at = "look"
       /\ lost => MayBeLost(c)
       /\ reader' = [reader EXCEPT ![r] =
             IF ~Waits(c) /\ c.pos > Len(c.ids) THEN NoCall
             ELSE IF Satisfied(c) \/ c.expired THEN LoopEnds(c, lost)
             ELSE [c EXCEPT !.at = "blocked"]]
       /\ UNCHANGED <<entries, bytes, notifying>>

\* state_snapshot, the second critical section of wait_with_states.
SnapshotStates(r) ==
    /\ reader[r].at = "snapshot"
    /\ reader' = [reader EXCEPT ![r] = NoCall]
    /\ UNCHANGED <<entries, bytes, notifying>>

\* The deadline passes; a blocked reader comes back to look once more.
Expire(r) ==
    /\ reader[r].timed
    /\ reader[r].at \in {"look", "blocked"}
    /\ ~reader[r].expired
    /\ reader' = [reader EXCEPT ![r] = Awake([@ EXCEPT !.expired = TRUE])]
    /\ UNCHANGED <<entries, bytes, notifying>>

ReaderStep(r) == (\E lost \in BOOLEAN : Look(r, lost)) \/ SnapshotStates(r)

IndexNext ==
    \/ \E w \in Writers :
          \/ \E i \in ObjectIds, p \in Payloads : Insert(w, i, Sealed(p))
          \/ Notify(w)
    \/ \E i \in ObjectIds : Delete(i)
    \/ \E r \in Readers :
          \/ \E call \in Calls, ids \in IdLists, n \in Targets, timed \in BOOLEAN :
                Call(r, call, ids, n, timed)
          \/ ReaderStep(r) \/ Expire(r)

IndexSpec == IndexInit /\ [][IndexNext]_indexVars

\* The mutex and the condition variable serve every thread in the end, and
\* clocks run; nothing makes anyone insert or call.
Fairness ==
    /\ \A w \in Writers : WF_indexVars(Notify(w))
    /\ \A r \in Readers : WF_indexVars(ReaderStep(r)) /\ WF_indexVars(Expire(r))

FairSpec == IndexSpec /\ Fairness

-----------------------------------------------------------------------------
(***************************************************************************)
(* Properties.                                                             *)
(***************************************************************************)

(***************************************************************************)
(* The byte count reported by used_memory is the sum over the entries,     *)
(* whatever inserts replaced and deletes removed (insert and delete keep   *)
(* it by saturating arithmetic, which would hide a drift).                 *)
(***************************************************************************)
BytesExact == bytes = MapThenSumSet(LAMBDA i : entries[i].local_bytes, ObjectIds)

(***************************************************************************)
(* No lost wake-up: a reader blocked on the condition variable although    *)
(* what it waits for is there is about to be woken by a writer that has    *)
(* inserted and not yet notified.                                          *)
(***************************************************************************)
NoLostWakeup ==
    \A r \in Readers :
        reader[r].at = "blocked" /\ Satisfied(reader[r]) => notifying # {}

Busy(r) == reader[r].at # "idle"

(***************************************************************************)
(* A call whose objects stay in the store returns: no reader is busy for   *)
(* ever with its condition true (get, get_settled, wait, wait_with_states  *)
(* without a timeout, whatever is deleted and inserted in between).        *)
(***************************************************************************)
SatisfiedReturns == \A r \in Readers : []<>~(Busy(r) /\ Satisfied(reader[r]))

(***************************************************************************)
(* A call with a timeout returns, even if its objects never come, and for  *)
(* lists too, where every element has a timeout of its own.                *)
(***************************************************************************)
TimedReturns == \A r \in Readers : Busy(r) /\ reader[r].timed ~> ~Busy(r)
=============================================================================
