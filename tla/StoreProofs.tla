----------------------------- MODULE StoreProofs -----------------------------
(***************************************************************************)
(* Proofs about the two stores of a node, each for any constants: the      *)
(* driver's index (MemoryStore) and the shared-memory store (Plasma).      *)
(***************************************************************************)
EXTENDS MemoryStore, Plasma, FiniteSetTheorems, TLAPS

-----------------------------------------------------------------------------
(***************************************************************************)
(* MemoryStore, for any set of ids, readers and writers, any lists and any *)
(* payloads: types, and that no wake-up is lost.  Together the two are     *)
(* inductive.                                                              *)
(***************************************************************************)
\* An entry leaves for the store with one of the two kinds and a size.
LEMMA SealedType == \A p \in Payloads : Sealed(p) \in Entry
<1>1. SUFFICES ASSUME NEW p \in Payloads PROVE Sealed(p) \in Entry
    BY Zenon
<1>2. p.size \in Nat /\ p.err \in BOOLEAN
    BY StoreAssumption, Zenon
<1> QED
    BY StoreAssumption, Zenon DEF Sealed, Entry

\* The byte count never goes below zero.
LEMMA ReplacedType ==
    \A t \in Nat, a, b \in Entry \cup {Missing} :
        Replaced(t, a, b) \in Nat /\ SaturatingSub(t, a.local_bytes) \in Nat
    BY DEF Replaced, SaturatingSub, Entry, Missing

\* No entry is the missing one.
LEMMA EntryNotMissing == Missing \notin Entry
    BY Zenon DEF Entry, Missing

WellFormed(c) == c \in Activity /\ c.pos <= Len(c.ids) + 1

\* A call starts well formed.
LEMMA NewCallType ==
    ASSUME NEW call \in Calls, NEW ids \in IdLists, NEW n \in Targets, NEW timed \in BOOLEAN
    PROVE  WellFormed(NewCall(call, ids, n, timed))
<1>1. ids \in Seq(ObjectIds) /\ n \in Nat /\ Len(ids) \in Nat
    BY StoreAssumption
<1>2. Clamp(n, ids) \in Nat
    BY <1>1, Zenon DEF Clamp
<1> QED
    BY <1>1, <1>2 DEF NewCall, Activity, WellFormed

\* The idle reader is well formed.
LEMMA NoCallType == WellFormed(NoCall)
    BY DEF NoCall, Activity, WellFormed

\* A wake-up and a deadline keep a call well formed.
LEMMA AwakeType == \A c \in Activity : WellFormed(c) => WellFormed(Awake(c)) /\ Awake(c).at # "blocked"
    BY DEF Awake, Activity, WellFormed

\* Going on to the next element of a list keeps a call well formed.
LEMMA NextElementType ==
    ASSUME NEW c \in Activity, c.pos <= Len(c.ids)
    PROVE  WellFormed(NextElement(c)) /\ NextElement(c).at = c.at
<1>1. c.ids \in Seq(ObjectIds) /\ c.pos \in Nat \ {0} /\ Len(c.ids) \in Nat
    BY DEF Activity
<1>2. /\ NextElement(c).ids = c.ids
      /\ NextElement(c).pos = c.pos + 1
      /\ NextElement(c).at = c.at
    BY Zenon DEF NextElement, Activity
<1>3. NextElement(c) \in Activity
    <2>1. c.pos + 1 \in Nat \ {0}
        BY <1>1
    <2>2. \A n \in Nat \ {0} : [c EXCEPT !.pos = n, !.expired = FALSE] \in Activity
        BY Zenon DEF Activity
    <2> QED
        BY <2>1, <2>2, Zenon DEF NextElement
<1> QED
    BY <1>1, <1>2, <1>3 DEF WellFormed

\* What a reader that looks becomes is well formed, and it blocks only when
\* what it waits for is not there.
LEMMA LookType ==
    ASSUME NEW c \in Activity, WellFormed(c), c.at = "look", NEW lost \in BOOLEAN,
           lost => MayBeLost(c),
           NEW d, d = IF ~Waits(c) /\ c.pos > Len(c.ids) THEN NoCall
                      ELSE IF Satisfied(c) \/ c.expired THEN LoopEnds(c, lost)
                      ELSE [c EXCEPT !.at = "blocked"]
    PROVE  WellFormed(d) /\ (d.at = "blocked" => d = [c EXCEPT !.at = "blocked"] /\ ~Satisfied(c))
<1>1. CASE ~Waits(c) /\ c.pos > Len(c.ids)
    BY <1>1, NoCallType, Zenon DEF NoCall
<1>2. CASE ~(~Waits(c) /\ c.pos > Len(c.ids)) /\ (Satisfied(c) \/ c.expired)
    <2>1. d = LoopEnds(c, lost)
        BY <1>2, Zenon
    <2>2. CASE c.call = "wait" \/ lost
        <3>1. d = NoCall
            BY <2>1, <2>2, Zenon DEF LoopEnds, MayBeLost, Waits
        <3>2. d.at = "idle"
            BY <3>1 DEF NoCall
        <3> QED
            BY <3>1, <3>2, NoCallType, Zenon
    <2>3. CASE ~lost /\ c.call = "wait_with_states"
        BY <2>1, <2>3 DEF LoopEnds, WellFormed, Activity
    <2>4. CASE ~lost /\ ~Waits(c)
        <3>1. c.pos <= Len(c.ids) /\ c.pos \in Nat /\ Len(c.ids) \in Nat
            BY <1>2, <2>4 DEF Activity
        <3>2. WellFormed(NextElement(c)) /\ NextElement(c).at = "look"
            BY <3>1, NextElementType, Zenon
        <3>3. d = NoCall \/ d = NextElement(c)
            BY <2>1, <2>4, Zenon DEF LoopEnds, Waits
        <3> QED
            BY <3>2, <3>3, NoCallType DEF NoCall
    <2> QED
        BY <2>2, <2>3, <2>4, Zenon DEF Waits
<1>3. CASE ~(~Waits(c) /\ c.pos > Len(c.ids)) /\ ~(Satisfied(c) \/ c.expired)
    BY <1>3, Zenon DEF WellFormed, Activity
<1> QED
    BY <1>1, <1>2, <1>3, Zenon

\* Deleting an entry makes no reader's condition true.
LEMMA DeleteUnsatisfies ==
    ASSUME IndexTypeOK, NEW i \in ObjectIds, Delete(i), NEW c \in Activity, WellFormed(c)
    PROVE  Satisfied(c)' => Satisfied(c)
<1>1. \A j \in ObjectIds : Present(j)' => Present(j)
    BY Zenon DEF Delete, Present, IndexTypeOK
<1>2. c.ids \in Seq(ObjectIds) /\ c.target \in Nat /\ c.pos \in Nat \ {0} /\ Len(c.ids) \in Nat
    BY DEF Activity
<1>3. \A k \in 1..Len(c.ids) : c.ids[k] \in ObjectIds
    BY <1>2
<1>4. CASE Waits(c)
    <2> DEFINE P == {k \in 1..Len(c.ids) : Present(c.ids[k])}
               Q == {k \in 1..Len(c.ids) : Present(c.ids[k])'}
    <2>1. Q \subseteq P /\ P \subseteq 1..Len(c.ids)
        BY <1>1, <1>3, Zenon
    <2>2. IsFiniteSet(1..Len(c.ids))
        BY <1>2, FS_Interval
    <2>3. IsFiniteSet(P)
        BY <2>2, FS_Subset, Zenon
    <2>4. Cardinality(Q) <= Cardinality(P) /\ Cardinality(Q) \in Nat /\ Cardinality(P) \in Nat
        BY <2>1, <2>3, FS_Subset, FS_CardinalityType, Zenon
    <2>5. CountPresent(c.ids) = Cardinality(P) /\ CountPresent(c.ids)' = Cardinality(Q)
        BY Zenon DEF CountPresent
    <2> HIDE DEF P, Q
    <2>6. Waits(c)'
        BY <1>4, Zenon DEF Waits
    <2> QED
        BY <1>2, <2>4, <2>5, <2>6 DEF Satisfied
<1>5. CASE ~Waits(c)
    BY <1>1, <1>2, <1>5 DEF Satisfied
<1> QED
    BY <1>4, <1>5, Zenon

Inv == IndexTypeOK /\ NoLostWakeup

\* The initial state: nobody is blocked.
LEMMA InitInv == IndexInit => Inv
    BY NoCallType DEF IndexInit, Inv, IndexTypeOK, NoLostWakeup, NoCall, WellFormed

\* Steps of the writers.
LEMMA WriterInv ==
    ASSUME Inv, NEW w \in Writers,
           (\E i \in ObjectIds, p \in Payloads : Insert(w, i, Sealed(p))) \/ Notify(w)
    PROVE  Inv'
<1>1. ASSUME NEW i \in ObjectIds, NEW p \in Payloads, Insert(w, i, Sealed(p))
      PROVE  Inv'
    <2>1. Sealed(p) \in Entry
        BY SealedType, Zenon
    <2>2. bytes' \in Nat
        BY <1>1, <2>1, ReplacedType, Zenon DEF Inv, IndexTypeOK, Insert
    <2>3. entries' \in [ObjectIds -> Entry \cup {Missing}]
        BY <1>1, <2>1, Zenon DEF Inv, IndexTypeOK, Insert
    <2>4. notifying' # {} /\ notifying' \subseteq Writers /\ reader' = reader
        BY <1>1, Zenon DEF Inv, IndexTypeOK, Insert
    <2> QED
        BY <2>2, <2>3, <2>4, Zenon DEF Inv, IndexTypeOK, NoLostWakeup
<1>2. ASSUME Notify(w)
      PROVE  Inv'
    <2>1. \A r \in Readers : reader'[r] = Awake(reader[r])
        BY <1>2, Zenon DEF Notify
    <2>2. \A r \in Readers : WellFormed(reader'[r]) /\ reader'[r].at # "blocked"
        BY <2>1, AwakeType, Zenon DEF Inv, IndexTypeOK, WellFormed
    <2>3. IndexTypeOK'
        BY <1>2, <2>2, Zenon DEF Inv, IndexTypeOK, Notify, WellFormed
    <2> QED
        BY <2>2, <2>3, Zenon DEF Inv, NoLostWakeup
<1> QED
    BY <1>1, <1>2, Zenon

\* A step that changes one reader, leaves it well formed and leaves it blocked
\* only when what it waits for is not there.
LEMMA OneReader ==
    ASSUME Inv, NEW r \in Readers, NEW d, WellFormed(d),
           d.at = "blocked" => ~Satisfied(d),
           reader' = [reader EXCEPT ![r] = d],
           UNCHANGED <<entries, bytes, notifying>>
    PROVE  Inv'
<1>1. \A q \in Readers : reader'[q] = IF q = r THEN d ELSE reader[q]
    BY Zenon DEF Inv, IndexTypeOK
<1>2. d \in Activity
    BY Zenon DEF WellFormed
<1>3. IndexTypeOK'
    BY Zenon DEF Inv, IndexTypeOK, WellFormed
<1>4. NoLostWakeup'
    <2>1. SUFFICES ASSUME NEW q \in Readers, reader'[q].at = "blocked", Satisfied(reader[q])'
                   PROVE  notifying' # {}
        BY Zenon DEF NoLostWakeup
    <2>2. Satisfied(reader'[q])
        BY <2>1, Zenon DEF Satisfied, CountPresent, Present
    <2>3. CASE q = r
        BY <1>1, <2>1, <2>2, <2>3, Zenon
    <2>4. CASE q # r
        BY <1>1, <2>1, <2>2, Zenon DEF Inv, NoLostWakeup
    <2> QED
        BY <2>3, <2>4, Zenon
<1> QED
    BY <1>3, <1>4, Zenon DEF Inv

\* Steps of a reader.
LEMMA ReaderInv ==
    ASSUME Inv, NEW r \in Readers, ReaderStep(r) \/ Expire(r)
    PROVE  Inv'
<1> DEFINE c == reader[r]
<1>1. c \in Activity /\ WellFormed(c)
    BY Zenon DEF Inv, IndexTypeOK, WellFormed
<1>2. ASSUME NEW lost \in BOOLEAN, Look(r, lost)
      PROVE  Inv'
    <2> DEFINE d == IF ~Waits(c) /\ c.pos > Len(c.ids) THEN NoCall
                    ELSE IF Satisfied(c) \/ c.expired THEN LoopEnds(c, lost)
                    ELSE [c EXCEPT !.at = "blocked"]
    <2>1. c.at = "look" /\ (lost => MayBeLost(c)) /\ reader' = [reader EXCEPT ![r] = d]
          /\ UNCHANGED <<entries, bytes, notifying>>
        BY <1>2, Zenon DEF Look
    <2>2. Satisfied([c EXCEPT !.at = "blocked"]) <=> Satisfied(c)
        BY <1>1, Zenon DEF Satisfied, Waits, Activity
    <2>3. WellFormed(d) /\ (d.at = "blocked" => d = [c EXCEPT !.at = "blocked"] /\ ~Satisfied(c))
        <3> HIDE DEF c
        <3> QED
            BY <1>1, <2>1, LookType, Zenon
    <2> HIDE DEF d
    <2> QED
        BY <2>1, <2>2, <2>3, OneReader, Zenon
<1>3. ASSUME SnapshotStates(r)
      PROVE  Inv'
    <2>1. NoCall.at # "blocked"
        BY Zenon DEF NoCall
    <2> QED
        BY <1>3, <2>1, NoCallType, OneReader, Zenon DEF SnapshotStates
<1>4. ASSUME Expire(r)
      PROVE  Inv'
    <2> DEFINE e == [c EXCEPT !.expired = TRUE]
    <2>1. e \in Activity /\ WellFormed(e)
        BY <1>1, Zenon DEF WellFormed, Activity
    <2>2. WellFormed(Awake(e)) /\ Awake(e).at # "blocked"
        BY <2>1, AwakeType, Zenon
    <2>3. reader' = [reader EXCEPT ![r] = Awake(e)] /\ UNCHANGED <<entries, bytes, notifying>>
        BY <1>4, Zenon DEF Expire
    <2> HIDE DEF e
    <2> QED
        BY <2>2, <2>3, OneReader, Zenon
<1> QED
    BY <1>2, <1>3, <1>4, Zenon DEF ReaderStep

\* Every step keeps the invariant.
LEMMA NextInv == Inv /\ [IndexNext]_indexVars => Inv'
<1>1. SUFFICES ASSUME Inv, [IndexNext]_indexVars PROVE Inv'
    BY Zenon
<1>2. ASSUME NEW i \in ObjectIds, Delete(i)
      PROVE  Inv'
    <2>1. bytes' \in Nat
        BY <1>1, <1>2, ReplacedType, Zenon DEF Inv, IndexTypeOK, Delete
    <2>2. IndexTypeOK'
        BY <1>1, <1>2, <2>1, Zenon DEF Inv, IndexTypeOK, Delete
    <2>3. SUFFICES ASSUME NEW r \in Readers, reader[r].at = "blocked", Satisfied(reader[r])'
                   PROVE  notifying # {}
        BY <1>2, <2>2, Zenon DEF Inv, NoLostWakeup, Delete
    <2>4. Satisfied(reader[r])
        <3> DEFINE c == reader[r]
        <3>1. c \in Activity /\ WellFormed(c) /\ IndexTypeOK /\ reader' = reader
            BY <1>1, <1>2, Zenon DEF Inv, IndexTypeOK, WellFormed, Delete
        <3>2. \A d \in Activity : WellFormed(d) => (Satisfied(d)' => Satisfied(d))
            BY <1>2, <3>1, DeleteUnsatisfies, Zenon
        <3> QED
            BY <2>3, <3>1, <3>2, Zenon
    <2> QED
        BY <1>1, <2>3, <2>4, Zenon DEF Inv, NoLostWakeup
<1>3. ASSUME NEW r \in Readers, NEW call \in Calls, NEW ids \in IdLists, NEW n \in Targets,
             NEW timed \in BOOLEAN, Call(r, call, ids, n, timed)
      PROVE  Inv'
    <2>1. WellFormed(NewCall(call, ids, n, timed))
        BY NewCallType, Zenon
    <2>2. NewCall(call, ids, n, timed).at # "blocked"
        BY Zenon DEF NewCall
    <2> QED
        BY <1>1, <1>3, <2>1, <2>2, OneReader, Zenon DEF Call
<1>4. CASE UNCHANGED indexVars
    BY <1>1, <1>4, Zenon DEF indexVars, Inv, IndexTypeOK, NoLostWakeup, Satisfied, CountPresent,
                             Present
<1>5. CASE IndexNext
    BY <1>1, <1>2, <1>3, <1>5, WriterInv, ReaderInv, Zenon DEF IndexNext
<1> QED
    BY <1>1, <1>4, <1>5, Zenon

(***************************************************************************)
(* No reader ever sleeps through the object it waits for, whatever the     *)
(* lists, timeouts, inserts and deletes: insert changes the entries under  *)
(* the mutex a blocking reader looks under, and notifies them all after.   *)
(***************************************************************************)
THEOREM NoWakeupLost == IndexSpec => []NoLostWakeup
<1>1. Inv => NoLostWakeup
    BY Zenon DEF Inv
<1> QED
    BY InitInv, NextInv, <1>1, PTL DEF IndexSpec

(***************************************************************************)
(* Type correctness of the index: the byte count stays a natural number,   *)
(* and no reader runs past the end of its list.                            *)
(***************************************************************************)
THEOREM IndexTypes == IndexSpec => []IndexTypeOK
<1>1. Inv => IndexTypeOK
    BY Zenon DEF Inv
<1> QED
    BY InitInv, NextInv, <1>1, PTL DEF IndexSpec

-----------------------------------------------------------------------------
(***************************************************************************)
(* Plasma, for any number of connections and ids, any capacity, alignment  *)
(* and sizes.                                                              *)
(***************************************************************************)
-----------------------------------------------------------------------------
(***************************************************************************)
(* arena.rs alloc: rounding up never moves the bump pointer back.          *)
(***************************************************************************)
LEMMA AlignedUp ==
    ASSUME bump \in Nat
    PROVE  Aligned \in Nat /\ Aligned >= bump
<1> DEFINE q == (bump + Align - 1) \div Align
<1>1. Align \in Nat /\ Align >= 1
    BY PlasmaAssumption
<1>2. bump + Align - 1 \in Nat
    BY <1>1
<1>3. q \in Int /\ q * Align <= bump + Align - 1 /\ bump + Align - 1 < q * Align + Align
    BY <1>1, <1>2
<1> HIDE DEF q
<1>4. q * Align \in Int
    BY <1>1, <1>3
<1>5. q * Align > bump - 1
    BY <1>1, <1>3
<1> QED
    BY <1>1 DEF Aligned

\* A slot of no id has no bytes.
LEMMA NullSlotBytes ==
    /\ NullSlot \in Slot
    /\ MetaBytes(NullSlot) = {} /\ SlotData(NullSlot) = {} /\ Bytes(NullSlot) = {}
BY DEF NullSlot, Slot, Bytes, MetaBytes, SlotData

\* What alloc returns lies above everything handed out before.
LEMMA AllocFresh ==
    ASSUME bump \in Nat, NEW n \in Nat, Alloc(n)
    PROVE  /\ bump' \in 0 .. Capacity /\ Aligned \in Nat
           /\ 0 .. bump - 1 \subseteq 0 .. bump' - 1
           /\ Aligned .. Aligned + n - 1 \subseteq 0 .. bump' - 1
           /\ (Aligned .. Aligned + n - 1) \cap (0 .. bump - 1) = {}
<1>1. Aligned \in Nat /\ Aligned >= bump
    BY AlignedUp, Zenon
<1>2. bump' = Aligned + n /\ Aligned + n <= Capacity
    BY Zenon DEF Alloc, Fits
<1> QED
    BY <1>1, <1>2

(***************************************************************************)
(* Type correctness.                                                       *)
(***************************************************************************)
LEMMA TypeOKInit == Init => TypeOK
BY PlasmaAssumption, NullSlotBytes DEF Init, TypeOK, Idle, NoHandle

\* Every step keeps the types.
LEMMA TypeOKStep == TypeOK /\ [Next]_vars => TypeOK'
<1> SUFFICES ASSUME TypeOK, [Next]_vars PROVE TypeOK'
    BY Zenon
<1> USE DEF TypeOK
<1> USE NullSlotBytes
<1>1. CASE UNCHANGED vars
    BY <1>1, Zenon DEF vars
<1>2. ASSUME NEW c \in Clients, NEW i \in Ids, CreateCheck(c, i) PROVE TypeOK'
    BY <1>2, Zenon DEF CreateCheck, ServerSteps
<1>3. ASSUME NEW c \in Clients, NEW i \in Ids, Get(c, i) PROVE TypeOK'
    BY <1>3, Zenon DEF Get
<1>4. ASSUME NEW c \in Clients, NEW i \in Ids, HandleDelete(c, i) PROVE TypeOK'
    BY <1>4, Zenon DEF HandleDelete
<1>5. ASSUME NEW c \in Clients, NEW n \in MetaSizes, CreateAllocMeta(c, n) PROVE TypeOK'
    <2>1. n \in Nat /\ Aligned \in Nat /\ bump' \in 0 .. Capacity
        BY <1>5, PlasmaAssumption, AllocFresh DEF CreateAllocMeta
    <2> QED
        BY <1>5, <2>1, Zenon DEF CreateAllocMeta, Goto, ServerSteps, Slot
<1>6. ASSUME NEW c \in Clients, NEW n \in DataSizes, CreateAllocData(c, n) PROVE TypeOK'
    <2>1. n \in Nat /\ Aligned \in Nat /\ bump' \in 0 .. Capacity
        BY <1>6, PlasmaAssumption, AllocFresh DEF CreateAllocData
    <2> QED
        BY <1>6, <2>1, Zenon DEF CreateAllocData, Goto, ServerSteps, Slot
<1>7. ASSUME NEW c \in Clients, CreateOutOfMemory(c) PROVE TypeOK'
    BY <1>7, Zenon DEF CreateOutOfMemory, Idle
<1>8. ASSUME NEW c \in Clients, CreateInsert(c) PROVE TypeOK'
    BY <1>8, Zenon DEF CreateInsert, Goto, ClientSteps
<1>9. ASSUME NEW c \in Clients, WriteMeta(c) PROVE TypeOK'
    BY <1>9, Zenon DEF WriteMeta, Goto, ClientSteps
<1>10. ASSUME NEW c \in Clients, WriteData(c) PROVE TypeOK'
    BY <1>10, Zenon DEF WriteData, Goto, ClientSteps
<1>11. ASSUME NEW c \in Clients, Seal(c) PROVE TypeOK'
    BY <1>11, Zenon DEF Seal, Idle
<1>12. ASSUME NEW c \in Clients, DropWriteHandle(c) PROVE TypeOK'
    BY <1>12, Zenon DEF DropWriteHandle, Idle
<1>13. ASSUME NEW c \in Clients, DropReadHandle(c) PROVE TypeOK'
    BY <1>13, Zenon DEF DropReadHandle, NoHandle
<1>14. ASSUME NEW c \in Clients, Disconnect(c) PROVE TypeOK'
    BY <1>14, Zenon DEF Disconnect, Idle, NoHandle
<1> QED
    BY <1>1, <1>2, <1>3, <1>4, <1>5, <1>6, <1>7, <1>8, <1>9, <1>10, <1>11, <1>12, <1>13, <1>14,
       Zenon DEF Next

\* The state of the store, its arena and its clients is always well formed.
THEOREM TypeCorrect == Spec => []TypeOK
BY TypeOKInit, TypeOKStep, PTL DEF Spec

-----------------------------------------------------------------------------
(***************************************************************************)
(* No byte has two users.                                                  *)
(***************************************************************************)
LEMMA SlotsOKInit == Init => SlotsOK
BY NullSlotBytes DEF Init, SlotsOK, Allocated, EntriesApart, WritersApart, WriterHasOwnEntry, Idle,
                     NoHandle

\* A step that only gives ranges up, or copies an entry's into a handle.
LEMMA SlotsKept ==
    ASSUME SlotsOK, bump' = bump,
           \A i \in Ids : slot'[i] = slot[i] \/ slot'[i] = NullSlot,
           \A c \in Clients :
               \/ req'[c].slot = NullSlot
               \/ /\ req'[c].slot = req[c].slot /\ req'[c].id = req[c].id
                  /\ req[c].pc \in ClientSteps => req'[c].pc \in ClientSteps,
           \A c \in Clients :
               \/ handle'[c].slot \in {handle[c].slot, NullSlot}
               \/ \E i \in Ids : handle'[c].slot = slot[i]
    PROVE  SlotsOK'
<1> USE NullSlotBytes
<1>1. Allocated'
    BY Zenon DEF SlotsOK, Allocated
<1>2. EntriesApart'
    BY Zenon DEF SlotsOK, EntriesApart
<1>3. WritersApart'
    BY Zenon DEF SlotsOK, WritersApart
<1>4. WriterHasOwnEntry'
    BY DEF SlotsOK, WriterHasOwnEntry
<1> QED
    BY <1>1, <1>2, <1>3, <1>4, Zenon DEF SlotsOK

\* An allocation: one request gets ranges from above the bump pointer, and
\* keeps none or only ones that no entry has.
LEMMA SlotsGrow ==
    ASSUME SlotsOK, slot' = slot, handle' = handle,
           NEW c \in Clients, NEW new, NEW old,
           0 .. bump - 1 \subseteq 0 .. bump' - 1,
           new \subseteq 0 .. bump' - 1, new \cap (0 .. bump - 1) = {},
           old \subseteq Bytes(req[c].slot), req[c].pc \notin ClientSteps,
           Bytes(req'[c].slot) = old \cup new,
           MetaBytes(req'[c].slot) \cap SlotData(req'[c].slot) = {},
           \A d \in Clients : d # c => req'[d] = req[d]
    PROVE  SlotsOK'
<1>1. Allocated'
    BY Zenon DEF SlotsOK, Allocated
<1>2. EntriesApart'
    BY Zenon DEF SlotsOK, EntriesApart
<1>3. WritersApart'
    BY ZenonT(30) DEF SlotsOK, Allocated, WritersApart
<1>4. \A i \in Ids : Bytes(req'[c].slot) \cap Bytes(slot[i]) = {}
    BY Zenon DEF SlotsOK, Allocated, WriterHasOwnEntry
<1>5. WriterHasOwnEntry'
    BY <1>4 DEF SlotsOK, WriterHasOwnEntry
<1> QED
    BY <1>1, <1>2, <1>3, <1>5, Zenon DEF SlotsOK

\* Every step keeps ranges apart.
LEMMA SlotsOKStep == TypeOK /\ SlotsOK /\ [Next]_vars => SlotsOK'
<1> SUFFICES ASSUME TypeOK, SlotsOK, [Next]_vars PROVE SlotsOK'
    BY Zenon
<1>1. CASE UNCHANGED vars
    BY <1>1, SlotsKept, Zenon DEF vars
<1>2. ASSUME NEW c \in Clients, NEW i \in Ids, CreateCheck(c, i) PROVE SlotsOK'
    BY <1>2, SlotsKept, Zenon DEF CreateCheck, TypeOK
<1>3. ASSUME NEW c \in Clients, NEW i \in Ids, Get(c, i) PROVE SlotsOK'
    BY <1>3, SlotsKept, Zenon DEF Get, TypeOK
<1>4. ASSUME NEW c \in Clients, NEW i \in Ids, HandleDelete(c, i) PROVE SlotsOK'
    BY <1>4, SlotsKept, Zenon DEF HandleDelete, TypeOK
<1>5. ASSUME NEW c \in Clients, NEW n \in MetaSizes, CreateAllocMeta(c, n) PROVE SlotsOK'
    <2> DEFINE new == Aligned .. Aligned + n - 1
               s == [moff |-> Aligned, msize |-> n, doff |-> 0, dsize |-> 0]
    <2>1. /\ 0 .. bump - 1 \subseteq 0 .. bump' - 1
          /\ new \subseteq 0 .. bump' - 1
          /\ new \cap (0 .. bump - 1) = {}
        BY <1>5, PlasmaAssumption, AllocFresh DEF CreateAllocMeta, TypeOK
    <2>2. MetaBytes(s) = new /\ SlotData(s) = {} /\ Bytes(s) = {} \cup new
        BY DEF MetaBytes, SlotData, Bytes
    <2>3. /\ req'[c].slot = s
          /\ \A d \in Clients : d # c => req'[d] = req[d]
          /\ slot' = slot /\ handle' = handle /\ req[c].pc \notin ClientSteps
        BY <1>5, Zenon DEF CreateAllocMeta, Goto, ClientSteps, TypeOK
    <2> HIDE DEF new, s
    <2> QED
        BY <2>1, <2>2, <2>3, SlotsGrow, Zenon
<1>6. ASSUME NEW c \in Clients, NEW n \in DataSizes, CreateAllocData(c, n) PROVE SlotsOK'
    <2> DEFINE new == Aligned .. Aligned + n - 1
               old == MetaBytes(req[c].slot)
               s == [moff |-> req[c].slot.moff, msize |-> req[c].slot.msize,
                     doff |-> Aligned, dsize |-> n]
    <2>1. /\ 0 .. bump - 1 \subseteq 0 .. bump' - 1
          /\ new \subseteq 0 .. bump' - 1
          /\ new \cap (0 .. bump - 1) = {}
        BY <1>6, PlasmaAssumption, AllocFresh DEF CreateAllocData, TypeOK
    <2>2. MetaBytes(s) = old /\ SlotData(s) = new /\ Bytes(s) = old \cup new
        BY Zenon DEF MetaBytes, SlotData, Bytes
    <2>3. /\ req'[c].slot = s
          /\ \A d \in Clients : d # c => req'[d] = req[d]
          /\ slot' = slot /\ handle' = handle /\ req[c].pc \notin ClientSteps
        BY <1>6, Zenon DEF CreateAllocData, Goto, ClientSteps, TypeOK
    <2>4. old \subseteq Bytes(req[c].slot)
        BY Zenon DEF Bytes
    <2>5. old \subseteq 0 .. bump - 1
        BY <2>4, Zenon DEF SlotsOK, Allocated
    <2> HIDE DEF new, old, s
    <2>6. MetaBytes(s) \cap SlotData(s) = {}
        BY <2>1, <2>2, <2>5, Zenon
    <2> QED
        BY <2>1, <2>2, <2>3, <2>4, <2>6, SlotsGrow, Zenon
<1>7. ASSUME NEW c \in Clients, CreateOutOfMemory(c) PROVE SlotsOK'
    BY <1>7, SlotsKept, Zenon DEF CreateOutOfMemory, Idle, TypeOK
<1>8. ASSUME NEW c \in Clients, CreateInsert(c) PROVE SlotsOK'
    <2>1. /\ \A d \in Clients : req'[d].slot = req[d].slot /\ req'[d].id = req[d].id
          /\ \A d \in Clients : d # c => req'[d] = req[d]
          /\ req'[c].pc \in ClientSteps
          /\ \A i \in Ids : slot'[i] = IF i = req[c].id THEN req[c].slot ELSE slot[i]
          /\ bump' = bump /\ handle' = handle
        BY <1>8, Zenon DEF CreateInsert, Goto, ClientSteps, TypeOK
    <2>2. Allocated'
        BY <2>1, Zenon DEF SlotsOK, Allocated
    <2>3. \A i \in Ids : i # req[c].id => Bytes(req[c].slot) \cap Bytes(slot[i]) = {}
        BY Zenon DEF SlotsOK, WriterHasOwnEntry
    <2>4. EntriesApart'
        BY <2>1, <2>3 DEF SlotsOK, EntriesApart
    <2>5. WritersApart'
        BY <2>1, Zenon DEF SlotsOK, WritersApart
    <2>6. WriterHasOwnEntry'
        BY <2>1 DEF SlotsOK, WritersApart, WriterHasOwnEntry
    <2> QED
        BY <2>2, <2>4, <2>5, <2>6, Zenon DEF SlotsOK
<1>9. ASSUME NEW c \in Clients, WriteMeta(c) PROVE SlotsOK'
    BY <1>9, SlotsKept, Zenon DEF WriteMeta, Goto, ClientSteps, TypeOK
<1>10. ASSUME NEW c \in Clients, WriteData(c) PROVE SlotsOK'
    BY <1>10, SlotsKept, Zenon DEF WriteData, Goto, ClientSteps, TypeOK
<1>11. ASSUME NEW c \in Clients, Seal(c) PROVE SlotsOK'
    BY <1>11, SlotsKept, Zenon DEF Seal, Idle, TypeOK
<1>12. ASSUME NEW c \in Clients, DropWriteHandle(c) PROVE SlotsOK'
    BY <1>12, SlotsKept, Zenon DEF DropWriteHandle, Idle, TypeOK
<1>13. ASSUME NEW c \in Clients, DropReadHandle(c) PROVE SlotsOK'
    BY <1>13, SlotsKept, Zenon DEF DropReadHandle, NoHandle, TypeOK
<1>14. ASSUME NEW c \in Clients, Disconnect(c) PROVE SlotsOK'
    BY <1>14, SlotsKept, Zenon DEF Disconnect, Idle, NoHandle, TypeOK
<1> QED
    BY <1>1, <1>2, <1>3, <1>4, <1>5, <1>6, <1>7, <1>8, <1>9, <1>10, <1>11, <1>12, <1>13, <1>14,
       Zenon DEF Next

\* The arena never hands the same byte to two objects, whatever the clients
\* do and however their requests interleave.
THEOREM BytesDisjoint == Spec => []SlotsOK
<1>1. Init => TypeOK /\ SlotsOK
    BY TypeOKInit, SlotsOKInit, Zenon
<1>2. (TypeOK /\ SlotsOK) /\ [Next]_vars => (TypeOK /\ SlotsOK)'
    BY TypeOKStep, SlotsOKStep, Zenon
<1> QED
    BY <1>1, <1>2, PTL DEF Spec

-----------------------------------------------------------------------------
(***************************************************************************)
(* Sealed objects are whole and stay whole, when every id has one creator. *)
(* SealedIntact is not inductive: it needs to know how far the writer of   *)
(* an entry has come, that an entry under construction is not sealed, that *)
(* no reader looks at bytes still to be written, and that a handle's bytes *)
(* are whole too.                                                          *)
(***************************************************************************)
Creating ==
    \A c \in Clients : req[c].pc # "idle" =>
        /\ req[c].id \in MayCreate[c]
        /\ req[c].pc \in ServerSteps => status[req[c].id] = "absent"
        /\ req[c].pc \in ClientSteps /\ status[req[c].id] # "absent"
              => status[req[c].id] = "unsealed" /\ slot[req[c].id] = req[c].slot

Written ==
    \A c \in Clients :
        /\ req[c].pc \in {"write_data", "seal"}
              => \A b \in MetaBytes(req[c].slot) : mem[b] = req[c].id
        /\ req[c].pc = "seal"
              => \A b \in SlotData(req[c].slot) : mem[b] = req[c].id

ReadersApart ==
    \A c, d \in Clients : Bytes(handle[c].slot) \cap Bytes(req[d].slot) = {}

HandlesWhole ==
    \A c \in Clients : \A b \in Bytes(handle[c].slot) : mem[b] = handle[c].id

Whole == SealedIntact /\ HandlesWhole

IntactInv == TypeOK /\ SlotsOK /\ Creating /\ Written /\ ReadersApart /\ Whole

\* The invariant holds of an empty store.
LEMMA IntactInit == Init => IntactInv
<1> SUFFICES ASSUME Init PROVE IntactInv
    BY Zenon
<1>1. TypeOK /\ SlotsOK
    BY TypeOKInit, SlotsOKInit, Zenon
<1>2. Creating /\ Written /\ ReadersApart /\ Whole
    BY NullSlotBytes, Zenon DEF Init, Creating, Written, ReadersApart, Whole, SealedIntact,
                                HandlesWhole, Idle, NoHandle
<1> QED
    BY <1>1, <1>2, Zenon DEF IntactInv

\* Two requests for the same id are one request.
LEMMA SoleCreator ==
    ASSUME CreatorsDisjoint, Creating, NEW c \in Clients, NEW d \in Clients,
           req[c].pc # "idle", req[d].pc # "idle", req[c].id = req[d].id
    PROVE  c = d
BY Zenon DEF CreatorsDisjoint, Creating

\* A create in progress stays the only one of its id.
LEMMA CreatingStep == CreatorsDisjoint /\ IntactInv /\ [Next]_vars => Creating'
<1> SUFFICES ASSUME CreatorsDisjoint, IntactInv, [Next]_vars PROVE Creating'
    BY Zenon
<1> USE DEF IntactInv, Creating, ServerSteps, ClientSteps
<1>1. CASE UNCHANGED vars
    BY <1>1, Zenon DEF vars
<1>2. ASSUME NEW c \in Clients, NEW i \in Ids, CreateCheck(c, i) PROVE Creating'
    BY <1>2, Zenon DEF CreateCheck, TypeOK
<1>3. ASSUME NEW c \in Clients, NEW i \in Ids, Get(c, i) PROVE Creating'
    BY <1>3, Zenon DEF Get
<1>4. ASSUME NEW c \in Clients, NEW i \in Ids, HandleDelete(c, i) PROVE Creating'
    BY <1>4 DEF HandleDelete, TypeOK
<1>5. ASSUME NEW c \in Clients, NEW n \in MetaSizes, CreateAllocMeta(c, n) PROVE Creating'
    BY <1>5, Zenon DEF CreateAllocMeta, Goto, TypeOK
<1>6. ASSUME NEW c \in Clients, NEW n \in DataSizes, CreateAllocData(c, n) PROVE Creating'
    BY <1>6, Zenon DEF CreateAllocData, Goto, TypeOK
<1>7. ASSUME NEW c \in Clients, CreateOutOfMemory(c) PROVE Creating'
    BY <1>7, Zenon DEF CreateOutOfMemory, Idle, TypeOK
<1>8. ASSUME NEW c \in Clients, CreateInsert(c) PROVE Creating'
    <2>1. \A d \in Clients : d # c /\ req[d].pc # "idle" => req[d].id # req[c].id
        BY <1>8, SoleCreator, Zenon DEF CreateInsert
    <2>2. req[c].id \in Ids
        BY <1>8, PlasmaAssumption, Zenon DEF CreateInsert
    <2> QED
        BY <1>8, <2>1 DEF CreateInsert, Goto, TypeOK
<1>9. ASSUME NEW c \in Clients, WriteMeta(c) PROVE Creating'
    BY <1>9, Zenon DEF WriteMeta, Goto, TypeOK
<1>10. ASSUME NEW c \in Clients, WriteData(c) PROVE Creating'
    BY <1>10, Zenon DEF WriteData, Goto, TypeOK
<1>11. ASSUME NEW c \in Clients, Seal(c) PROVE Creating'
    <2>1. \A d \in Clients : d # c /\ req[d].pc # "idle" => req[d].id # req[c].id
        BY <1>11, SoleCreator, Zenon DEF Seal
    <2>2. /\ req'[c].pc = "idle" /\ slot' = slot
          /\ \A d \in Clients : d # c => req'[d] = req[d]
        BY <1>11, Zenon DEF Seal, Idle, TypeOK
    <2>3. \A i \in Ids : i # req[c].id => status'[i] = status[i]
        BY <1>11, Zenon DEF Seal, TypeOK
    <2>4. \A d \in Clients : req[d].pc # "idle" => req[d].id \in Ids
        BY PlasmaAssumption, Zenon
    <2> QED
        BY <2>1, <2>2, <2>3, <2>4
<1>12. ASSUME NEW c \in Clients, DropWriteHandle(c) PROVE Creating'
    BY <1>12, Zenon DEF DropWriteHandle, Idle, TypeOK
<1>13. ASSUME NEW c \in Clients, DropReadHandle(c) PROVE Creating'
    BY <1>13, Zenon DEF DropReadHandle
<1>14. ASSUME NEW c \in Clients, Disconnect(c) PROVE Creating'
    BY <1>14, Zenon DEF Disconnect, Idle, TypeOK
<1> QED
    BY <1>1, <1>2, <1>3, <1>4, <1>5, <1>6, <1>7, <1>8, <1>9, <1>10, <1>11, <1>12, <1>13, <1>14,
       Zenon DEF Next

\* A handle is only given out on an entry whose writer has finished.
LEMMA ReadersApartStep == IntactInv /\ [Next]_vars => ReadersApart'
<1> SUFFICES ASSUME IntactInv, [Next]_vars PROVE ReadersApart'
    BY Zenon
<1> USE NullSlotBytes DEF IntactInv, ReadersApart
<1>1. CASE UNCHANGED vars
    BY <1>1, Zenon DEF vars
<1>2. ASSUME NEW c \in Clients, NEW i \in Ids, CreateCheck(c, i) PROVE ReadersApart'
    BY <1>2, Zenon DEF CreateCheck, TypeOK
<1>3. ASSUME NEW c \in Clients, NEW i \in Ids, Get(c, i) PROVE ReadersApart'
    <2>1. \A d \in Clients : Bytes(req[d].slot) \cap Bytes(slot[i]) = {}
        <3> SUFFICES ASSUME NEW d \in Clients, Bytes(req[d].slot) \cap Bytes(slot[i]) # {}
                     PROVE  FALSE
            BY Zenon
        <3>1. req[d].id = i /\ req[d].pc \in ClientSteps
            BY Zenon DEF SlotsOK, WriterHasOwnEntry
        <3>2. status[i] = "sealed"
            BY <1>3, Zenon DEF Get
        <3> QED
            BY <3>1, <3>2, Zenon DEF Creating, ClientSteps
    <2> QED
        BY <1>3, <2>1, Zenon DEF Get, TypeOK
<1>4. ASSUME NEW c \in Clients, NEW i \in Ids, HandleDelete(c, i) PROVE ReadersApart'
    BY <1>4, Zenon DEF HandleDelete
<1>5. ASSUME NEW c \in Clients, NEW n \in MetaSizes, CreateAllocMeta(c, n) PROVE ReadersApart'
    <2> DEFINE new == Aligned .. Aligned + n - 1
    <2>1. new \cap (0 .. bump - 1) = {}
        BY <1>5, PlasmaAssumption, AllocFresh DEF CreateAllocMeta, TypeOK
    <2>2. Bytes(req'[c].slot) = new
        BY <1>5 DEF CreateAllocMeta, Goto, TypeOK, MetaBytes, SlotData, Bytes
    <2>3. handle' = handle /\ \A d \in Clients : d # c => req'[d] = req[d]
        BY <1>5, Zenon DEF CreateAllocMeta, Goto, TypeOK
    <2> HIDE DEF new
    <2> QED
        BY <2>1, <2>2, <2>3, Zenon DEF SlotsOK, Allocated
<1>6. ASSUME NEW c \in Clients, NEW n \in DataSizes, CreateAllocData(c, n) PROVE ReadersApart'
    <2> DEFINE new == Aligned .. Aligned + n - 1
    <2>1. new \cap (0 .. bump - 1) = {}
        BY <1>6, PlasmaAssumption, AllocFresh DEF CreateAllocData, TypeOK
    <2>2. Bytes(req'[c].slot) \subseteq Bytes(req[c].slot) \cup new
        BY <1>6, Zenon DEF CreateAllocData, Goto, TypeOK, MetaBytes, SlotData, Bytes
    <2>3. handle' = handle /\ \A d \in Clients : d # c => req'[d] = req[d]
        BY <1>6, Zenon DEF CreateAllocData, Goto, TypeOK
    <2> HIDE DEF new
    <2> QED
        BY <2>1, <2>2, <2>3, Zenon DEF SlotsOK, Allocated
<1>7. ASSUME NEW c \in Clients, CreateOutOfMemory(c) PROVE ReadersApart'
    BY <1>7, Zenon DEF CreateOutOfMemory, Idle, TypeOK
<1>8. ASSUME NEW c \in Clients, CreateInsert(c) PROVE ReadersApart'
    BY <1>8, Zenon DEF CreateInsert, Goto, TypeOK
<1>9. ASSUME NEW c \in Clients, WriteMeta(c) PROVE ReadersApart'
    BY <1>9, Zenon DEF WriteMeta, Goto, TypeOK
<1>10. ASSUME NEW c \in Clients, WriteData(c) PROVE ReadersApart'
    BY <1>10, Zenon DEF WriteData, Goto, TypeOK
<1>11. ASSUME NEW c \in Clients, Seal(c) PROVE ReadersApart'
    BY <1>11, Zenon DEF Seal, Idle, TypeOK
<1>12. ASSUME NEW c \in Clients, DropWriteHandle(c) PROVE ReadersApart'
    BY <1>12, Zenon DEF DropWriteHandle, Idle, TypeOK
<1>13. ASSUME NEW c \in Clients, DropReadHandle(c) PROVE ReadersApart'
    BY <1>13, Zenon DEF DropReadHandle, NoHandle, TypeOK
<1>14. ASSUME NEW c \in Clients, Disconnect(c) PROVE ReadersApart'
    BY <1>14, Zenon DEF Disconnect, Idle, NoHandle, TypeOK
<1> QED
    BY <1>1, <1>2, <1>3, <1>4, <1>5, <1>6, <1>7, <1>8, <1>9, <1>10, <1>11, <1>12, <1>13, <1>14,
       Zenon DEF Next

\* What a client writes, it writes into its own ranges.
LEMMA OnlyOwnBytes ==
    ASSUME IntactInv, NEW c \in Clients, NEW range \in SUBSET Bytes(req[c].slot),
           \A b \in Arena : mem'[b] = IF b \in range THEN req[c].id ELSE mem[b]
    PROVE  /\ \A b \in range : mem'[b] = req[c].id
           /\ \A i \in Ids : i # req[c].id =>
                 \A b \in Bytes(slot[i]) : mem'[b] = mem[b]
           /\ \A d \in Clients : d # c => \A b \in Bytes(req[d].slot) : mem'[b] = mem[b]
           /\ \A d \in Clients : \A b \in Bytes(handle[d].slot) : mem'[b] = mem[b]
           /\ \A b \in Bytes(req[c].slot) \ range : mem'[b] = mem[b]
<1>1. 0 .. bump - 1 \subseteq Arena
    BY PlasmaAssumption DEF IntactInv, TypeOK, Arena
<1>2. /\ \A d \in Clients : Bytes(req[d].slot) \subseteq Arena
      /\ \A d \in Clients : Bytes(handle[d].slot) \subseteq Arena
      /\ \A i \in Ids : Bytes(slot[i]) \subseteq Arena
    BY <1>1, Zenon DEF IntactInv, SlotsOK, Allocated
<1>3. \A i \in Ids : i # req[c].id => range \cap Bytes(slot[i]) = {}
    BY DEF IntactInv, SlotsOK, WriterHasOwnEntry
<1>4. \A d \in Clients : d # c => range \cap Bytes(req[d].slot) = {}
    BY Zenon DEF IntactInv, SlotsOK, WritersApart
<1>5. \A d \in Clients : range \cap Bytes(handle[d].slot) = {}
    BY Zenon DEF IntactInv, ReadersApart
<1> QED
    BY <1>2, <1>3, <1>4, <1>5, Zenon

\* What a create has passed stays written: no other range overlaps it.
LEMMA WrittenStep == IntactInv /\ [Next]_vars => Written'
<1> SUFFICES ASSUME IntactInv, [Next]_vars PROVE Written'
    BY Zenon
<1> USE DEF IntactInv, Written
<1>1. CASE UNCHANGED vars
    BY <1>1, Zenon DEF vars
<1>2. ASSUME NEW c \in Clients, NEW i \in Ids, CreateCheck(c, i) PROVE Written'
    BY <1>2, Zenon DEF CreateCheck, TypeOK
<1>3. ASSUME NEW c \in Clients, NEW i \in Ids, Get(c, i) PROVE Written'
    BY <1>3, Zenon DEF Get
<1>4. ASSUME NEW c \in Clients, NEW i \in Ids, HandleDelete(c, i) PROVE Written'
    BY <1>4, Zenon DEF HandleDelete
<1>5. ASSUME NEW c \in Clients, NEW n \in MetaSizes, CreateAllocMeta(c, n) PROVE Written'
    BY <1>5, Zenon DEF CreateAllocMeta, Goto, TypeOK
<1>6. ASSUME NEW c \in Clients, NEW n \in DataSizes, CreateAllocData(c, n) PROVE Written'
    BY <1>6, Zenon DEF CreateAllocData, Goto, TypeOK
<1>7. ASSUME NEW c \in Clients, CreateOutOfMemory(c) PROVE Written'
    BY <1>7, Zenon DEF CreateOutOfMemory, Idle, TypeOK
<1>8. ASSUME NEW c \in Clients, CreateInsert(c) PROVE Written'
    BY <1>8, Zenon DEF CreateInsert, Goto, TypeOK
<1>9. ASSUME NEW c \in Clients, WriteMeta(c) PROVE Written'
    <2> DEFINE range == MetaBytes(req[c].slot)
    <2>1. range \in SUBSET Bytes(req[c].slot)
        BY Zenon DEF Bytes
    <2>2. /\ \A b \in range : mem'[b] = req[c].id
          /\ \A d \in Clients : d # c => \A b \in Bytes(req[d].slot) : mem'[b] = mem[b]
        <3>1. \A b \in Arena : mem'[b] = IF b \in range THEN req[c].id ELSE mem[b]
            BY <1>9, Zenon DEF WriteMeta
        <3> HIDE DEF range
        <3> QED
            BY <2>1, <3>1, OnlyOwnBytes, ZenonT(30)
    <2>3. /\ req'[c].pc = "write_data" /\ req'[c].slot = req[c].slot /\ req'[c].id = req[c].id
          /\ \A d \in Clients : d # c => req'[d] = req[d]
        BY <1>9, Zenon DEF WriteMeta, Goto, TypeOK
    <2>4. ASSUME NEW d \in Clients, d # c
          PROVE  /\ req'[d].pc \in {"write_data", "seal"}
                       => \A b \in MetaBytes(req'[d].slot) : mem'[b] = req'[d].id
                 /\ req'[d].pc = "seal"
                       => \A b \in SlotData(req'[d].slot) : mem'[b] = req'[d].id
        <3>1. req'[d] = req[d]
            BY <2>4, <2>3, Zenon
        <3>2. \A b \in MetaBytes(req[d].slot) \cup SlotData(req[d].slot) : mem'[b] = mem[b]
            BY <2>4, <2>2, Zenon DEF Bytes
        <3> QED
            BY <3>1, <3>2
    <2>5. \A b \in MetaBytes(req'[c].slot) : mem'[b] = req'[c].id
        BY <2>2, <2>3, Zenon
    <2> QED
        BY <2>3, <2>4, <2>5, Zenon
<1>10. ASSUME NEW c \in Clients, WriteData(c) PROVE Written'
    <2> DEFINE range == SlotData(req[c].slot)
    <2>1. range \in SUBSET Bytes(req[c].slot)
        BY Zenon DEF Bytes
    <2>2. /\ \A b \in range : mem'[b] = req[c].id
          /\ \A d \in Clients : d # c => \A b \in Bytes(req[d].slot) : mem'[b] = mem[b]
          /\ \A b \in Bytes(req[c].slot) \ range : mem'[b] = mem[b]
        <3>1. \A b \in Arena : mem'[b] = IF b \in range THEN req[c].id ELSE mem[b]
            BY <1>10, Zenon DEF WriteData
        <3> HIDE DEF range
        <3> QED
            BY <2>1, <3>1, OnlyOwnBytes, ZenonT(30)
    <2>3. /\ req'[c].pc = "seal" /\ req'[c].slot = req[c].slot /\ req'[c].id = req[c].id
          /\ req[c].pc = "write_data"
          /\ \A d \in Clients : d # c => req'[d] = req[d]
        BY <1>10, Zenon DEF WriteData, Goto, TypeOK
    <2>4. \A b \in MetaBytes(req[c].slot) : mem'[b] = req[c].id
        BY <2>2, <2>3, Zenon DEF Bytes
    <2>5. ASSUME NEW d \in Clients, d # c
          PROVE  /\ req'[d].pc \in {"write_data", "seal"}
                       => \A b \in MetaBytes(req'[d].slot) : mem'[b] = req'[d].id
                 /\ req'[d].pc = "seal"
                       => \A b \in SlotData(req'[d].slot) : mem'[b] = req'[d].id
        <3>1. req'[d] = req[d]
            BY <2>5, <2>3, Zenon
        <3>2. \A b \in MetaBytes(req[d].slot) \cup SlotData(req[d].slot) : mem'[b] = mem[b]
            BY <2>5, <2>2, Zenon DEF Bytes
        <3> QED
            BY <3>1, <3>2
    <2>6. /\ \A b \in MetaBytes(req'[c].slot) : mem'[b] = req'[c].id
          /\ \A b \in SlotData(req'[c].slot) : mem'[b] = req'[c].id
        BY <2>2, <2>3, <2>4, Zenon
    <2> QED
        BY <2>5, <2>6, Zenon
<1>11. ASSUME NEW c \in Clients, Seal(c) PROVE Written'
    BY <1>11, Zenon DEF Seal, Idle, TypeOK
<1>12. ASSUME NEW c \in Clients, DropWriteHandle(c) PROVE Written'
    BY <1>12, Zenon DEF DropWriteHandle, Idle, TypeOK
<1>13. ASSUME NEW c \in Clients, DropReadHandle(c) PROVE Written'
    BY <1>13, Zenon DEF DropReadHandle
<1>14. ASSUME NEW c \in Clients, Disconnect(c) PROVE Written'
    BY <1>14, Zenon DEF Disconnect, Idle, TypeOK
<1> QED
    BY <1>1, <1>2, <1>3, <1>4, <1>5, <1>6, <1>7, <1>8, <1>9, <1>10, <1>11, <1>12, <1>13, <1>14,
       Zenon DEF Next

\* A write changes no byte of a sealed entry nor of a read handle.
LEMMA WriteFrame ==
    ASSUME IntactInv, NEW c \in Clients, WriteMeta(c) \/ WriteData(c)
    PROVE  /\ \A i \in Ids : status[i] = "sealed" =>
                 \A b \in Bytes(slot[i]) : mem'[b] = mem[b]
           /\ \A d \in Clients : \A b \in Bytes(handle[d].slot) : mem'[b] = mem[b]
<1> DEFINE range == IF req[c].pc = "write_meta" THEN MetaBytes(req[c].slot)
                                                ELSE SlotData(req[c].slot)
<1>1. range \in SUBSET Bytes(req[c].slot)
    BY Zenon DEF Bytes
<1>2. \A b \in Arena : mem'[b] = IF b \in range THEN req[c].id ELSE mem[b]
    BY Zenon DEF WriteMeta, WriteData
<1>3. status[req[c].id] # "sealed"
    BY Zenon DEF WriteMeta, WriteData, IntactInv, Creating, ClientSteps
<1> HIDE DEF range
<1> QED
    BY <1>1, <1>2, <1>3, OnlyOwnBytes, Zenon

\* Steps that write nothing and seal nothing.
LEMMA WholeFrame ==
    ASSUME Whole, UNCHANGED mem,
           \A i \in Ids : status'[i] = "sealed" => status[i] = "sealed" /\ slot'[i] = slot[i],
           \A c \in Clients : \/ handle'[c] = handle[c]
                              \/ handle'[c].slot = NullSlot
    PROVE  Whole'
BY NullSlotBytes DEF Whole, SealedIntact, HandlesWhole

\* Only a written entry is sealed, and only a sealed one is handed out.
LEMMA WholeStep == IntactInv /\ [Next]_vars => Whole'
<1> SUFFICES ASSUME IntactInv, [Next]_vars PROVE Whole'
    BY Zenon
<1>0. TypeOK /\ Whole
    BY Zenon DEF IntactInv
<1>1. CASE UNCHANGED vars
    BY <1>0, <1>1, WholeFrame, Zenon DEF vars
<1>2. ASSUME NEW c \in Clients, NEW i \in Ids, CreateCheck(c, i) PROVE Whole'
    BY <1>0, <1>2, WholeFrame, Zenon DEF CreateCheck
<1>3. ASSUME NEW c \in Clients, NEW i \in Ids, Get(c, i) PROVE Whole'
    <2>1. /\ handle'[c] = [id |-> i, slot |-> slot[i]]
          /\ \A d \in Clients : d # c => handle'[d] = handle[d]
          /\ status[i] = "sealed" /\ UNCHANGED <<mem, status, slot>>
        BY <1>0, <1>3, Zenon DEF Get, TypeOK
    <2> QED
        BY <1>0, <2>1 DEF Whole, SealedIntact, HandlesWhole
<1>4. ASSUME NEW c \in Clients, NEW i \in Ids, HandleDelete(c, i) PROVE Whole'
    BY <1>0, <1>4, WholeFrame, Zenon DEF HandleDelete, TypeOK
<1>5. ASSUME NEW c \in Clients, NEW n \in MetaSizes, CreateAllocMeta(c, n) PROVE Whole'
    BY <1>0, <1>5, WholeFrame, Zenon DEF CreateAllocMeta
<1>6. ASSUME NEW c \in Clients, NEW n \in DataSizes, CreateAllocData(c, n) PROVE Whole'
    BY <1>0, <1>6, WholeFrame, Zenon DEF CreateAllocData
<1>7. ASSUME NEW c \in Clients, CreateOutOfMemory(c) PROVE Whole'
    BY <1>0, <1>7, WholeFrame, Zenon DEF CreateOutOfMemory
<1>8. ASSUME NEW c \in Clients, CreateInsert(c) PROVE Whole'
    BY <1>0, <1>8, WholeFrame, Zenon DEF CreateInsert, TypeOK
<1>9. ASSUME NEW c \in Clients, WriteMeta(c) PROVE Whole'
    <2>1. UNCHANGED <<status, slot, handle>>
        BY <1>9, Zenon DEF WriteMeta
    <2> QED
        BY <1>0, <1>9, <2>1, WriteFrame, Zenon DEF Whole, SealedIntact, HandlesWhole
<1>10. ASSUME NEW c \in Clients, WriteData(c) PROVE Whole'
    <2>1. UNCHANGED <<status, slot, handle>>
        BY <1>10, Zenon DEF WriteData
    <2> QED
        BY <1>0, <1>10, <2>1, WriteFrame, Zenon DEF Whole, SealedIntact, HandlesWhole
<1>11. ASSUME NEW c \in Clients, Seal(c) PROVE Whole'
    <2>1. UNCHANGED <<mem, slot, handle>> /\ req[c].pc = "seal"
        BY <1>11, Zenon DEF Seal
    <2>2. \A b \in Bytes(req[c].slot) : mem[b] = req[c].id
        BY <2>1, Zenon DEF IntactInv, Written, Bytes
    <2>3. \A i \in Ids : status'[i] = "sealed" /\ status[i] # "sealed"
                            => i = req[c].id /\ status[i] = "unsealed"
        BY <1>0, <1>11, Zenon DEF Seal, TypeOK
    <2>4. status[req[c].id] = "unsealed" => slot[req[c].id] = req[c].slot
        BY <2>1, Zenon DEF IntactInv, Creating, ClientSteps
    <2> QED
        BY <1>0, <2>1, <2>2, <2>3, <2>4, Zenon DEF Whole, SealedIntact, HandlesWhole
<1>12. ASSUME NEW c \in Clients, DropWriteHandle(c) PROVE Whole'
    BY <1>0, <1>12, WholeFrame, Zenon DEF DropWriteHandle
<1>13. ASSUME NEW c \in Clients, DropReadHandle(c) PROVE Whole'
    BY <1>0, <1>13, WholeFrame, Zenon DEF DropReadHandle, NoHandle, TypeOK
<1>14. ASSUME NEW c \in Clients, Disconnect(c) PROVE Whole'
    BY <1>0, <1>14, WholeFrame, Zenon DEF Disconnect, NoHandle, TypeOK
<1> QED
    BY <1>1, <1>2, <1>3, <1>4, <1>5, <1>6, <1>7, <1>8, <1>9, <1>10, <1>11, <1>12, <1>13, <1>14,
       Zenon DEF Next

\* Every step keeps the invariant.
LEMMA IntactStep == CreatorsDisjoint /\ IntactInv /\ [Next]_vars => IntactInv'
<1> SUFFICES ASSUME CreatorsDisjoint, IntactInv, [Next]_vars PROVE IntactInv'
    BY Zenon
<1>1. TypeOK /\ SlotsOK
    BY Zenon DEF IntactInv
<1>2. TypeOK' /\ SlotsOK'
    BY <1>1, TypeOKStep, SlotsOKStep, Zenon
<1>3. Creating' /\ Written' /\ ReadersApart' /\ Whole'
    BY CreatingStep, WrittenStep, ReadersApartStep, WholeStep, Zenon
<1> QED
    BY <1>2, <1>3, Zenon DEF IntactInv

\* So the invariant always holds.
LEMMA IntactAlways == ASSUME CreatorsDisjoint PROVE Spec => []IntactInv
<1>1. IntactInv /\ [Next]_vars => IntactInv'
    BY IntactStep, Zenon
<1> QED
    BY <1>1, IntactInit, PTL DEF Spec

\* A sealed entry is complete, as long as no two connections create the same id
\* (client.rs seal: "Mark an object immutable").
THEOREM SealedIsWhole == ASSUME CreatorsDisjoint PROVE Spec => []SealedIntact
<1>1. IntactInv => SealedIntact
    BY Zenon DEF IntactInv, Whole
<1> QED
    BY <1>1, IntactAlways, PTL

\* A write touches no reader's bytes.
LEMMA HandleStepLemma == IntactInv /\ [Next]_vars => HandleStep
<1> SUFFICES ASSUME IntactInv, [Next]_vars PROVE HandleStep
    BY Zenon
<1>1. CASE UNCHANGED mem
    BY <1>1, Zenon DEF HandleStep
<1>2. ASSUME NEW c \in Clients, WriteMeta(c) \/ WriteData(c) PROVE HandleStep
    BY <1>2, WriteFrame, Zenon DEF HandleStep
<1>3. UNCHANGED mem \/ \E c \in Clients : WriteMeta(c) \/ WriteData(c)
    BY Zenon DEF vars, Next, CreateCheck, Get, HandleDelete, CreateAllocMeta, CreateAllocData,
                 CreateOutOfMemory, CreateInsert, Seal, DropWriteHandle, DropReadHandle, Disconnect
<1> QED
    BY <1>1, <1>2, <1>3, Zenon

\* The bytes under a read handle never change, for as long as it is held and
\* even after the object has been deleted.
THEOREM HandlesImmutable == ASSUME CreatorsDisjoint PROVE Spec => HandleStable
<1>1. IntactInv /\ [Next]_vars => [HandleStep]_vars
    BY HandleStepLemma, Zenon
<1> QED
    BY <1>1, IntactAlways, PTL DEF Spec, HandleStable

-----------------------------------------------------------------------------
(***************************************************************************)
(* The store implements ObjectStore.  Under IntactInv a reader's view is   *)
(* the id in its handle, so that every step is read off its action.        *)
(***************************************************************************)
View == [c \in Clients |-> ViewOf(handle[c])]

\* A whole handle is a view of its own object.
LEMMA ViewIsId ==
    ASSUME Whole
    PROVE  View = [c \in Clients |-> handle[c].id]
BY Zenon DEF Whole, HandlesWhole, View, ViewOf

\* The empty store is an initial state of the abstract one.
LEMMA RefineInit == Init => Promise!Init
<1> SUFFICES ASSUME Init PROVE Promise!Init
    BY Zenon
<1>1. Whole
    BY IntactInit, Zenon DEF IntactInv
<1>2. View = [c \in Clients |-> NoId]
    BY <1>1, ViewIsId, Zenon DEF Init, NoHandle
<1> QED
    BY <1>2, Zenon DEF Init, View, Promise!Init

\* Every step is a step of the abstract store or a stutter.
LEMMA RefineStep ==
    IntactInv /\ IntactInv' /\ [Next]_vars => [Promise!Next]_(Promise!vars)
<1> SUFFICES ASSUME IntactInv, IntactInv', [Next]_vars
             PROVE  Promise!Next \/ UNCHANGED <<status, View>>
    BY Zenon DEF Promise!vars, View
<1>0. TypeOK
    BY Zenon DEF IntactInv
<1>v. /\ View = [c \in Clients |-> handle[c].id]
      /\ View' = [c \in Clients |-> handle'[c].id]
    BY Zenon DEF IntactInv, Whole, HandlesWhole, View, ViewOf
<1> DEFINE Goal == Promise!Next \/ UNCHANGED <<status, View>>
<1>1. ASSUME UNCHANGED <<status, handle>> PROVE Goal
    BY <1>1, <1>v, Zenon
<1>2. ASSUME NEW i \in Ids, UNCHANGED handle,
             \/ status[i] = "absent" /\ status' = [status EXCEPT ![i] = "unsealed"]
             \/ status[i] = "unsealed" /\ status' = [status EXCEPT ![i] = "sealed"]
             \/ status' = [status EXCEPT ![i] = "absent"]
      PROVE  Goal
    <2>1. UNCHANGED View
        BY <1>2, <1>v, Zenon
    <2> QED
        BY <1>2, <2>1, Zenon DEF View, Promise!Next, Promise!Create, Promise!Seal, Promise!Delete
<1>3. ASSUME NEW c \in Clients, UNCHANGED status, handle' = [handle EXCEPT ![c] = NoHandle]
      PROVE  Goal
    <2>1. View' = [View EXCEPT ![c] = NoId]
        BY <1>0, <1>3, <1>v, Zenon DEF NoHandle, TypeOK
    <2> QED
        BY <1>3, <2>1, Zenon DEF View, Promise!Next, Promise!Drop
<1>4. ASSUME NEW c \in Clients, NEW i \in Ids, Get(c, i) PROVE Goal
    <2>1. View' = [View EXCEPT ![c] = i]
        BY <1>0, <1>4, <1>v, Zenon DEF Get, TypeOK
    <2> QED
        BY <1>4, <2>1, Zenon DEF Get, View, Promise!Next, Promise!Get
<1>5. ASSUME NEW c \in Clients, NEW i \in Ids, CreateCheck(c, i) PROVE Goal
    BY <1>5, <1>1, Zenon DEF CreateCheck
<1>6. ASSUME NEW c \in Clients, NEW i \in Ids, HandleDelete(c, i) PROVE Goal
    BY <1>6, <1>2, Zenon DEF HandleDelete
<1>7. ASSUME NEW c \in Clients, NEW n \in MetaSizes, CreateAllocMeta(c, n) PROVE Goal
    BY <1>7, <1>1, Zenon DEF CreateAllocMeta
<1>8. ASSUME NEW c \in Clients, NEW n \in DataSizes, CreateAllocData(c, n) PROVE Goal
    BY <1>8, <1>1, Zenon DEF CreateAllocData
<1>9. ASSUME NEW c \in Clients, CreateOutOfMemory(c) PROVE Goal
    BY <1>9, <1>1, Zenon DEF CreateOutOfMemory
<1>10. ASSUME NEW c \in Clients, CreateInsert(c) PROVE Goal
    <2>1. req[c].id \in Ids /\ status[req[c].id] = "absent"
        BY <1>10, PlasmaAssumption, Zenon DEF CreateInsert, IntactInv, Creating, ServerSteps
    <2> QED
        BY <1>10, <2>1, <1>2, Zenon DEF CreateInsert
<1>11. ASSUME NEW c \in Clients, WriteMeta(c) PROVE Goal
    BY <1>11, <1>1, Zenon DEF WriteMeta
<1>12. ASSUME NEW c \in Clients, WriteData(c) PROVE Goal
    BY <1>12, <1>1, Zenon DEF WriteData
<1>13. ASSUME NEW c \in Clients, Seal(c) PROVE Goal
    <2>1. req[c].id \in Ids
        BY <1>13, PlasmaAssumption, Zenon DEF Seal, IntactInv, Creating
    <2> QED
        BY <1>13, <2>1, <1>1, <1>2, Zenon DEF Seal
<1>14. ASSUME NEW c \in Clients, DropWriteHandle(c) PROVE Goal
    BY <1>14, <1>1, Zenon DEF DropWriteHandle
<1>15. ASSUME NEW c \in Clients, DropReadHandle(c) PROVE Goal
    BY <1>15, <1>3, Zenon DEF DropReadHandle
<1>16. ASSUME NEW c \in Clients, Disconnect(c) PROVE Goal
    BY <1>16, <1>3, Zenon DEF Disconnect
<1>17. CASE UNCHANGED vars
    BY <1>17, <1>1, Zenon DEF vars
<1> QED
    BY <1>4, <1>5, <1>6, <1>7, <1>8, <1>9, <1>10, <1>11, <1>12, <1>13, <1>14, <1>15, <1>16, <1>17,
       Zenon DEF Next

\* The plasma store keeps the promise of ObjectStore: with one creator per id,
\* a sealed object is never seen unsealed, half written or overwritten.
THEOREM ImplementsObjectStore == ASSUME CreatorsDisjoint PROVE Spec => Refinement
<1>1. IntactInv /\ IntactInv' /\ [Next]_vars => [Promise!Next]_(Promise!vars)
    BY RefineStep, Zenon
<1> QED
    BY <1>1, RefineInit, IntactAlways, PTL DEF Spec, Refinement, Promise!Spec
=============================================================================
