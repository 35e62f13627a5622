------------------------- MODULE ObjectBytesProofs --------------------------
(***************************************************************************)
(* More proofs about ObjectLifecycle, from its invariant Inv: every copy   *)
(* of an object is whole, a get of a held object returns it, and an        *)
(* unpinned object leaves the index and the shared memory.                 *)
(*                                                                         *)
(* Two invariants are added, each inductive relative to Inv.  Intact says  *)
(* what the bytes in tables, files and hands are, away from the ids on     *)
(* which the two connections met; Tidy says who is on the way to sweep an  *)
(* object that lost its last pin.                                          *)
(***************************************************************************)
EXTENDS ObjectLifecycleProofs

-----------------------------------------------------------------------------
(* What the bytes are.                                                     *)

\* The entry exists and is not sealed yet.
Writing == {"write", "seal"}

\* Away from the ids on which the connections met, copies are whole, and an
\* unsealed entry has its writer.
CopyOK(i) ==
    i \notin met =>
        /\ Whole(i)
        /\ plasma[i].st = "unsealed" => \E q \in Procs : obj[q] = i /\ pc[q] \in Writing /\ plasma[i].by = q

\* Bytes in hand are whole; a driver's get does not fail; a process that copies
\* is the only one, and its entry is its own (a raylet's may have been freed).
HandOK(p) ==
    /\ pc[p] \notin {"spill_file", "spill_dir"} \cup GetSteps \cup Outcomes => buf[p] = "none"
    /\ obj[p] \notin met =>
          /\ buf[p] # "torn"
          /\ pc[p] = "got" => buf[p] = "whole"
          /\ pc[p] = "failed" => p \in Pullers
          /\ pc[p] = "insert" => plasma[obj[p]].st = "absent"
          /\ pc[p] \in Writing =>
                \/ /\ plasma[obj[p]].st = "unsealed" /\ plasma[obj[p]].by = p
                   /\ pc[p] = "seal" => plasma[obj[p]].bytes = "whole"
                \/ p \in Pullers /\ plasma[obj[p]].st = "absent"
          /\ pc[p] \in Copying =>
                \A q \in Procs : obj[q] = obj[p] /\ pc[q] \in Copying => q = p

\* Bytes are what they should be.
Intact ==
    /\ down => met = Ids
    /\ \A i \in Ids : CopyOK(i)
    /\ \A p \in Procs : HandOK(p)

\* Nothing is copied at first.
LEMMA IntactInit == Init => Intact
BY DEF Init, Intact, CopyOK, HandOK, Whole, Absent, Writing, Copying

\* Steps that leave plasma alone, by a process that does not write.
LEMMA HandsOff ==
    ASSUME Inv, Inv', Intact, NEW p, Frame(p), plasma' = plasma, met \subseteq met', down' => met' = Ids,
           p \in Procs => HandOK(p)' /\ pc[p] \notin Writing /\ pc'[p] \notin Copying,
           \A i \in Ids : i \notin met' /\ file'[i] = "torn" => file[i] = "torn"
    PROVE  Intact'
<1>1. ASSUME NEW i \in Ids PROVE CopyOK(i)'
    <2> SUFFICES ASSUME i \notin met' PROVE Whole(i)' /\ (plasma'[i].st = "unsealed" =>
                    \E q \in Procs : obj'[q] = i /\ pc'[q] \in Writing /\ plasma'[i].by = q)
        BY Zenon DEF CopyOK
    <2>1. i \notin met /\ CopyOK(i)
        BY Zenon DEF Intact
    <2>2. Whole(i)'
        BY <2>1, Zenon DEF CopyOK, Whole
    <2>3. ASSUME plasma'[i].st = "unsealed"
          PROVE  \E q \in Procs : obj'[q] = i /\ pc'[q] \in Writing /\ plasma'[i].by = q
        <3>1. PICK q \in Procs : obj[q] = i /\ pc[q] \in Writing /\ plasma[i].by = q
            BY <2>1, <2>3, Zenon DEF CopyOK
        <3>2. q # p
            BY <3>1, Zenon
        <3> QED
            BY <3>1, Zenon DEF Frame
    <2> QED
        BY <2>2, <2>3, Zenon
<1>2. ASSUME NEW q \in Procs, q # p PROVE HandOK(q)'
    <2>1. HandOK(q) /\ pc'[q] = pc[q] /\ obj'[q] = obj[q] /\ buf'[q] = buf[q]
        BY <1>2, Zenon DEF Intact, Frame
    <2>2. \A r \in Procs : pc'[r] \in Copying => pc[r] \in Copying /\ obj'[r] = obj[r]
        BY Zenon DEF Frame
    <2> QED
        BY <2>1, <2>2, Zenon DEF HandOK
<1> QED
    BY <1>1, <1>2, Zenon DEF Intact

\* The steps in which a process may have bytes in hand.
Buffers == {"spill_file", "spill_dir"} \cup GetSteps \cup Outcomes

\* Steps of a thread without bytes in hand that leave copies alone.
LEMMA PlainIntact ==
    ASSUME Inv, Inv', Intact, NEW t \in Threads, Frame(t),
           UNCHANGED <<plasma, file, met, down, buf>>, pc[t] \notin Buffers, pc'[t] \notin Buffers
    PROVE  Intact'
<1>1. t \in Procs /\ HandOK(t) /\ (down' => met' = Ids)
    BY Consts, Zenon DEF Intact
<1>2. HandOK(t)'
    BY <1>1, Zenon DEF HandOK, Buffers, GetSteps, Outcomes, Writing, Copying
<1>3. pc[t] \notin Writing /\ pc'[t] \notin Copying
    BY Zenon DEF Buffers, GetSteps, Writing, Copying
<1> QED
    BY <1>1, <1>2, <1>3, HandsOff, Zenon

\* The steps on index, directory and reference table.
LEMMA PlainSteps ==
    ASSUME Inv, Intact, NEW t \in Threads,
           \/ PutIndex(t) \/ PutOwn(t) \/ PressureCheck(t) \/ PressureDone(t) \/ FreeIndex(t)
           \/ ForgetDir(t) \/ EvictDone(t)
           \/ \E i \in Ids : PickVictim(t, i) \/ EvictIndex(t, i) \/ DropRef(t, i)
           \/ \E i \in Ids, w \in Borrowers : DropBorrower(t, w, i)
    PROVE  Intact'
<1>1. Inv' /\ Frame(t)
    BY PutIndexStep, PutOwnStep, PressureCheckStep, PressureDoneStep, FreeIndexStep, ForgetDirStep,
       EvictDoneStep, PickVictimStep, EvictIndexStep, DropRefStep, DropBorrowerStep, Zenon DEF
           Still, SameNames
<1>2. TypeOK /\ t \in Procs
    BY Consts, Zenon DEF Inv
<1>3. UNCHANGED <<plasma, file, met, down, buf>>
    BY Zenon DEF PutIndex, PutOwn, PressureCheck, PressureDone, FreeIndex, ForgetDir, EvictDone,
                 PickVictim, EvictIndex, DropRef, DropBorrower
<1>4. pc[t] \notin Buffers /\ pc'[t] \notin Buffers
    <2>1. pc[t] \in {"put_index", "put_own", "pressure", "pick", "free_index", "forget_dir", "evict", "idle"}
        BY Zenon DEF PutIndex, PutOwn, PressureCheck, PressureDone, FreeIndex, ForgetDir, EvictDone,
                     PickVictim, EvictIndex, DropRef, DropBorrower, Begin
    <2>2. \/ pc' = pc
          \/ \E s \in {"put_own", "pressure", "pick", "idle", "free_index", "free_plasma", "forget_file",
                       "spill_read", "evict_plasma"} : pc' = [pc EXCEPT ![t] = s]
        BY Zenon DEF PutIndex, PutOwn, PressureCheck, PressureDone, FreeIndex, ForgetDir, EvictDone,
                     PickVictim, EvictIndex, DropRef, DropBorrower, Begin, Goto, Done
    <2> QED
        BY <1>2, <2>1, <2>2, Zenon DEF TypeOK, Buffers, GetSteps, Outcomes
<1> QED
    BY <1>1, <1>3, <1>4, PlainIntact, Zenon

\* The object of a driver's get is live, unless the connections met on it.
LEMMA ThreadHolds ==
    ASSUME Inv, Intact, NEW t \in Threads, pc[t] \in GetSteps, obj[t] \notin met
    PROVE  Live(obj[t])
<1>1. obj[t] \in Ids /\ ~down
    BY Consts, Zenon DEF Inv, TypeOK, ProcOK, Intact, GetSteps
<1> QED
    BY <1>1, Zenon DEF Inv, ThreadOK, Live, Held

\* SpillRead: what is sealed is whole.
LEMMA SpillReadIntact == ASSUME Inv, Intact, NEW t \in Threads, SpillRead(t) PROVE Intact'
<1>1. Inv' /\ Frame(t)
    BY SpillReadStep, Zenon DEF Still, SameNames
<1>2. TypeOK /\ t \in Procs /\ ProcOK(t) /\ HandOK(t) /\ (t \in Threads => ThreadOK(t))
      /\ obj[t] \in Ids /\ ObjectOK(obj[t]) /\ CopyOK(obj[t])
    BY Consts, Zenon DEF Inv, Intact, TypeOK, ProcOK, SpillRead
<1>3. HandOK(t)'
    BY <1>2, Zenon DEF HandOK, CopyOK, Whole, TypeOK, Writing, Copying, SpillRead, Goto, SpillSteps,
                       GetSteps, Outcomes
<1>4. plasma' = plasma /\ met \subseteq met' /\ down' = down /\ pc[t] \notin Writing
      /\ pc'[t] \notin Copying
    BY <1>2, Zenon DEF SpillRead, Goto, TypeOK, Writing, Copying
<1>5. \A j \in Ids : j \notin met' /\ file'[j] = "torn" => file[j] = "torn"
    BY Zenon DEF SpillRead
<1>6. down' => met' = Ids
    BY <1>1, <1>4, Zenon DEF Intact, Inv, TypeOK
<1> QED
    BY <1>1, <1>3, <1>4, <1>5, <1>6, HandsOff, Zenon

\* SpillFile: what was in hand is whole.
LEMMA SpillFileIntact == ASSUME Inv, Intact, NEW t \in Threads, SpillFile(t) PROVE Intact'
<1>1. Inv' /\ Frame(t)
    BY SpillFileStep, Zenon DEF Still, SameNames
<1>2. TypeOK /\ t \in Procs /\ ProcOK(t) /\ HandOK(t) /\ (t \in Threads => ThreadOK(t))
      /\ obj[t] \in Ids /\ ObjectOK(obj[t]) /\ CopyOK(obj[t])
    BY Consts, Zenon DEF Inv, Intact, TypeOK, ProcOK, SpillFile
<1>3. HandOK(t)'
    BY <1>2, Zenon DEF HandOK, TypeOK, Writing, Copying, SpillFile, Goto
<1>4. plasma' = plasma /\ met \subseteq met' /\ down' = down /\ pc[t] \notin Writing
      /\ pc'[t] \notin Copying
    BY <1>2, Zenon DEF SpillFile, Goto, TypeOK, Writing, Copying
<1>5. \A j \in Ids : j \notin met' /\ file'[j] = "torn" => file[j] = "torn"
    BY <1>2, Zenon DEF SpillFile, TypeOK, HandOK
<1>6. down' => met' = Ids
    BY <1>1, <1>4, Zenon DEF Intact, Inv, TypeOK
<1> QED
    BY <1>1, <1>3, <1>4, <1>5, <1>6, HandsOff, Zenon

\* SpillFileFails: the bytes are dropped.
LEMMA SpillFileFailsIntact == ASSUME Inv, Intact, NEW t \in Threads, SpillFileFails(t) PROVE Intact'
<1>1. Inv' /\ Frame(t)
    BY SpillFileFailsStep, Zenon DEF Still, SameNames
<1>2. TypeOK /\ t \in Procs /\ ProcOK(t) /\ HandOK(t) /\ (t \in Threads => ThreadOK(t))
      /\ obj[t] \in Ids /\ ObjectOK(obj[t]) /\ CopyOK(obj[t])
    BY Consts, Zenon DEF Inv, Intact, TypeOK, ProcOK, SpillFileFails
<1>3. HandOK(t)'
    BY <1>2, Zenon DEF HandOK, TypeOK, Writing, Copying, SpillFileFails, Goto
<1>4. plasma' = plasma /\ met \subseteq met' /\ down' = down /\ pc[t] \notin Writing
      /\ pc'[t] \notin Copying
    BY <1>2, Zenon DEF SpillFileFails, Goto, TypeOK, Writing, Copying
<1>5. \A j \in Ids : j \notin met' /\ file'[j] = "torn" => file[j] = "torn"
    BY Zenon DEF SpillFileFails
<1>6. down' => met' = Ids
    BY <1>1, <1>4, Zenon DEF Intact, Inv, TypeOK
<1> QED
    BY <1>1, <1>3, <1>4, <1>5, <1>6, HandsOff, Zenon

\* SpillDir: the bytes are dropped.
LEMMA SpillDirIntact == ASSUME Inv, Intact, NEW t \in Threads, SpillDir(t) PROVE Intact'
<1>1. Inv' /\ Frame(t)
    BY SpillDirStep, Zenon DEF Still, SameNames
<1>2. TypeOK /\ t \in Procs /\ ProcOK(t) /\ HandOK(t) /\ (t \in Threads => ThreadOK(t))
      /\ obj[t] \in Ids /\ ObjectOK(obj[t]) /\ CopyOK(obj[t])
    BY Consts, Zenon DEF Inv, Intact, TypeOK, ProcOK, SpillDir
<1>3. HandOK(t)'
    BY <1>2, Zenon DEF HandOK, TypeOK, Contents, Writing, Copying, SpillDir, Goto
<1>4. plasma' = plasma /\ met \subseteq met' /\ down' = down /\ pc[t] \notin Writing
      /\ pc'[t] \notin Copying
    BY <1>2, Zenon DEF SpillDir, Goto, TypeOK, Writing, Copying
<1>5. \A j \in Ids : j \notin met' /\ file'[j] = "torn" => file[j] = "torn"
    BY Zenon DEF SpillDir
<1>6. down' => met' = Ids
    BY <1>1, <1>4, Zenon DEF Intact, Inv, TypeOK
<1> QED
    BY <1>1, <1>3, <1>4, <1>5, <1>6, HandsOff, Zenon

\* Get: nothing is in hand yet.
LEMMA GetIntact == ASSUME Inv, Intact, NEW t \in Threads, NEW i \in Ids, Get(t, i) PROVE Intact'
<1>1. Inv' /\ Frame(t)
    BY GetStep, Zenon DEF Still, SameNames
<1>2. TypeOK /\ t \in Procs /\ ProcOK(t) /\ HandOK(t) /\ (t \in Threads => ThreadOK(t))
    BY Consts, Zenon DEF Inv, Intact
<1>3. HandOK(t)'
    BY <1>2, Zenon DEF HandOK, TypeOK, Writing, Copying, Get, Begin, GetSteps, Outcomes
<1>4. plasma' = plasma /\ met \subseteq met' /\ down' = down /\ pc[t] \notin Writing
      /\ pc'[t] \notin Copying
    BY <1>2, Zenon DEF Get, Begin, TypeOK, Writing, Copying
<1>5. \A j \in Ids : j \notin met' /\ file'[j] = "torn" => file[j] = "torn"
    BY Zenon DEF Get
<1>6. down' => met' = Ids
    BY <1>1, <1>4, Zenon DEF Intact, Inv, TypeOK
<1> QED
    BY <1>1, <1>3, <1>4, <1>5, <1>6, HandsOff, Zenon

\* Pull: nothing is in hand yet.
LEMMA PullIntact == ASSUME Inv, Intact, NEW t \in Pullers, NEW i \in Ids, Pull(t, i) PROVE Intact'
<1>1. Inv' /\ Frame(t)
    BY PullStep, Zenon DEF Still, SameNames
<1>2. TypeOK /\ t \in Procs /\ ProcOK(t) /\ HandOK(t) /\ (t \in Threads => ThreadOK(t))
    BY Consts, Zenon DEF Inv, Intact
<1>3. HandOK(t)'
    BY <1>2, Zenon DEF HandOK, TypeOK, Writing, Copying, Pull, Begin, GetSteps, Outcomes
<1>4. plasma' = plasma /\ met \subseteq met' /\ down' = down /\ pc[t] \notin Writing
      /\ pc'[t] \notin Copying
    BY <1>2, Zenon DEF Pull, Begin, TypeOK, Writing, Copying
<1>5. \A j \in Ids : j \notin met' /\ file'[j] = "torn" => file[j] = "torn"
    BY Zenon DEF Pull
<1>6. down' => met' = Ids
    BY <1>1, <1>4, Zenon DEF Intact, Inv, TypeOK
<1> QED
    BY <1>1, <1>3, <1>4, <1>5, <1>6, HandsOff, Zenon

\* ReadPlasma: what is sealed is whole, and a driver that finds an unsealed entry
\* met its writer, which is on the other connection since the mutex is free.
LEMMA ReadPlasmaIntact == ASSUME Inv, Intact, NEW t \in Procs, ReadPlasma(t) PROVE Intact'
<1>1. Inv' /\ Frame(t)
    BY ReadPlasmaStep, Zenon DEF Still, SameNames
<1>2. TypeOK /\ t \in Procs /\ ProcOK(t) /\ HandOK(t) /\ (t \in Threads => ThreadOK(t))
      /\ obj[t] \in Ids /\ ObjectOK(obj[t]) /\ CopyOK(obj[t])
    BY Consts, Zenon DEF Inv, Intact, TypeOK, ProcOK, ReadPlasma
<1>3. HandOK(t)'
    <2>1. CASE plasma[obj[t]].st = "sealed"
        BY <1>2, <2>1, Zenon DEF HandOK, CopyOK, Whole, TypeOK, ReadPlasma, Goto, Writing, Copying,
                                 Outcomes
    <2>2. CASE plasma[obj[t]].st = "absent"
        BY <1>2, <2>2, Zenon DEF HandOK, TypeOK, ReadPlasma, Goto, Writing, Copying, GetSteps
    <2>3. CASE plasma[obj[t]].st = "unsealed"
        <3>1. /\ pc[t] = "get" /\ pc'[t] = "failed" /\ obj' = obj /\ buf' = buf
              /\ lock[Conn(t)] = None /\ Meets(t, obj[t])
            BY <1>2, <2>3, Zenon DEF ReadPlasma, Goto, Free, TypeOK
        <3>2. ASSUME t \in Threads PROVE obj[t] \in met'
            <4>1. CASE obj[t] \in met
                BY <3>1, <4>1, Zenon DEF Meets
            <4>2. CASE obj[t] \notin met
                <5>1. PICK q \in Procs : obj[q] = obj[t] /\ pc[q] \in Writing
                    BY <1>2, <2>3, <4>2, Zenon DEF CopyOK
                <5>2. lock[Conn(q)] = q
                    BY <5>1, Zenon DEF Inv, ProcOK, Writing, Copying
                <5>3. Conn(q) # Conn(t)
                    BY <3>1, <5>2, Consts, Zenon
                <5> QED
                    BY <3>1, <5>1, <5>3, Zenon DEF Meets, MidReseal, Writing
            <4> QED
                BY <4>1, <4>2, Zenon
        <3> QED
            BY <1>2, <3>1, <3>2, Zenon DEF HandOK, Writing, Copying, Outcomes, Procs, Meets
    <2> QED
        BY <1>2, <2>1, <2>2, <2>3, Zenon DEF TypeOK, PlasmaEntry
<1>4. plasma' = plasma /\ met \subseteq met' /\ down' = down /\ pc[t] \notin Writing
      /\ pc'[t] \notin Copying
    BY <1>2, Zenon DEF ReadPlasma, Goto, Meets, TypeOK, Writing, Copying
<1>5. \A j \in Ids : j \notin met' /\ file'[j] = "torn" => file[j] = "torn"
    BY Zenon DEF ReadPlasma
<1>6. down' => met' = Ids
    BY <1>1, <1>4, Zenon DEF Intact, Inv, TypeOK
<1> QED
    BY <1>1, <1>3, <1>4, <1>5, <1>6, HandsOff, Zenon

\* RestoreLookup: a driver finds the record of its live object.
LEMMA RestoreLookupIntact == ASSUME Inv, Intact, NEW t \in Procs, RestoreLookup(t) PROVE Intact'
<1>1. Inv' /\ Frame(t)
    BY RestoreLookupStep, Zenon DEF Still, SameNames
<1>2. TypeOK /\ t \in Procs /\ ProcOK(t) /\ HandOK(t) /\ (t \in Threads => ThreadOK(t))
      /\ obj[t] \in Ids /\ ObjectOK(obj[t]) /\ CopyOK(obj[t])
    BY Consts, Zenon DEF Inv, Intact, TypeOK, ProcOK, RestoreLookup
<1>3. HandOK(t)'
    <2>1. t \in Threads /\ obj[t] \notin met => obj[t] \in spilled
        BY <1>2, ThreadHolds, Zenon DEF RestoreLookup, ProcOK, Restoring, OnDisk, GetSteps
    <2> QED
        BY <1>2, <2>1, Zenon DEF HandOK, TypeOK, Writing, Copying, RestoreLookup, Goto, GetSteps,
                                 Outcomes, Procs
<1>4. plasma' = plasma /\ met \subseteq met' /\ down' = down /\ pc[t] \notin Writing
      /\ pc'[t] \notin Copying
    BY <1>2, Zenon DEF RestoreLookup, Goto, TypeOK, Writing, Copying
<1>5. \A j \in Ids : j \notin met' /\ file'[j] = "torn" => file[j] = "torn"
    BY Zenon DEF RestoreLookup
<1>6. down' => met' = Ids
    BY <1>1, <1>4, Zenon DEF Intact, Inv, TypeOK
<1> QED
    BY <1>1, <1>3, <1>4, <1>5, <1>6, HandsOff, Zenon

\* RestoreRead: the file is whole.
LEMMA RestoreReadIntact == ASSUME Inv, Intact, NEW t \in Procs, RestoreRead(t) PROVE Intact'
<1>1. Inv' /\ Frame(t)
    BY RestoreReadStep, Zenon DEF Still, SameNames
<1>2. TypeOK /\ t \in Procs /\ ProcOK(t) /\ HandOK(t) /\ (t \in Threads => ThreadOK(t))
      /\ obj[t] \in Ids /\ ObjectOK(obj[t]) /\ CopyOK(obj[t])
    BY Consts, Zenon DEF Inv, Intact, TypeOK, ProcOK, RestoreRead
<1>3. HandOK(t)'
    BY <1>2, Zenon DEF HandOK, CopyOK, Whole, TypeOK, Writing, Copying, RestoreRead, Goto,
                       SpillSteps, GetSteps, Outcomes
<1>4. plasma' = plasma /\ met \subseteq met' /\ down' = down /\ pc[t] \notin Writing
      /\ pc'[t] \notin Copying
    BY <1>2, Zenon DEF RestoreRead, Goto, TypeOK, Writing, Copying
<1>5. \A j \in Ids : j \notin met' /\ file'[j] = "torn" => file[j] = "torn"
    BY Zenon DEF RestoreRead
<1>6. down' => met' = Ids
    BY <1>1, <1>4, Zenon DEF Intact, Inv, TypeOK
<1> QED
    BY <1>1, <1>3, <1>4, <1>5, <1>6, HandsOff, Zenon

\* RestoreFails: an I/O error is not a failed get.
LEMMA RestoreFailsIntact == ASSUME Inv, Intact, NEW t \in Procs, RestoreFails(t) PROVE Intact'
<1>1. Inv' /\ Frame(t)
    BY RestoreFailsStep, Zenon DEF Still, SameNames
<1>2. TypeOK /\ t \in Procs /\ ProcOK(t) /\ HandOK(t) /\ (t \in Threads => ThreadOK(t))
      /\ obj[t] \in Ids /\ ObjectOK(obj[t]) /\ CopyOK(obj[t])
    BY Consts, Zenon DEF Inv, Intact, TypeOK, ProcOK, RestoreFails
<1>3. HandOK(t)'
    BY <1>2, Zenon DEF HandOK, CopyOK, Whole, TypeOK, Writing, Copying, RestoreFails, Goto,
                       SpillSteps, GetSteps, Outcomes
<1>4. plasma' = plasma /\ met \subseteq met' /\ down' = down /\ pc[t] \notin Writing
      /\ pc'[t] \notin Copying
    BY <1>2, Zenon DEF RestoreFails, Goto, TypeOK, Writing, Copying
<1>5. \A j \in Ids : j \notin met' /\ file'[j] = "torn" => file[j] = "torn"
    BY Zenon DEF RestoreFails
<1>6. down' => met' = Ids
    BY <1>1, <1>4, Zenon DEF Intact, Inv, TypeOK
<1> QED
    BY <1>1, <1>3, <1>4, <1>5, <1>6, HandsOff, Zenon

\* RestorePurge: only a raylet gets here, or the connections met.
LEMMA RestorePurgeIntact == ASSUME Inv, Intact, NEW t \in Procs, RestorePurge(t) PROVE Intact'
<1>1. Inv' /\ Frame(t)
    BY RestorePurgeStep, Zenon DEF Still, SameNames
<1>2. TypeOK /\ t \in Procs /\ ProcOK(t) /\ HandOK(t) /\ (t \in Threads => ThreadOK(t))
      /\ obj[t] \in Ids /\ ObjectOK(obj[t]) /\ CopyOK(obj[t])
    BY Consts, Zenon DEF Inv, Intact, TypeOK, ProcOK, RestorePurge
<1>3. HandOK(t)'
    <2>1. t \in Threads => obj[t] \in met
        BY <1>2, ThreadHolds, Zenon DEF RestorePurge, ProcOK, GetSteps
    <2> QED
        BY <1>2, <2>1, Zenon DEF HandOK, TypeOK, Writing, Copying, RestorePurge, Goto, Outcomes,
                                 Procs
<1>4. plasma' = plasma /\ met \subseteq met' /\ down' = down /\ pc[t] \notin Writing
      /\ pc'[t] \notin Copying
    BY <1>2, Zenon DEF RestorePurge, Goto, TypeOK, Writing, Copying
<1>5. \A j \in Ids : j \notin met' /\ file'[j] = "torn" => file[j] = "torn"
    BY Zenon DEF RestorePurge
<1>6. down' => met' = Ids
    BY <1>1, <1>4, Zenon DEF Intact, Inv, TypeOK
<1> QED
    BY <1>1, <1>3, <1>4, <1>5, <1>6, HandsOff, Zenon

\* Reopen: what is sealed is whole.
LEMMA ReopenIntact == ASSUME Inv, Intact, NEW t \in Pullers, Reopen(t) PROVE Intact'
<1>1. Inv' /\ Frame(t)
    BY ReopenStep, Zenon DEF Still, SameNames
<1>2. TypeOK /\ t \in Procs /\ ProcOK(t) /\ HandOK(t) /\ (t \in Threads => ThreadOK(t))
      /\ obj[t] \in Ids /\ ObjectOK(obj[t]) /\ CopyOK(obj[t])
    BY Consts, Zenon DEF Inv, Intact, TypeOK, ProcOK, Reopen
<1>3. HandOK(t)'
    BY <1>2, Zenon DEF HandOK, CopyOK, Whole, TypeOK, Writing, Copying, Reopen, Goto, SpillSteps,
                       GetSteps, Outcomes
<1>4. plasma' = plasma /\ met \subseteq met' /\ down' = down /\ pc[t] \notin Writing
      /\ pc'[t] \notin Copying
    BY <1>2, Zenon DEF Reopen, Goto, TypeOK, Writing, Copying
<1>5. \A j \in Ids : j \notin met' /\ file'[j] = "torn" => file[j] = "torn"
    BY Zenon DEF Reopen
<1>6. down' => met' = Ids
    BY <1>1, <1>4, Zenon DEF Intact, Inv, TypeOK
<1> QED
    BY <1>1, <1>3, <1>4, <1>5, <1>6, HandsOff, Zenon

\* Return: the bytes go to the caller.
LEMMA ReturnIntact == ASSUME Inv, Intact, NEW t \in Procs, Return(t) PROVE Intact'
<1>1. Inv' /\ Frame(t)
    BY ReturnStep, Zenon DEF Still, SameNames
<1>2. TypeOK /\ t \in Procs /\ ProcOK(t) /\ HandOK(t) /\ (t \in Threads => ThreadOK(t))
    BY Consts, Zenon DEF Inv, Intact
<1>3. HandOK(t)'
    BY <1>2, Zenon DEF HandOK, TypeOK, Writing, Copying, Return, Done
<1>4. plasma' = plasma /\ met \subseteq met' /\ down' = down /\ pc[t] \notin Writing
      /\ pc'[t] \notin Copying
    BY <1>2, Zenon DEF Return, Done, TypeOK, Writing, Copying, Outcomes
<1>5. \A j \in Ids : j \notin met' /\ file'[j] = "torn" => file[j] = "torn"
    BY Zenon DEF Return
<1>6. down' => met' = Ids
    BY <1>1, <1>4, Zenon DEF Intact, Inv, TypeOK
<1> QED
    BY <1>1, <1>3, <1>4, <1>5, <1>6, HandsOff, Zenon

\* ForgetFile: the file goes.
LEMMA ForgetFileIntact == ASSUME Inv, Intact, NEW t \in Threads, ForgetFile(t) PROVE Intact'
<1>1. Inv' /\ Frame(t)
    BY ForgetFileStep, Zenon DEF Still, SameNames
<1>2. TypeOK /\ t \in Procs /\ ProcOK(t) /\ HandOK(t) /\ (t \in Threads => ThreadOK(t))
      /\ obj[t] \in Ids /\ ObjectOK(obj[t]) /\ CopyOK(obj[t])
    BY Consts, Zenon DEF Inv, Intact, TypeOK, ProcOK, ForgetFile
<1>3. HandOK(t)'
    BY <1>2, Consts, Zenon DEF HandOK, TypeOK, Writing, Copying, ForgetFile, Done, GetSteps,
                               Outcomes
<1>4. plasma' = plasma /\ met \subseteq met' /\ down' = down /\ pc[t] \notin Writing
      /\ pc'[t] \notin Copying
    BY <1>2, Zenon DEF ForgetFile, Done, TypeOK, Writing, Copying, Outcomes
<1>5. \A j \in Ids : j \notin met' /\ file'[j] = "torn" => file[j] = "torn"
    BY <1>2, Zenon DEF ForgetFile, TypeOK, HandOK
<1>6. down' => met' = Ids
    BY <1>1, <1>4, Zenon DEF Intact, Inv, TypeOK
<1> QED
    BY <1>1, <1>3, <1>4, <1>5, <1>6, HandsOff, Zenon

\* Steps that change the plasma entry of one object.
LEMMA HandsOn ==
    ASSUME Inv, Inv', Intact, NEW p \in Procs, Frame(p), NEW j \in Ids, HandOK(p)', CopyOK(j)',
           \A i \in Ids : i # j => plasma'[i] = plasma[i],
           UNCHANGED <<file, down>>, met \subseteq met', met' \subseteq Ids,
           pc[p] \in Writing => obj[p] = j,
           pc'[p] \in Copying => obj'[p] = j,
           j \notin met' => \A q \in Procs : q # p /\ obj[q] = j /\ pc[q] \in Copying =>
               q \in Pullers /\ plasma'[j].st = "absent" /\ pc'[p] \notin Copying
    PROVE  Intact'
<1>1. down' => met' = Ids
    BY Zenon DEF Intact
<1>2. ASSUME NEW i \in Ids, i # j PROVE CopyOK(i)'
    <2> SUFFICES ASSUME i \notin met' PROVE Whole(i)' /\ (plasma'[i].st = "unsealed" =>
                    \E q \in Procs : obj'[q] = i /\ pc'[q] \in Writing /\ plasma'[i].by = q)
        BY Zenon DEF CopyOK
    <2>1. i \notin met /\ CopyOK(i) /\ plasma'[i] = plasma[i]
        BY <1>2, Zenon DEF Intact
    <2>2. Whole(i)'
        BY <2>1, Zenon DEF CopyOK, Whole
    <2>3. ASSUME plasma'[i].st = "unsealed"
          PROVE  \E q \in Procs : obj'[q] = i /\ pc'[q] \in Writing /\ plasma'[i].by = q
        <3>1. PICK q \in Procs : obj[q] = i /\ pc[q] \in Writing /\ plasma[i].by = q
            BY <2>1, <2>3, Zenon DEF CopyOK
        <3>2. q # p
            BY <1>2, <3>1, Zenon
        <3> QED
            BY <2>1, <3>1, <3>2, Zenon DEF Frame
    <2> QED
        BY <2>2, <2>3, Zenon
<1>3. ASSUME NEW q \in Procs, q # p PROVE HandOK(q)'
    <2>1. /\ HandOK(q) /\ pc'[q] = pc[q] /\ obj'[q] = obj[q] /\ buf'[q] = buf[q]
          /\ obj[q] \in Ids \cup {None} /\ ProcOK(q)
        BY <1>3, Zenon DEF Intact, Frame, Inv, TypeOK
    <2>2. \A r \in Procs : r # p /\ pc'[r] \in Copying => pc[r] \in Copying /\ obj'[r] = obj[r]
        BY Zenon DEF Frame
    <2>3. CASE pc[q] \notin Copying
        BY <2>1, <2>3, Zenon DEF HandOK, Copying, Writing
    <2>4. CASE pc[q] \in Copying /\ obj[q] # j
        <3>1. obj[q] \in Ids /\ plasma'[obj[q]] = plasma[obj[q]]
            BY <2>1, <2>4, Zenon DEF ProcOK, Copying
        <3>2. pc'[p] \in Copying => obj'[p] # obj[q]
            BY <2>4, Zenon
        <3> QED
            BY <2>1, <2>2, <3>1, <3>2, Zenon DEF HandOK
    <2>5. CASE pc[q] \in Copying /\ obj[q] = j
        <3>1. j \notin met' => q \in Pullers /\ plasma'[j].st = "absent" /\ pc'[p] \notin Copying
            BY <1>3, <2>5, Zenon
        <3> QED
            BY <2>1, <2>2, <2>5, <3>1, Zenon DEF HandOK
    <2> QED
        BY <2>3, <2>4, <2>5, Zenon
<1> QED
    BY <1>2, <1>3, Zenon DEF Intact

\* A process that copies holds its mutex, so it is on the other connection.
LEMMA LockHolder ==
    ASSUME Inv, NEW p \in Procs, Free(p), NEW q \in Procs, pc[q] \in Copying
    PROVE  Conn(q) # Conn(p) /\ (p \in Threads => q \in Pullers)
<1>1. lock[Conn(q)] = q /\ q # None
    BY Consts, Zenon DEF Inv, ProcOK
<1> QED
    BY <1>1, Zenon DEF Free, Conn, Procs

\* SpillDelete: no driver thread is copying under the free mutex.
LEMMA SpillDeleteIntact == ASSUME Inv, Intact, NEW t \in Threads, SpillDelete(t) PROVE Intact'
<1>1. Inv' /\ Frame(t)
    BY SpillDeleteStep, Zenon DEF Still, SameNames
<1>2. TypeOK /\ t \in Procs /\ HandOK(t) /\ obj[t] \in Ids /\ CopyOK(obj[t])
    BY Consts, Zenon DEF Inv, Intact, TypeOK, ProcOK, SpillDelete
<1>3. /\ pc'[t] = "pick" /\ pc[t] \notin Buffers /\ buf'[t] = buf[t] /\ obj'[t] = obj[t]
      /\ UNCHANGED <<file, down, met>> /\ Free(t)
      /\ plasma'[obj[t]] = Absent /\ \A i \in Ids : i # obj[t] => plasma'[i] = plasma[i]
    BY <1>2, Zenon DEF SpillDelete, Goto, TypeOK, Buffers, GetSteps, Outcomes
<1>4. HandOK(t)'
    BY <1>2, <1>3, Zenon DEF HandOK, Buffers, Writing, Copying
<1>5. ASSUME NEW j \in Ids, j = obj[t] PROVE CopyOK(j)'
    BY <1>2, <1>3, <1>5 DEF CopyOK, Whole, Absent
<1>6. pc[t] \notin Writing /\ pc'[t] \notin Copying
    BY <1>3, Zenon DEF Buffers, GetSteps, Writing, Copying
<1>7. \A q \in Procs : pc[q] \in Copying => q \in Pullers
    BY <1>2, <1>3, LockHolder, Zenon
<1> QED
    BY <1>1, <1>2, <1>3, <1>4, <1>5, <1>6, <1>7, HandsOn DEF Absent, TypeOK

\* FreePlasma: no driver thread is copying under the free mutex.
LEMMA FreePlasmaIntact == ASSUME Inv, Intact, NEW t \in Threads, FreePlasma(t) PROVE Intact'
<1>1. Inv' /\ Frame(t)
    BY FreePlasmaStep, Zenon DEF Still, SameNames
<1>2. TypeOK /\ t \in Procs /\ HandOK(t) /\ obj[t] \in Ids /\ CopyOK(obj[t])
    BY Consts, Zenon DEF Inv, Intact, TypeOK, ProcOK, FreePlasma
<1>3. /\ pc'[t] = "forget_dir" /\ pc[t] \notin Buffers /\ buf'[t] = buf[t] /\ obj'[t] = obj[t]
      /\ UNCHANGED <<file, down, met>> /\ Free(t)
      /\ plasma'[obj[t]] = Absent /\ \A i \in Ids : i # obj[t] => plasma'[i] = plasma[i]
    BY <1>2, Zenon DEF FreePlasma, Goto, TypeOK, Buffers, GetSteps, Outcomes
<1>4. HandOK(t)'
    BY <1>2, <1>3, Zenon DEF HandOK, Buffers, Writing, Copying
<1>5. ASSUME NEW j \in Ids, j = obj[t] PROVE CopyOK(j)'
    BY <1>2, <1>3, <1>5 DEF CopyOK, Whole, Absent
<1>6. pc[t] \notin Writing /\ pc'[t] \notin Copying
    BY <1>3, Zenon DEF Buffers, GetSteps, Writing, Copying
<1>7. \A q \in Procs : pc[q] \in Copying => q \in Pullers
    BY <1>2, <1>3, LockHolder, Zenon
<1> QED
    BY <1>1, <1>2, <1>3, <1>4, <1>5, <1>6, <1>7, HandsOn DEF Absent, TypeOK

\* EvictPlasma: no driver thread is copying under the free mutex.
LEMMA EvictPlasmaIntact == ASSUME Inv, Intact, NEW t \in Threads, EvictPlasma(t) PROVE Intact'
<1>1. Inv' /\ Frame(t)
    BY EvictPlasmaStep, Zenon DEF Still, SameNames
<1>2. TypeOK /\ t \in Procs /\ HandOK(t) /\ obj[t] \in Ids /\ CopyOK(obj[t])
    BY Consts, Zenon DEF Inv, Intact, TypeOK, ProcOK, EvictPlasma
<1>3. /\ pc'[t] = "evict" /\ pc[t] \notin Buffers /\ buf'[t] = buf[t] /\ obj'[t] = obj[t]
      /\ UNCHANGED <<file, down, met>> /\ Free(t)
      /\ plasma'[obj[t]] = Absent /\ \A i \in Ids : i # obj[t] => plasma'[i] = plasma[i]
    BY <1>2, Zenon DEF EvictPlasma, Goto, TypeOK, Buffers, GetSteps, Outcomes
<1>4. HandOK(t)'
    BY <1>2, <1>3, Zenon DEF HandOK, Buffers, Writing, Copying
<1>5. ASSUME NEW j \in Ids, j = obj[t] PROVE CopyOK(j)'
    BY <1>2, <1>3, <1>5 DEF CopyOK, Whole, Absent
<1>6. pc[t] \notin Writing /\ pc'[t] \notin Copying
    BY <1>3, Zenon DEF Buffers, GetSteps, Writing, Copying
<1>7. \A q \in Procs : pc[q] \in Copying => q \in Pullers
    BY <1>2, <1>3, LockHolder, Zenon
<1> QED
    BY <1>1, <1>2, <1>3, <1>4, <1>5, <1>6, <1>7, HandsOn, SMTT(30) DEF Absent, TypeOK

\* Put: nobody else has the fresh id.
LEMMA PutIntact == ASSUME Inv, Intact, NEW t \in Threads, NEW i \in Ids, Put(t, i) PROVE Intact'
<1>1. Inv' /\ Frame(t)
    BY PutStep, Zenon
<1>2. TypeOK /\ t \in Procs /\ HandOK(t) /\ CopyOK(i) /\ Fresh(i)
    BY Consts, Zenon DEF Inv, Intact, Put, Fresh
<1>3. /\ pc'[t] = "put_index" /\ pc[t] = "idle" /\ buf'[t] = buf[t]
      /\ UNCHANGED <<file, down, met>>
      /\ plasma'[i] = [st |-> "sealed", by |-> t, bytes |-> "whole"]
      /\ \A j \in Ids : j # i => plasma'[j] = plasma[j]
    BY <1>2, Zenon DEF Put, Begin, TypeOK
<1>4. HandOK(t)'
    BY <1>2, <1>3, Zenon DEF HandOK, GetSteps, Outcomes, Writing, Copying
<1>5. CopyOK(i)'
    BY <1>2, <1>3 DEF CopyOK, Whole
<1>6. \A q \in Procs : obj[q] # i
    BY <1>2, Consts, Zenon DEF Inv, ProcOK
<1> QED
    BY <1>1, <1>2, <1>3, <1>4, <1>5, <1>6, HandsOn, Zenon DEF TypeOK, Writing, Copying

\* ResealCheck: a process that begins to copy is alone, or met the other
\* connection; one that finds an entry returns the whole bytes it has in hand.
LEMMA ResealCheckIntact == ASSUME Inv, Intact, NEW p \in Procs, ResealCheck(p) PROVE Intact'
<1>1. Inv' /\ Frame(p)
    BY ResealCheckStep, Zenon DEF Still, SameNames
<1>2. TypeOK /\ ProcOK(p) /\ HandOK(p) /\ obj[p] \in Ids /\ CopyOK(obj[p])
    BY Zenon DEF Inv, Intact, TypeOK, ProcOK, ResealCheck
<1>3. pc[p] = "reseal" /\ Free(p) /\ UNCHANGED <<plasma, file, down, buf, obj>>
    BY Zenon DEF ResealCheck, Goto
<1>4. CASE plasma[obj[p]].st = "absent"
    <2>1. pc'[p] = "insert" /\ Meets(p, obj[p])
        BY <1>2, <1>4, Zenon DEF ResealCheck, Goto, TypeOK
    <2>2. ASSUME obj[p] \notin met', NEW q \in Procs, obj[q] = obj[p], pc[q] \in Copying PROVE FALSE
        BY <1>3, <2>1, <2>2, LockHolder, Zenon DEF Meets, MidReseal, Copying
    <2>3. HandOK(p)'
        <3>1. met \subseteq met'
            BY <2>1, Zenon DEF Meets
        <3>2. \A q \in Procs : q # p => pc'[q] = pc[q] /\ obj'[q] = obj[q]
            BY <1>1, Zenon DEF Frame
        <3>3. obj[p] \notin met' => \A q \in Procs : obj'[q] = obj'[p] /\ pc'[q] \in Copying => q = p
            BY <1>3, <2>2, <3>2, Zenon
        <3> QED
            BY <1>2, <1>3, <1>4, <2>1, <3>1, <3>3, Zenon DEF HandOK, Writing, GetSteps, Outcomes
    <2>4. ASSUME NEW j \in Ids, j = obj[p] PROVE CopyOK(j)'
        BY <1>2, <1>3, <1>4, <2>1, <2>4, Zenon DEF CopyOK, Whole, Meets
    <2>5. met \subseteq met' /\ met' \subseteq Ids
        BY <1>2, <2>1, Zenon DEF Meets, TypeOK
    <2>6. pc[p] \notin Writing /\ obj'[p] = obj[p]
        BY <1>3, Zenon DEF Writing
    <2> QED
        BY <1>1, <1>2, <1>3, <2>2, <2>3, <2>4, <2>5, HandsOn, Zenon
<1>5. CASE plasma[obj[p]].st # "absent"
    <2>1. pc'[p] = Resealed(p) /\ met' = met
        BY <1>2, <1>5, Zenon DEF ResealCheck, Goto, TypeOK
    <2>2. pc'[p] \in {"got", "reopen"} /\ pc'[p] \notin Copying /\ pc[p] \notin Writing
        BY <1>3, <2>1, Zenon DEF Resealed, Copying, Writing
    <2>3. HandOK(p)'
        BY <1>2, <1>3, <2>1, <2>2, Zenon DEF HandOK, ProcOK, TypeOK, Contents, Writing, GetSteps,
                                             Outcomes
    <2>4. down' => met' = Ids
        BY <1>3, <2>1, Zenon DEF Intact
    <2> QED
        BY <1>1, <1>3, <2>1, <2>2, <2>3, <2>4, HandsOff, Zenon
<1> QED
    BY <1>4, <1>5, Zenon

\* ResealInsert: the entry is the writer's own.
LEMMA ResealInsertIntact == ASSUME Inv, Intact, NEW p \in Procs, ResealInsert(p) PROVE Intact'
<1>1. Inv' /\ Frame(p)
    BY ResealInsertStep, Zenon DEF Still, SameNames
<1>2. TypeOK /\ HandOK(p) /\ obj[p] \in Ids /\ CopyOK(obj[p])
    BY Zenon DEF Inv, Intact, TypeOK, ProcOK, ResealInsert
<1>3. /\ pc[p] = "insert" /\ pc'[p] = "write" /\ UNCHANGED <<file, down, met, buf, obj>>
      /\ plasma'[obj[p]] = [st |-> "unsealed", by |-> p, bytes |-> "torn"]
      /\ \A i \in Ids : i # obj[p] => plasma'[i] = plasma[i]
    BY <1>2, Zenon DEF ResealInsert, Goto, TypeOK
<1>4. obj[p] \notin met => \A q \in Procs : obj[q] = obj[p] /\ pc[q] \in Copying => q = p
    BY <1>2, <1>3, Zenon DEF HandOK, Copying
<1>5. HandOK(p)'
    <2>1. obj[p] \notin met => \A q \in Procs : obj'[q] = obj'[p] /\ pc'[q] \in Copying => q = p
        BY <1>1, <1>3, <1>4, Zenon DEF Frame
    <2> QED
        BY <1>2, <1>3, <2>1 DEF HandOK, Writing, GetSteps
<1>6. ASSUME NEW j \in Ids, j = obj[p] PROVE CopyOK(j)'
    BY <1>2, <1>3, <1>6 DEF CopyOK, Whole, Writing
<1>7. pc[p] \notin Writing
    BY <1>3, Zenon DEF Writing
<1> QED
    BY <1>1, <1>2, <1>3, <1>4, <1>5, <1>6, HandsOn, Zenon DEF TypeOK

\* ResealWrite: the writer's own entry gets whole bytes; a freed one stays absent.
LEMMA ResealWriteIntact == ASSUME Inv, Intact, NEW p \in Procs, ResealWrite(p) PROVE Intact'
<1>1. Inv' /\ Frame(p)
    BY ResealWriteStep, Zenon DEF Still, SameNames
<1>2. TypeOK /\ HandOK(p) /\ ProcOK(p) /\ obj[p] \in Ids /\ CopyOK(obj[p]) /\ ObjectOK(obj[p]) /\ p # None
    BY Consts, Zenon DEF Inv, Intact, TypeOK, ProcOK, ResealWrite
<1>3. /\ pc[p] = "write" /\ pc'[p] = "seal" /\ UNCHANGED <<file, down, met, buf, obj>>
      /\ plasma'[obj[p]].st = plasma[obj[p]].st /\ plasma'[obj[p]].by = plasma[obj[p]].by
      /\ plasma'[obj[p]].bytes = IF plasma[obj[p]].by = p THEN buf[p] ELSE plasma[obj[p]].bytes
      /\ \A i \in Ids : i # obj[p] => plasma'[i] = plasma[i]
    BY <1>2 DEF ResealWrite, Goto, TypeOK
<1>4. obj[p] \notin met =>
          /\ \A q \in Procs : obj[q] = obj[p] /\ pc[q] \in Copying => q = p
          /\ buf[p] = "whole"
          /\ \/ plasma[obj[p]].st = "unsealed" /\ plasma[obj[p]].by = p
             \/ p \in Pullers /\ plasma[obj[p]].st = "absent"
    BY <1>2, <1>3, Zenon DEF HandOK, ProcOK, Copying, Writing, TypeOK, Contents
<1>5. HandOK(p)'
    <2>1. obj[p] \notin met => \A q \in Procs : obj'[q] = obj'[p] /\ pc'[q] \in Copying => q = p
        BY <1>1, <1>3, <1>4, Zenon DEF Frame
    <2> QED
        BY <1>3, <1>4, <2>1, Zenon DEF HandOK, GetSteps
<1>6. ASSUME NEW j \in Ids, j = obj[p] PROVE CopyOK(j)'
    BY <1>2, <1>3, <1>4, <1>6, Zenon DEF CopyOK, Whole, Writing
<1> QED
    BY <1>1, <1>2, <1>3, <1>4, <1>5, <1>6, HandsOn, Zenon DEF TypeOK

\* ResealSeal: the entry that becomes readable is whole; only a raylet finds it freed.
LEMMA ResealSealIntact == ASSUME Inv, Intact, NEW p \in Procs, ResealSeal(p) PROVE Intact'
<1>1. Inv' /\ Frame(p)
    BY ResealSealStep, Zenon DEF Still, SameNames
<1>2. TypeOK /\ HandOK(p) /\ ProcOK(p) /\ obj[p] \in Ids /\ CopyOK(obj[p])
    BY Zenon DEF Inv, Intact, TypeOK, ProcOK, ResealSeal
<1>3. /\ pc[p] = "seal" /\ UNCHANGED <<file, down, met, buf, obj>>
      /\ plasma[obj[p]].st = "unsealed" =>
            /\ plasma'[obj[p]].st = "sealed" /\ plasma'[obj[p]].bytes = plasma[obj[p]].bytes
            /\ pc'[p] = Resealed(p)
      /\ plasma[obj[p]].st # "unsealed" => plasma'[obj[p]] = plasma[obj[p]] /\ pc'[p] = "failed"
      /\ \A i \in Ids : i # obj[p] => plasma'[i] = plasma[i]
    BY <1>2 DEF ResealSeal, Goto, TypeOK, PlasmaEntry
<1>4. obj[p] \notin met =>
          /\ \A q \in Procs : obj[q] = obj[p] /\ pc[q] \in Copying => q = p
          /\ buf[p] = "whole"
          /\ \/ plasma[obj[p]].st = "unsealed" /\ plasma[obj[p]].bytes = "whole"
             \/ p \in Pullers /\ plasma[obj[p]].st = "absent"
    BY <1>2, <1>3, Zenon DEF HandOK, ProcOK, Copying, Writing, TypeOK, Contents
<1>5. pc'[p] \in {"got", "reopen", "failed"}
    BY <1>3, Zenon DEF Resealed
<1>6. HandOK(p)'
    BY <1>2, <1>3, <1>4, <1>5, Zenon DEF HandOK, Writing, Copying, GetSteps, Outcomes, Resealed
<1>7. ASSUME NEW j \in Ids, j = obj[p] PROVE CopyOK(j)'
    BY <1>2, <1>3, <1>4, <1>7, Zenon DEF CopyOK, Whole
<1>8. pc'[p] \notin Copying
    BY <1>5, Zenon DEF Copying
<1> QED
    BY <1>1, <1>2, <1>3, <1>4, <1>6, <1>7, HandsOn, Zenon DEF TypeOK

\* Shutdown: from here on nothing is said of any id.
LEMMA ShutdownIntact == ASSUME Inv, Intact, NEW t \in Threads, Shutdown(t) PROVE Intact'
<1>1. Inv' /\ Frame(t) /\ t \in Procs
    BY ShutdownStep, Consts, Zenon DEF SameNames
<1>2. met' = Ids
    BY Zenon DEF Shutdown
<1>3. ASSUME NEW q \in Procs PROVE HandOK(q)'
    <2>1. ProcOK(q)' /\ HandOK(q) /\ obj'[q] \in Ids \cup {None}
        BY <1>1, Zenon DEF Inv, TypeOK, Intact
    <2>2. buf'[q] = buf[q] /\ (pc'[q] = pc[q] \/ (pc[q] = "idle" /\ pc'[q] = "evict"))
        BY Zenon DEF Shutdown, Goto, Inv, TypeOK
    <2>3. pc'[q] \notin Buffers => buf'[q] = "none"
        BY <2>1, <2>2, Zenon DEF HandOK, Buffers, GetSteps, Outcomes
    <2> QED
        BY <1>2, <2>1, <2>3, Zenon DEF HandOK, ProcOK, Buffers, GetSteps, Outcomes, Writing, Copying
<1> QED
    BY <1>2, <1>3, Zenon DEF Intact, CopyOK

\* RegisterBorrower: copies and hands are left alone.
LEMMA RegisterBorrowerIntact ==
    ASSUME Inv, Intact, NEW w, NEW i \in Ids, RegisterBorrower(w, i), w \in Borrowers PROVE Intact'
<1>1. Inv' /\ Frame(None)
    BY RegisterBorrowerStep, Zenon DEF SameNames
<1>2. UNCHANGED <<plasma, met, down, file>>
    BY Zenon DEF RegisterBorrower
<1> QED
    BY <1>1, <1>2, HandsOff, Consts, Zenon DEF Intact

-----------------------------------------------------------------------------
(* Who sweeps.                                                             *)

\* The steps of free_unpinned that still have plasma to clear.
Sweeping == {"free_index", "free_plasma"}

\* A published object is pinned, or a thread is about to remove its index entry
\* and, but for a raylet's copy, its plasma copy, or they are gone.
Swept(i) ==
    \/ Pinned(refs[i])
    \/ /\ i \in index => \E t \in Threads : obj[t] = i /\ pc[t] = "free_index"
       /\ \/ plasma[i] = Absent
          \/ plasma[i].by \in Pullers
          \/ \E t \in Threads : obj[t] = i /\ pc[t] \in Sweeping

\* Whoever must sweep is on the way.
Tidy ==
    /\ \A i \in Ids : EntryOK(refs[i])
    /\ ~down => \A i \in known : Swept(i)

\* Nothing is tracked at first.
LEMMA TidyInit == Init => Tidy
BY DEF Init, Tidy, EntryOK, Pinned, IsUnpinned, Untracked

\* A step of a process that is not sweeping, and that indexes and seals nothing.
LEMMA SweptKept ==
    ASSUME Tidy, NEW p, Frame(p), pc[p] \notin Sweeping, NEW i \in known, ~down, refs'[i] = refs[i],
           i \in index' => i \in index,
           \/ plasma'[i] = plasma[i]
           \/ plasma'[i] = Absent
           \/ plasma'[i].by \in Pullers
           \/ plasma[i] # Absent /\ plasma'[i].by = plasma[i].by
    PROVE  Swept(i)'
<1>1. Swept(i)
    BY Zenon DEF Tidy
<1>2. \A t \in Threads : pc[t] \in Sweeping => pc'[t] = pc[t] /\ obj'[t] = obj[t]
    BY Consts, Zenon DEF Frame
<1>3. CASE Pinned(refs[i])
    BY <1>3, Zenon DEF Swept
<1>4. CASE ~Pinned(refs[i])
    <2>1. ASSUME i \in index' PROVE \E t \in Threads : obj'[t] = i /\ pc'[t] = "free_index"
        <3>1. PICK t \in Threads : obj[t] = i /\ pc[t] = "free_index"
            BY <1>1, <1>4, <2>1, Zenon DEF Swept
        <3> QED
            BY <1>2, <3>1, Zenon DEF Sweeping
    <2>2. \/ plasma'[i] = Absent
          \/ plasma'[i].by \in Pullers
          \/ \E t \in Threads : obj'[t] = i /\ pc'[t] \in Sweeping
        <3>1. CASE \E t \in Threads : obj[t] = i /\ pc[t] \in Sweeping
            <4>1. PICK t \in Threads : obj[t] = i /\ pc[t] \in Sweeping
                BY <3>1, Zenon
            <4> QED
                BY <1>2, <4>1, Zenon
        <3>2. CASE plasma[i] = Absent \/ plasma[i].by \in Pullers
            BY <3>2, Zenon
        <3> QED
            BY <1>1, <1>4, <3>1, Zenon DEF Swept
    <2>3. Absent' = Absent
        BY Zenon DEF Absent
    <2> QED
        BY <2>1, <2>2, Zenon DEF Swept
<1> QED
    BY <1>3, <1>4, Zenon

\* The same of all objects.
LEMMA TidyKept ==
    ASSUME Inv, Tidy, NEW p, Frame(p), pc[p] \notin Sweeping, UNCHANGED <<refs, known>>,
           ~down' => \A i \in known :
              \/ Swept(i)'
              \/ /\ i \in index' => i \in index
                 /\ \/ plasma'[i] = plasma[i]
                    \/ plasma'[i] = Absent
                    \/ plasma'[i].by \in Pullers
                    \/ plasma[i] # Absent /\ plasma'[i].by = plasma[i].by
    PROVE  Tidy'
<1>1. ~down' => ~down
    BY Zenon DEF Frame
<1>2. ASSUME NEW i \in known, ~down' PROVE Swept(i)'
    BY <1>1, <1>2, SweptKept, Zenon
<1> QED
    BY <1>2, Zenon DEF Tidy

\* Steps that leave table and plasma alone and index nothing.
LEMMA TidyPlain ==
    ASSUME Inv, Tidy, NEW p \in Procs, Frame(p), pc[p] \notin Sweeping, UNCHANGED <<refs, known, plasma>>,
           index' \subseteq index
    PROVE  Tidy'
BY TidyKept, Zenon

\* Such steps of driver threads.
LEMMA TidyThread ==
    ASSUME Inv, Tidy, NEW t \in Threads,
           \/ PressureCheck(t) \/ SpillRead(t) \/ SpillFile(t) \/ SpillFileFails(t) \/ SpillDir(t)
           \/ ForgetDir(t) \/ ForgetFile(t) \/ EvictDone(t)
           \/ \E i \in Ids : PickVictim(t, i) \/ Get(t, i) \/ EvictIndex(t, i)
    PROVE  Tidy'
<1>1. Frame(t)
    BY PressureCheckStep, SpillReadStep, SpillFileStep, SpillFileFailsStep, SpillDirStep,
       ForgetDirStep, ForgetFileStep, EvictDoneStep, PickVictimStep, GetStep, EvictIndexStep,
       ZenonT(30) DEF Still, SameNames
<1>2. UNCHANGED <<refs, known, plasma>> /\ index' \subseteq index
    BY Zenon DEF PressureCheck, SpillRead, SpillFile, SpillFileFails, SpillDir, ForgetDir,
                 ForgetFile, EvictDone, PickVictim, Get, EvictIndex
<1>3. pc[t] \notin Sweeping
    BY Zenon DEF PressureCheck, SpillRead, SpillFile, SpillFileFails, SpillDir, ForgetDir,
                 ForgetFile, EvictDone, PickVictim, Get, EvictIndex, Begin, Sweeping
<1> QED
    BY <1>1, <1>2, <1>3, TidyPlain, Consts, Zenon

\* Such steps of a resolve.
LEMMA TidyResolve ==
    ASSUME Inv, Tidy, NEW p \in Procs,
           \/ ReadPlasma(p) \/ RestoreLookup(p) \/ RestoreRead(p) \/ RestoreFails(p) \/ RestorePurge(p)
           \/ ResealCheck(p) \/ Return(p)
    PROVE  Tidy'
<1>1. Frame(p)
    BY ReadPlasmaStep, RestoreLookupStep, RestoreReadStep, RestoreFailsStep, RestorePurgeStep,
       ResealCheckStep, ReturnStep, Zenon DEF Still, SameNames
<1>2. UNCHANGED <<refs, known, plasma, index>>
    BY Zenon DEF ReadPlasma, RestoreLookup, RestoreRead, RestoreFails, RestorePurge, ResealCheck,
                 Return
<1>3. pc[p] \notin Sweeping
    BY Zenon DEF ReadPlasma, RestoreLookup, RestoreRead, RestoreFails, RestorePurge, ResealCheck,
                 Return, Sweeping, Outcomes
<1> QED
    BY <1>1, <1>2, <1>3, TidyPlain, Zenon

\* Such steps of the raylet.
LEMMA TidyPuller ==
    ASSUME Inv, Tidy, NEW r \in Pullers, Reopen(r) \/ \E i \in Ids : Pull(r, i)
    PROVE  Tidy'
<1>1. Frame(r)
    BY ReopenStep, PullStep, Zenon DEF Still, SameNames
<1>2. UNCHANGED <<refs, known, plasma, index>>
    BY Zenon DEF Reopen, Pull
<1>3. pc[r] \notin Sweeping
    BY Zenon DEF Reopen, Pull, Begin, Sweeping
<1> QED
    BY <1>1, <1>2, <1>3, TidyPlain, Consts, Zenon

\* An entry of the table exists exactly while something pins the object, and
\* dec_local and remove_borrower say so when they drop the last pin.
LEMMA EntryPins ==
    /\ EntryOK(Untracked)
    /\ \A e \in OwnerEntry : e.local > 0 => Pinned(e)
    /\ EntryOK(AddOwned(Untracked))
    /\ \A e \in OwnerEntry, w \in Borrowers : EntryOK(AddBorrower(e, w)) /\ Pinned(AddBorrower(e, w))
    /\ \A e \in OwnerEntry : EntryOK(e) => EntryOK(DecLocal(e))
          /\ (Pinned(e) => Pinned(DecLocal(e)) \/ DecLocalFrees(e))
    /\ \A e \in OwnerEntry, w \in Borrowers : EntryOK(e) => EntryOK(RemoveBorrower(e, w))
          /\ (Pinned(e) => Pinned(RemoveBorrower(e, w)) \/ RemoveBorrowerFrees(e, w))
<1>1. EntryOK(Untracked) /\ Untracked \in OwnerEntry
    BY Zenon DEF EntryOK, Pinned, IsUnpinned, Untracked, OwnerEntry
<1>2. \A e \in OwnerEntry : e.local > 0 => Pinned(e)
    BY DEF Pinned, IsUnpinned
<1>3. \A e \in OwnerEntry : OrDefault(e) \in OwnerEntry /\ OrDefault(e).tracked = TRUE
    BY Zenon DEF OrDefault, OwnerEntry
<1>4. EntryOK(AddOwned(Untracked))
    <2>1. AddOwned(Untracked).tracked = TRUE /\ AddOwned(Untracked).local = 1
        BY DEF AddOwned, OrDefault, Untracked
    <2> QED
        BY <2>1 DEF EntryOK, Pinned, IsUnpinned
<1>5. ASSUME NEW e \in OwnerEntry, NEW w \in Borrowers
      PROVE  EntryOK(AddBorrower(e, w)) /\ Pinned(AddBorrower(e, w))
    <2>1. AddBorrower(e, w).tracked = TRUE /\ w \in AddBorrower(e, w).borrowers
        BY <1>3, Zenon DEF AddBorrower, OwnerEntry
    <2> QED
        BY <2>1, Zenon DEF EntryOK, Pinned, IsUnpinned
<1>6. ASSUME NEW e \in OwnerEntry, EntryOK(e)
      PROVE  EntryOK(DecLocal(e)) /\ (Pinned(e) => Pinned(DecLocal(e)) \/ DecLocalFrees(e))
    <2>1. WithoutLocal(e).tracked = e.tracked
        BY Zenon DEF OwnerEntry, WithoutLocal
    <2> QED
        BY <1>1, <1>6, <2>1, Zenon DEF DecLocal, DecLocalFrees, Settle, EntryOK, Pinned
<1>7. ASSUME NEW e \in OwnerEntry, EntryOK(e), NEW w \in Borrowers
      PROVE  EntryOK(RemoveBorrower(e, w)) /\ (Pinned(e) => Pinned(RemoveBorrower(e, w)) \/ RemoveBorrowerFrees(e, w))
    <2>1. WithoutBorrower(e, w).tracked = e.tracked
        BY Zenon DEF OwnerEntry, WithoutBorrower
    <2> QED
        BY <1>1, <1>7, <2>1, Zenon DEF RemoveBorrower, RemoveBorrowerFrees, Settle, EntryOK, Pinned
<1> QED
    BY <1>1, <1>2, <1>4, <1>5, <1>6, <1>7, Zenon

\* Put: the id is not published yet.
LEMMA PutTidy == ASSUME Inv, Tidy, NEW t \in Threads, NEW i \in Ids, Put(t, i) PROVE Tidy'
<1>1. Frame(t) /\ pc[t] \notin Sweeping /\ UNCHANGED <<refs, known, index>> /\ i \notin known
    BY PutStep, Zenon DEF Put, Begin, Sweeping
<1>2. known \subseteq Ids /\ \A j \in Ids : j # i => plasma'[j] = plasma[j]
    BY Zenon DEF Put, Inv, TypeOK
<1> QED
    BY <1>1, <1>2, TidyKept, Zenon

\* PutIndex: the id is not published yet.
LEMMA PutIndexTidy == ASSUME Inv, Tidy, NEW t \in Threads, PutIndex(t) PROVE Tidy'
<1>1. Frame(t) /\ pc[t] \notin Sweeping /\ UNCHANGED <<refs, known, plasma>> /\ index' = index \cup {obj[t]}
    BY PutIndexStep, Zenon DEF Still, SameNames, PutIndex, Sweeping
<1>2. obj[t] \notin known
    BY Zenon DEF Inv, MintOK, PutSteps, PutIndex
<1> QED
    BY <1>1, <1>2, TidyKept, Zenon

\* SpillDelete and EvictPlasma only remove a plasma copy.
LEMMA PlasmaGoneTidy ==
    ASSUME Inv, Tidy, NEW t \in Threads, SpillDelete(t) \/ EvictPlasma(t) PROVE Tidy'
<1>1. Frame(t) /\ pc[t] \notin Sweeping /\ UNCHANGED <<refs, known, index>>
    BY SpillDeleteStep, EvictPlasmaStep, Zenon DEF Still, SameNames, SpillDelete, EvictPlasma,
                                                   Sweeping
<1>2. known \subseteq Ids /\ \A j \in Ids : plasma'[j] = plasma[j] \/ plasma'[j] = Absent
    BY Zenon DEF SpillDelete, EvictPlasma, Inv, TypeOK
<1> QED
    BY <1>1, <1>2, TidyKept, Zenon

\* ResealInsert: a driver that reseals holds a reference; a raylet's copy is excepted.
LEMMA ResealInsertTidy == ASSUME Inv, Tidy, NEW p \in Procs, ResealInsert(p) PROVE Tidy'
<1>1. /\ Frame(p) /\ pc[p] \notin Sweeping /\ UNCHANGED <<refs, known, index, down>>
      /\ pc[p] = "insert"
    BY ResealInsertStep, Zenon DEF Still, SameNames, ResealInsert, Sweeping
<1>2. known \subseteq Ids /\ plasma \in [Ids -> PlasmaEntry] /\ refs \in [Ids -> OwnerEntry]
    BY Zenon DEF Inv, TypeOK
<1>3. ASSUME NEW j \in known PROVE plasma'[j] = plasma[j] \/ (j = obj[p] /\ plasma'[j].by = p)
    BY <1>2, Zenon DEF ResealInsert
<1>4. ASSUME ~down, p \in Threads, NEW j \in known, j = obj[p] PROVE Swept(j)'
    BY <1>1, <1>2, <1>4, EntryPins, ZenonT(30) DEF Inv, ThreadOK, GetSteps, Swept
<1> QED
    BY <1>1, <1>3, <1>4, TidyKept, Zenon DEF Procs

\* ResealWrite: the creator of an entry stays.
LEMMA ResealWriteTidy == ASSUME Inv, Tidy, NEW p \in Procs, ResealWrite(p) PROVE Tidy'
<1>1. Frame(p) /\ pc[p] \notin Sweeping /\ UNCHANGED <<refs, known, index>>
    BY ResealWriteStep, Zenon DEF Still, SameNames, ResealWrite, Sweeping
<1>2. known \subseteq Ids /\ plasma \in [Ids -> PlasmaEntry] /\ p # None
    BY Consts, Zenon DEF Inv, TypeOK
<1>3. ASSUME NEW j \in known
      PROVE  plasma'[j] = plasma[j] \/ (plasma[j] # Absent /\ plasma'[j].by = plasma[j].by)
    <2>1. CASE j # obj[p]
        BY <1>2, <2>1, Zenon DEF ResealWrite
    <2>2. CASE j = obj[p] /\ plasma[j].by = p
        BY <1>2 DEF ResealWrite, Absent
    <2>3. CASE j = obj[p] /\ plasma[j].by # p
        <3>1. plasma' = [plasma EXCEPT ![j] = [plasma[j] EXCEPT !.bytes = plasma[j].bytes]]
            BY <2>3, Zenon DEF ResealWrite
        <3>2. [plasma[j] EXCEPT !.bytes = plasma[j].bytes] = plasma[j]
            BY <1>2, Zenon DEF PlasmaEntry
        <3> QED
            BY <1>2, <3>1, <3>2, Zenon
    <2> QED
        BY <2>1, <2>2, <2>3, Zenon
<1> QED
    BY <1>1, <1>3, TidyKept, Zenon

\* ResealSeal: the creator of an entry stays.
LEMMA ResealSealTidy == ASSUME Inv, Tidy, NEW p \in Procs, ResealSeal(p) PROVE Tidy'
<1>1. Frame(p) /\ pc[p] \notin Sweeping /\ UNCHANGED <<refs, known, index>>
    BY ResealSealStep, Zenon DEF Still, SameNames, ResealSeal, Sweeping
<1>2. known \subseteq Ids /\ plasma \in [Ids -> PlasmaEntry]
    BY Zenon DEF Inv, TypeOK
<1>3. ASSUME NEW j \in known
      PROVE  plasma'[j] = plasma[j] \/ (plasma[j] # Absent /\ plasma'[j].by = plasma[j].by)
    BY <1>2 DEF ResealSeal, Absent, PlasmaEntry
<1> QED
    BY <1>1, <1>3, TidyKept, Zenon

\* FreeIndex: the same thread goes on to the plasma copy.
LEMMA FreeIndexTidy == ASSUME Inv, Tidy, NEW t \in Threads, FreeIndex(t) PROVE Tidy'
<1>1. /\ UNCHANGED <<refs, known, plasma, down, obj>> /\ index' = index \ {obj[t]}
      /\ t \in Procs /\ pc[t] = "free_index" /\ pc' = [pc EXCEPT ![t] = "free_plasma"]
    BY Consts, Zenon DEF FreeIndex, Goto
<1>2. pc'[t] = "free_plasma" /\ \A u \in Threads : u # t => pc'[u] = pc[u]
    BY <1>1, Consts, Zenon DEF Inv, TypeOK
<1>3. ASSUME NEW i \in known, ~down PROVE Swept(i)'
    <2>1. Swept(i)
        BY <1>3, Zenon DEF Tidy
    <2>2. i \in index' => i # obj[t] /\ i \in index
        BY <1>1, Zenon
    <2>3. Absent' = Absent
        BY Zenon DEF Absent
    <2> QED
        BY <1>1, <1>2, <2>1, Zenon DEF Swept, Sweeping
<1> QED
    BY <1>1, <1>3, Zenon DEF Tidy

\* FreePlasma: the copy is gone.
LEMMA FreePlasmaTidy == ASSUME Inv, Tidy, NEW t \in Threads, FreePlasma(t) PROVE Tidy'
<1>1. /\ UNCHANGED <<refs, known, index, down, obj>> /\ plasma' = [plasma EXCEPT ![obj[t]] = Absent]
      /\ t \in Procs /\ pc[t] = "free_plasma" /\ pc' = [pc EXCEPT ![t] = "forget_dir"]
    BY Consts, Zenon DEF FreePlasma, Goto
<1>2. /\ \A u \in Threads : u # t => pc'[u] = pc[u]
      /\ known \subseteq Ids
      /\ \A j \in Ids : plasma'[j] = IF j = obj[t] THEN Absent ELSE plasma[j]
    BY <1>1, Consts, Zenon DEF Inv, TypeOK
<1>3. ASSUME NEW i \in known, ~down PROVE Swept(i)'
    <2>1. Swept(i)
        BY <1>3, Zenon DEF Tidy
    <2>2. Absent' = Absent
        BY Zenon DEF Absent
    <2> QED
        BY <1>1, <1>2, <2>1 DEF Swept
<1> QED
    BY <1>1, <1>3, Zenon DEF Tidy

\* A step that changes one entry of the reference table.
LEMMA TidyRefs ==
    ASSUME Inv, Tidy, NEW p, Frame(p), pc[p] \notin Sweeping, NEW i \in Ids, NEW e,
           refs' = [refs EXCEPT ![i] = e], EntryOK(e), UNCHANGED <<index, plasma, known>>,
           ~down' /\ i \in known => Swept(i)'
    PROVE  Tidy'
<1>1. ~down' => ~down
    BY Zenon DEF Frame
<1>2. refs'[i] = e /\ (\A j \in Ids : j # i => refs'[j] = refs[j]) /\ known \subseteq Ids
    BY Zenon DEF Inv, TypeOK
<1>3. ASSUME NEW j \in known, ~down' PROVE Swept(j)'
    BY <1>1, <1>2, <1>3, SweptKept, Zenon
<1> QED
    BY <1>2, <1>3, Zenon DEF Tidy

\* PutOwn: the id is not published yet.
LEMMA PutOwnTidy == ASSUME Inv, Tidy, NEW t \in Threads, PutOwn(t) PROVE Tidy'
<1>1. /\ obj[t] = minting[t] /\ obj[t] \in Ids \ known /\ pc[t] = "put_own" /\ refs[obj[t]] = Untracked
    BY Zenon DEF Inv, MintOK, TypeOK, PutSteps, PutOwn, ObjectOK, Coming
<1>2. refs' = [refs EXCEPT ![obj[t]] = AddOwned(Untracked)]
    BY <1>1, Zenon DEF PutOwn
<1>3. Frame(t) /\ pc[t] \notin Sweeping /\ UNCHANGED <<index, plasma, known>>
    BY PutOwnStep, Zenon DEF SameNames, PutOwn, Sweeping
<1> QED
    BY <1>1, <1>2, <1>3, TidyRefs, EntryPins, Zenon

\* DropRef: the thread that drops the last pin begins to sweep.
LEMMA DropRefTidy == ASSUME Inv, Tidy, NEW t \in Threads, NEW i \in Ids, DropRef(t, i) PROVE Tidy'
<1> DEFINE e == DecLocal(refs[i])
<1>1. refs[i] \in OwnerEntry /\ EntryOK(refs[i]) /\ refs[i].local > 0 /\ t \in Procs /\ TypeOK
    BY Consts, Zenon DEF Inv, TypeOK, Tidy, DropRef
<1>2. EntryOK(e) /\ (Pinned(e) \/ DecLocalFrees(refs[i]))
    BY <1>1, EntryPins, Zenon
<1>3. Frame(t) /\ pc[t] \notin Sweeping /\ UNCHANGED <<index, plasma, known>>
      /\ refs' = [refs EXCEPT ![i] = e]
    BY DropRefStep, Zenon DEF SameNames, DropRef, Begin, Sweeping
<1>4. refs'[i] = e
    BY <1>1, <1>3, Zenon DEF TypeOK
<1>5. CASE Pinned(e)
    <2>1. Swept(i)'
        BY <1>4, <1>5, Zenon DEF Swept
    <2> QED
        BY <1>2, <1>3, <2>1, TidyRefs, Zenon
<1>6. CASE DecLocalFrees(refs[i])
    <2>1. obj'[t] = i /\ pc'[t] = "free_index"
        BY <1>1, <1>6, Zenon DEF DropRef, Begin, TypeOK
    <2>2. Swept(i)'
        BY <2>1, Zenon DEF Swept, Sweeping
    <2> QED
        BY <1>2, <1>3, <2>2, TidyRefs, Zenon
<1> QED
    BY <1>2, <1>5, <1>6, Zenon

\* DropBorrower: the thread that drops the last pin begins to sweep.
LEMMA DropBorrowerTidy ==
    ASSUME Inv, Tidy, NEW t \in Threads, NEW w \in Borrowers, NEW i \in Ids, DropBorrower(t, w, i) PROVE Tidy'
<1> DEFINE e == RemoveBorrower(refs[i], w)
<1>1. refs[i] \in OwnerEntry /\ EntryOK(refs[i]) /\ w \in refs[i].borrowers /\ t \in Procs /\ TypeOK
    BY Consts, Zenon DEF Inv, TypeOK, Tidy, DropBorrower
<1>0. Pinned(refs[i])
    BY <1>1, Zenon DEF Pinned, IsUnpinned
<1>2. EntryOK(e) /\ (Pinned(e) \/ RemoveBorrowerFrees(refs[i], w))
    BY <1>0, <1>1, EntryPins, Zenon
<1>3. Frame(t) /\ pc[t] \notin Sweeping /\ UNCHANGED <<index, plasma, known>>
      /\ refs' = [refs EXCEPT ![i] = e]
    BY DropBorrowerStep, Zenon DEF SameNames, DropBorrower, Begin, Sweeping
<1>4. refs'[i] = e
    BY <1>1, <1>3, Zenon DEF TypeOK
<1>5. CASE Pinned(e)
    <2>1. Swept(i)'
        BY <1>4, <1>5, Zenon DEF Swept
    <2> QED
        BY <1>2, <1>3, <2>1, TidyRefs, Zenon
<1>6. CASE RemoveBorrowerFrees(refs[i], w)
    <2>1. obj'[t] = i /\ pc'[t] = "free_index"
        BY <1>1, <1>6, Zenon DEF DropBorrower, Begin, TypeOK
    <2>2. Swept(i)'
        BY <2>1, Zenon DEF Swept, Sweeping
    <2> QED
        BY <1>2, <1>3, <2>2, TidyRefs, Zenon
<1> QED
    BY <1>2, <1>5, <1>6, Zenon

\* RegisterBorrower: the object is pinned.
LEMMA RegisterBorrowerTidy ==
    ASSUME Inv, Tidy, NEW w \in Borrowers, NEW i \in Ids, RegisterBorrower(w, i) PROVE Tidy'
<1>1. refs[i] \in OwnerEntry /\ TypeOK
    BY Zenon DEF Inv, TypeOK
<1>2. EntryOK(AddBorrower(refs[i], w)) /\ Pinned(AddBorrower(refs[i], w))
    BY <1>1, EntryPins, Zenon
<1>3. /\ UNCHANGED <<index, plasma, known, down, pc, obj>>
      /\ refs' = [refs EXCEPT ![i] = AddBorrower(refs[i], w)]
    BY Zenon DEF RegisterBorrower, proc
<1>4. refs'[i] = AddBorrower(refs[i], w) /\ \A j \in Ids : j # i => refs'[j] = refs[j]
    BY <1>1, <1>3, Zenon DEF TypeOK
<1>5. ASSUME NEW j \in known, ~down PROVE Swept(j)'
    <2>1. Swept(j) /\ j \in Ids /\ Absent' = Absent
        BY <1>1, <1>5, Zenon DEF Tidy, TypeOK
    <2> QED
        BY <1>2, <1>3, <1>4, <2>1, Zenon DEF Swept
<1> QED
    BY <1>2, <1>3, <1>4, <1>5, Zenon DEF Tidy

\* PressureDone: the published object has a reference.
LEMMA PressureDoneTidy == ASSUME Inv, Tidy, NEW t \in Threads, PressureDone(t) PROVE Tidy'
<1>1. /\ Frame(t) /\ pc[t] \notin Sweeping /\ UNCHANGED <<refs, index, plasma, down>>
      /\ known' = known \cup {minting[t]} /\ pc[t] = "pick"
    BY PressureDoneStep, Zenon DEF PressureDone, Sweeping
<1>2. /\ minting[t] \in Ids /\ refs[minting[t]] \in OwnerEntry
      /\ ~down => refs[minting[t]].local > 0
    BY <1>1, Zenon DEF Inv, MintOK, ThreadOK, SpillSteps, TypeOK
<1>3. ASSUME ~down, NEW i, i = minting[t] PROVE Swept(i)'
    BY <1>1, <1>2, <1>3, EntryPins, Zenon DEF Swept
<1>4. ASSUME ~down, NEW i \in known PROVE Swept(i)'
    BY <1>1, <1>4, SweptKept, Zenon
<1> QED
    BY <1>1, <1>3, <1>4, Zenon DEF Tidy

\* Shutdown: from here on nothing is said of any id.
LEMMA ShutdownTidy == ASSUME NEW t \in Threads, Shutdown(t) PROVE Tidy'
BY EntryPins, Zenon DEF Tidy, Shutdown

-----------------------------------------------------------------------------
(* The theorems.                                                           *)

\* Intact and Tidy speak of the variables only.
LEMMA StutterKeeps == ASSUME Intact, Tidy, UNCHANGED vars PROVE Intact' /\ Tidy'
<1>1. UNCHANGED <<refs, index, plasma, spilled, file, lock, known, met, down, firm, pc, obj, buf,
                  minting, todo, over>>
    BY Zenon DEF vars, proc
<1>2. \A i : Whole(i)' <=> Whole(i)
    BY <1>1, Zenon DEF Whole
<1>3. Intact'
    BY <1>1, <1>2, ZenonT(30) DEF Intact, CopyOK, HandOK
<1>4. Tidy'
    BY <1>1, Zenon DEF Tidy, Swept, Absent
<1> QED
    BY <1>3, <1>4, Zenon

\* Every step leaves the bytes intact.
LEMMA StepIntact == ASSUME Inv, Intact, Next PROVE Intact'
<1>1. ASSUME NEW t \in Threads, NEW i \in Ids,
             Put(t, i) \/ PickVictim(t, i) \/ Get(t, i) \/ DropRef(t, i) \/ EvictIndex(t, i)
      PROVE  Intact'
    BY <1>1, PutIntact, PlainSteps, GetIntact, Zenon
<1>2. ASSUME NEW t \in Threads, NEW i \in Ids, NEW w \in Borrowers, DropBorrower(t, w, i) PROVE Intact'
    BY <1>2, PlainSteps, Zenon
<1>3. ASSUME NEW t \in Threads, PutIndex(t) \/ PutOwn(t) \/ PressureCheck(t) \/ PressureDone(t)
      PROVE  Intact'
    BY <1>3, PlainSteps, Zenon
<1>4. ASSUME NEW t \in Threads,
             SpillRead(t) \/ SpillFile(t) \/ SpillFileFails(t) \/ SpillDir(t) \/ SpillDelete(t) PROVE Intact'
    BY <1>4, SpillReadIntact, SpillFileIntact, SpillFileFailsIntact, SpillDirIntact,
       SpillDeleteIntact, Zenon
<1>5. ASSUME NEW t \in Threads, FreeIndex(t) \/ FreePlasma(t) \/ ForgetDir(t) \/ ForgetFile(t) PROVE Intact'
    BY <1>5, PlainSteps, FreePlasmaIntact, ForgetFileIntact, Zenon
<1>6. ASSUME NEW t \in Threads, Shutdown(t) \/ EvictPlasma(t) \/ EvictDone(t) PROVE Intact'
    BY <1>6, ShutdownIntact, EvictPlasmaIntact, PlainSteps, Zenon
<1>7. ASSUME NEW r \in Pullers, PullerStep(r) PROVE Intact'
    BY <1>7, ReopenIntact, PullIntact, Zenon DEF PullerStep
<1>8. ASSUME NEW p \in Procs,
             ReadPlasma(p) \/ RestoreLookup(p) \/ RestoreRead(p) \/ RestoreFails(p) \/ RestorePurge(p)
      PROVE  Intact'
    BY <1>8, ReadPlasmaIntact, RestoreLookupIntact, RestoreReadIntact, RestoreFailsIntact,
       RestorePurgeIntact, Zenon
<1>9. ASSUME NEW p \in Procs,
             ResealCheck(p) \/ ResealInsert(p) \/ ResealWrite(p) \/ ResealSeal(p) \/ Return(p) PROVE Intact'
    BY <1>9, ResealCheckIntact, ResealInsertIntact, ResealWriteIntact, ResealSealIntact,
       ReturnIntact, Zenon
<1>10. ASSUME NEW w \in Borrowers, NEW i \in Ids, RegisterBorrower(w, i) PROVE Intact'
    BY <1>10, RegisterBorrowerIntact, Zenon
<1>11. ASSUME NEW t \in Threads, ThreadStep(t) PROVE Intact'
    BY <1>1, <1>2, <1>3, <1>4, <1>5, <1>6, <1>11, Zenon DEF ThreadStep
<1>12. ASSUME NEW p \in Procs, ResolveStep(p) PROVE Intact'
    BY <1>8, <1>9, <1>12, Zenon DEF ResolveStep
<1> QED
    BY <1>7, <1>10, <1>11, <1>12, Zenon DEF Next

\* Every step leaves someone on the way to sweep what lost its last pin.
LEMMA StepTidy == ASSUME Inv, Tidy, Next PROVE Tidy'
<1>1. ASSUME NEW t \in Threads, NEW i \in Ids,
             Put(t, i) \/ PickVictim(t, i) \/ Get(t, i) \/ DropRef(t, i) \/ EvictIndex(t, i)
      PROVE  Tidy'
    BY <1>1, PutTidy, TidyThread, DropRefTidy, Zenon
<1>2. ASSUME NEW t \in Threads, NEW i \in Ids, NEW w \in Borrowers, DropBorrower(t, w, i) PROVE Tidy'
    BY <1>2, DropBorrowerTidy, Zenon
<1>3. ASSUME NEW t \in Threads, PutIndex(t) \/ PutOwn(t) \/ PressureCheck(t) \/ PressureDone(t) PROVE Tidy'
    BY <1>3, PutIndexTidy, PutOwnTidy, TidyThread, PressureDoneTidy, Zenon
<1>4. ASSUME NEW t \in Threads,
             SpillRead(t) \/ SpillFile(t) \/ SpillFileFails(t) \/ SpillDir(t) \/ SpillDelete(t) PROVE Tidy'
    BY <1>4, TidyThread, PlasmaGoneTidy, Zenon
<1>5. ASSUME NEW t \in Threads, FreeIndex(t) \/ FreePlasma(t) \/ ForgetDir(t) \/ ForgetFile(t) PROVE Tidy'
    BY <1>5, FreeIndexTidy, FreePlasmaTidy, TidyThread, Zenon
<1>6. ASSUME NEW t \in Threads, Shutdown(t) \/ EvictPlasma(t) \/ EvictDone(t) PROVE Tidy'
    BY <1>6, ShutdownTidy, PlasmaGoneTidy, TidyThread, Zenon
<1>7. ASSUME NEW r \in Pullers, PullerStep(r) PROVE Tidy'
    BY <1>7, TidyPuller, Zenon DEF PullerStep
<1>8. ASSUME NEW p \in Procs,
             ReadPlasma(p) \/ RestoreLookup(p) \/ RestoreRead(p) \/ RestoreFails(p) \/ RestorePurge(p)
      PROVE  Tidy'
    BY <1>8, TidyResolve, Zenon
<1>9. ASSUME NEW p \in Procs,
             ResealCheck(p) \/ ResealInsert(p) \/ ResealWrite(p) \/ ResealSeal(p) \/ Return(p) PROVE Tidy'
    BY <1>9, TidyResolve, ResealInsertTidy, ResealWriteTidy, ResealSealTidy, Zenon
<1>10. ASSUME NEW w \in Borrowers, NEW i \in Ids, RegisterBorrower(w, i) PROVE Tidy'
    BY <1>10, RegisterBorrowerTidy, Zenon
<1>11. ASSUME NEW t \in Threads, ThreadStep(t) PROVE Tidy'
    BY <1>1, <1>2, <1>3, <1>4, <1>5, <1>6, <1>11, Zenon DEF ThreadStep
<1>12. ASSUME NEW p \in Procs, ResolveStep(p) PROVE Tidy'
    BY <1>8, <1>9, <1>12, Zenon DEF ResolveStep
<1> QED
    BY <1>7, <1>10, <1>11, <1>12, Zenon DEF Next

\* In every execution of put, spill, restore, get, Pull, free, borrowing and
\* shutdown, all three invariants hold.
THEOREM Safety == Spec => [](Inv /\ Intact /\ Tidy)
<1>1. Inv /\ Intact /\ Tidy /\ [Next]_vars => Intact' /\ Tidy'
    BY StepIntact, StepTidy, StutterKeeps, Zenon
<1> QED
    BY <1>1, IntactInit, TidyInit, Placed, PTL DEF Spec

\* A sealed entry and a spill file hold the whole object wherever the two
\* connections did not reseal it at once.
THEOREM CopiesAreWhole == Spec => []CopiesWhole
<1>1. Intact => CopiesWhole
    BY Zenon DEF Intact, CopyOK, CopiesWhole
<1> QED
    BY <1>1, Safety, PTL

\* rayd.get on a held reference never fails and never returns torn bytes, unless
\* the runtime shuts down, the file cannot be read, or the connections met.
THEOREM GetReturns == Spec => []PinnedResolves
<1>1. ASSUME Inv, Intact, NEW t \in Threads, obj[t] \notin met
      PROVE  pc[t] # "failed" /\ (pc[t] = "got" => buf[t] = "whole")
    BY <1>1, Consts, Zenon DEF Intact, HandOK
<1>2. Inv /\ Intact => PinnedResolves
    BY <1>1, Zenon DEF PinnedResolves
<1> QED
    BY <1>2, Safety, PTL

\* When all is quiet, an unpinned object has left index and plasma, but for a
\* copy that the raylet resealed.
THEOREM FreedLeaves == Spec => []FreedIsGone
<1>1. ASSUME Tidy, Quiet, ~down, NEW i \in known
      PROVE  Pinned(refs[i]) \/ (i \notin index /\ (plasma[i] = Absent \/ plasma[i].by \in Pullers))
    <2>1. \A t \in Threads : pc[t] = "idle"
        BY <1>1, Consts, Zenon DEF Quiet
    <2>2. Swept(i)
        BY <1>1, Zenon DEF Tidy
    <2> QED
        BY <2>1, <2>2, Zenon DEF Swept, Sweeping
<1>2. Tidy => FreedIsGone
    BY <1>1, Zenon DEF FreedIsGone
<1> QED
    BY <1>2, Safety, PTL
=============================================================================
