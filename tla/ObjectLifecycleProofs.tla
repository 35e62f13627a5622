----------------------- MODULE ObjectLifecycleProofs ------------------------
(***************************************************************************)
(* Proofs about ObjectLifecycle for any set of objects, driver threads,    *)
(* raylet threads and borrowers, and any spill threshold: no held object   *)
(* is lost.                                                                *)
(*                                                                         *)
(* The inductive invariant Inv says where the bytes of a live object are   *)
(* while threads spill, restore and free it, and what each of them relies  *)
(* on between two of its steps.                                            *)
(***************************************************************************)
EXTENDS ObjectLifecycle, FiniteSetTheorems, TLAPS

-----------------------------------------------------------------------------
(* The invariant.                                                          *)

\* No put has begun to make the id; its put is on the way to index and reference;
\* the object must not be lost.
Fresh(i) == i \notin known /\ \A t \in Threads : minting[t] # i
Coming(i) == \E t \in Threads : minting[t] = i /\ pc[t] \in {"put_index", "put_own"}
Live(i) == Held(i) \/ Coming(i)

\* The spill record leads to a file.
OnDisk(i) == i \in spilled /\ file[i] # "none"

\* The steps of create_and_seal, and those of a resolve that relies on the
\* spill record.
Copying == {"insert", "write", "seal"}
Restoring == {"restore_dir", "restore_file", "reseal"} \cup Copying

\* A put in progress: its id is out of everyone else's reach, and is in the
\* index before the reference is taken.
MintOK(t) ==
    /\ minting[t] # None <=> pc[t] \in PutSteps \cup SpillSteps
    /\ pc[t] \in PutSteps => obj[t] = minting[t]
    /\ minting[t] \notin known
    /\ \A u \in Threads : minting[t] = minting[u] => t = u \/ minting[t] = None
    /\ pc[t] = "put_own" => obj[t] \in index

\* What a driver thread relies on: it frees and evicts only what is not live,
\* and the caller of get, like the put in progress, still holds its reference.
ThreadOK(t) ==
    /\ pc[t] # "reopen"
    /\ \A i \in todo[t] : ~Fresh(i)
    /\ pc[t] \in FreeSteps \cup {"evict_plasma"} => ~Live(obj[t])
    /\ pc[t] \in EvictSteps => \A i \in todo[t] : ~Live(i)
    /\ ~down /\ pc[t] \in GetSteps => refs[obj[t]].local > 0
    /\ ~down /\ minting[t] # None /\ pc[t] \notin {"put_index", "put_own"}
          => refs[minting[t]].local > 0

\* What any process relies on: the mutex while it copies, the spill record
\* while it restores or is about to delete the plasma copy, bytes in hand.
ProcOK(p) ==
    /\ p \in Pullers => pc[p] \in {"idle"} \cup GetSteps \cup Outcomes
    /\ obj[p] = None => pc[p] \in {"idle", "evict"}
    /\ obj[p] # None => ~Fresh(obj[p])
    /\ pc[p] \in Copying => lock[Conn(p)] = p
    /\ pc[p] \in {"spill_delete"} \cup Restoring => (Live(obj[p]) => OnDisk(obj[p]))
    /\ pc[p] = "purge" => ~Live(obj[p])
    /\ pc[p] = "spill_dir" => (Live(obj[p]) => file[obj[p]] # "none")
    /\ pc[p] \in {"spill_file", "reseal"} \cup Copying => buf[p] # "none"

\* Where an object is: untracked before it is owned, indexed while held, and
\* sealed in plasma or on disk while live.
ObjectOK(i) ==
    /\ Fresh(i) \/ Coming(i) => refs[i] = Untracked
    /\ Fresh(i) => i \notin index /\ i \notin spilled
    /\ firm[i] \subseteq refs[i].borrowers
    /\ Held(i) => i \in index
    /\ Live(i) => plasma[i].st = "sealed" \/ OnDisk(i)
    /\ Live(i) /\ i \in spilled => file[i] # "none"
    /\ plasma[i].st = "absent" => plasma[i] = Absent
    /\ plasma[i].st # "absent" => plasma[i].bytes # "none"

\* All of it.
Inv ==
    /\ TypeOK
    /\ \A t \in Threads : MintOK(t) /\ ThreadOK(t)
    /\ \A p \in Procs : ProcOK(p)
    /\ \A i \in Ids : ObjectOK(i)

\* A step of p leaves the other processes where they are.
Frame(p) ==
    /\ down => down'
    /\ \A q \in Procs : q # p => pc'[q] = pc[q] /\ obj'[q] = obj[q] /\ buf'[q] = buf[q]
    /\ \A t \in Threads : t # p => minting'[t] = minting[t] /\ todo'[t] = todo[t]

\* What the other processes may go on relying on for object i, whatever p did:
\* it is no fresher and no livelier, its record, file and index entry stay while
\* it is live, and a reference that a get relies on is not dropped.
Keeps(p, i) ==
    /\ Fresh(i)' => Fresh(i)
    /\ Live(i)' => Live(i) \/ Fresh(i)
    /\ Live(i)' /\ OnDisk(i) => OnDisk(i)'
    /\ Live(i)' /\ file[i] # "none" => file'[i] # "none"
    /\ Live(i)' /\ i \in index => i \in index'
    /\ \A t \in Threads : t # p =>
         /\ minting[t] = i => i \notin known'
         /\ p \in Threads /\ minting[t] = i => minting'[p] # i
    /\ ~down' /\ refs[i].local > 0 => refs'[i].local > 0 \/ (~Resolving(i) /\ i \in known)

\* Only the holder lets go of a mutex.
KeepsLocks(p) == \A k \in Connections : lock[k] \in {None, p} \/ lock'[k] = lock[k]

\* Processes are not objects, and None is neither.
LEMMA Consts == None \notin Ids /\ None \notin Procs /\ Threads \subseteq Procs /\ Pullers \subseteq Procs
                /\ Threads \cap Pullers = {}
BY LifecycleAssumption, Zenon DEF Procs

\* An absent entry is an entry.
LEMMA AbsentType == Absent \in PlasmaEntry
BY Zenon DEF Absent, PlasmaEntry, Contents

\* The index has a size, which maybe_spill_for_pressure computes.
LEMMA IndexFinite == ASSUME index \subseteq Ids PROVE Cardinality(index) \in Nat
<1>1. IsFiniteSet(index)
    BY LifecycleAssumption, FS_Subset, Zenon
<1> QED
    BY <1>1, FS_CardinalityType, Zenon

\* A step that keeps what the others rely on keeps their part of the invariant.
LEMMA OthersKept ==
    ASSUME Inv, TypeOK', NEW p, Frame(p), \A i \in Ids : Keeps(p, i), KeepsLocks(p),
           NEW q \in Procs, q # p
    PROVE  ProcOK(q)' /\ (q \in Threads => MintOK(q)' /\ ThreadOK(q)')
<1>1. pc'[q] = pc[q] /\ obj'[q] = obj[q] /\ buf'[q] = buf[q]
    BY Zenon DEF Frame
<1>2. obj[q] \in Ids \cup {None} /\ ProcOK(q)
    BY Zenon DEF Inv, TypeOK
<1>3. ASSUME obj[q] # None
      PROVE  /\ ~Fresh(obj[q])'
             /\ Live(obj[q])' => Live(obj[q])
             /\ Live(obj[q])' /\ OnDisk(obj[q]) => OnDisk(obj[q])'
             /\ Live(obj[q])' /\ file[obj[q]] # "none" => (file[obj[q]] # "none")'
    <2>1. Keeps(p, obj[q]) /\ ~Fresh(obj[q])
        BY <1>2, <1>3, Zenon DEF ProcOK
    <2> QED
        BY <1>1, <2>1, Zenon DEF Keeps
<1>4. pc[q] \in Copying => (lock[Conn(q)] = q)'
    BY <1>2, Consts DEF KeepsLocks, ProcOK, Conn, Connections
<1>5. ProcOK(q)'
    BY <1>1, <1>2, <1>3, <1>4, Zenon DEF ProcOK, Restoring, Copying
<1>6. ASSUME q \in Threads PROVE MintOK(q)' /\ ThreadOK(q)'
    <2>1. minting'[q] = minting[q] /\ todo'[q] = todo[q] /\ todo[q] \subseteq Ids
          /\ MintOK(q) /\ ThreadOK(q) /\ minting[q] \in Ids \cup {None}
        BY <1>6, Zenon DEF Frame, Inv, TypeOK
    <2>2. ASSUME minting[q] # None
          PROVE  /\ minting[q] \notin known'
                 /\ \A u \in Threads : minting'[u] = minting[q] => u = q
        <3>1. Keeps(p, minting[q])
            BY <2>1, <2>2, Zenon
        <3>2. minting[q] \notin known' /\ (p \in Threads => minting'[p] # minting[q])
            BY <1>6, <3>1, Zenon DEF Keeps
        <3>3. \A u \in Threads : u # p => minting'[u] = minting[u]
            BY Zenon DEF Frame
        <3> QED
            BY <2>1, <2>2, <3>2, <3>3, Zenon DEF MintOK
    <2>3. pc[q] = "put_own" => (obj[q] \in index)'
        <3> SUFFICES ASSUME pc[q] = "put_own" PROVE (obj[q] \in index)'
            BY Zenon
        <3>1. obj[q] = minting[q] /\ minting[q] \in Ids /\ obj[q] \in index
            BY <2>1, Zenon DEF MintOK, PutSteps
        <3>2. Coming(obj[q])'
            BY <1>1, <1>6, <2>1, <3>1, Zenon DEF Coming
        <3>3. Live(obj[q])' /\ Keeps(p, obj[q])
            BY <3>1, <3>2, Zenon DEF Live
        <3> QED
            BY <1>1, <3>1, <3>3, Zenon DEF Keeps
    <2>4. MintOK(q)'
        <3>1. None \notin known'
            BY Consts, Zenon DEF TypeOK
        <3> QED
            BY <1>1, <2>1, <2>2, <2>3, <3>1, Zenon DEF MintOK
    <2>5. \A i \in todo[q] : ~Fresh(i)' /\ (~Live(i) => ~Live(i)')
        BY <2>1, Zenon DEF Keeps, ThreadOK
    <2>6. ~down' /\ pc[q] \in GetSteps => refs'[obj[q]].local > 0
        <3> SUFFICES ASSUME ~down', pc[q] \in GetSteps PROVE refs'[obj[q]].local > 0
            BY Zenon
        <3>1. ~down /\ obj[q] # None
            BY <1>2, Zenon DEF Frame, ProcOK, GetSteps
        <3>2. Keeps(p, obj[q]) /\ Resolving(obj[q]) /\ refs[obj[q]].local > 0
            BY <1>2, <1>6, <2>1, <3>1, Zenon DEF Resolving, ThreadOK
        <3> QED
            BY <3>2, Zenon DEF Keeps
    <2>7. ~down' /\ minting[q] # None /\ pc[q] \notin {"put_index", "put_own"}
             => refs'[minting[q]].local > 0
        <3> SUFFICES ASSUME ~down', minting[q] # None, pc[q] \notin {"put_index", "put_own"}
                     PROVE  refs'[minting[q]].local > 0
            BY Zenon
        <3>1. ~down /\ minting[q] \notin known /\ Keeps(p, minting[q])
            BY <2>1, Zenon DEF Frame, MintOK
        <3>2. refs[minting[q]].local > 0
            BY <2>1, <3>1, Zenon DEF ThreadOK
        <3> QED
            BY <3>1, <3>2, Zenon DEF Keeps
    <2>8. ThreadOK(q)'
        <3>1. pc[q] \in FreeSteps \cup {"evict_plasma"} => obj[q] # None
            BY <1>2, Zenon DEF ProcOK, FreeSteps
        <3> QED
            BY <1>1, <1>3, <2>1, <2>5, <2>6, <2>7, <3>1, Zenon DEF ThreadOK
    <2> QED
        BY <2>4, <2>8, Zenon
<1> QED
    BY <1>5, <1>6, Zenon

\* So it keeps the invariant when it also keeps its own part and the objects'.
LEMMA OneProcess ==
    ASSUME Inv, TypeOK', NEW p, Frame(p), \A i \in Ids : Keeps(p, i), KeepsLocks(p),
           p \in Procs => ProcOK(p)', p \in Threads => MintOK(p)' /\ ThreadOK(p)',
           \A i \in Ids : ObjectOK(i)'
    PROVE  Inv'
BY OthersKept, Consts, Zenon DEF Inv

-----------------------------------------------------------------------------
(* Steps that leave the reference table alone.                             *)

\* A step that mints no id and publishes none.
SameNames(t) ==
    /\ Frame(t) /\ known' = known
    /\ t \in Threads =>
          /\ minting'[t] = minting[t]
          /\ pc'[t] \in {"put_index", "put_own"} => pc[t] \in {"put_index", "put_own"}

\* Nor does it touch the reference table.
Still(t) == SameNames(t) /\ UNCHANGED <<refs, firm>>

\* What such a step may do to an object: a live one keeps its record, file and
\* index entry, and does not lose its last copy.
Harmless(i) ==
    /\ Live(i) => /\ i \in spilled => i \in spilled'
                  /\ file[i] # "none" => file'[i] # "none"
                  /\ i \in index => i \in index'
                  /\ i \in spilled' => i \in spilled \/ file'[i] # "none"
    /\ Fresh(i) => (i \in index' => i \in index) /\ (i \in spilled' => i \in spilled)
    /\ \/ plasma'[i] = plasma[i]
       \/ /\ plasma'[i].st = "absent" => plasma'[i] = Absent
          /\ plasma'[i].st # "absent" => plasma'[i].bytes # "none"
          /\ Live(i) => plasma'[i].st = "sealed" \/ OnDisk(i)'

\* What a process knew of an object before a still and harmless step.
Steady(j) ==
    /\ Fresh(j)' <=> Fresh(j)
    /\ Live(j)' => Live(j)
    /\ Live(j) /\ OnDisk(j) => OnDisk(j)'
    /\ Live(j) /\ file[j] # "none" => file'[j] # "none"

\* Such a step makes no id fresh, and none that is being put public.
LEMMA NamesKept ==
    ASSUME NEW t, SameNames(t), NEW i \in Ids
    PROVE  /\ Fresh(i)' <=> Fresh(i)
           /\ Coming(i)' => Coming(i)
           /\ (\A u \in Threads : MintOK(u)) =>
                 \A u \in Threads : u # t /\ minting[u] = i =>
                    i \notin known' /\ (t \in Threads => minting'[t] # i)
<1>1. \A u \in Threads : minting'[u] = minting[u]
                          /\ (pc'[u] \in {"put_index", "put_own"} => pc[u] \in {"put_index", "put_own"})
    BY Consts, Zenon DEF SameNames, Frame
<1>2. Fresh(i)' <=> Fresh(i)
    BY <1>1, Zenon DEF SameNames, Fresh
<1>3. Coming(i)' => Coming(i)
    BY <1>1, Zenon DEF Coming
<1>4. ASSUME \A u \in Threads : MintOK(u), NEW u \in Threads, u # t, minting[u] = i
      PROVE  i \notin known' /\ (t \in Threads => minting'[t] # i)
    BY <1>4, Consts, Zenon DEF MintOK, SameNames
<1> QED
    BY <1>2, <1>3, <1>4, Zenon

\* With the table unchanged, nothing becomes live.
LEMMA StillNames ==
    ASSUME NEW t, Still(t), NEW i \in Ids
    PROVE  (Fresh(i)' <=> Fresh(i)) /\ (Coming(i)' => Coming(i)) /\ (Held(i)' <=> Held(i)) /\ (Live(i)' => Live(i))
<1>1. Held(i)' <=> Held(i)
    BY Zenon DEF Still, Held
<1> QED
    BY <1>1, NamesKept, Zenon DEF Still, Live

\* A still and harmless step leaves what was known of an object.
LEMMA StillSteady == ASSUME NEW t, Still(t), NEW j \in Ids, Harmless(j) PROVE Steady(j)
BY StillNames, Zenon DEF Steady, Harmless, OnDisk

\* A still step that is harmless to every object keeps the invariant.
LEMMA StillStep ==
    ASSUME Inv, TypeOK', NEW t \in Procs, Still(t), KeepsLocks(t), \A i \in Ids : Harmless(i),
           ProcOK(t)', t \in Threads => MintOK(t)' /\ ThreadOK(t)'
    PROVE  Inv'
<1>1. ASSUME NEW i \in Ids PROVE Keeps(t, i) /\ ObjectOK(i)'
    <2>1. (Fresh(i)' <=> Fresh(i)) /\ (Coming(i)' => Coming(i)) /\ (Held(i)' <=> Held(i)) /\ (Live(i)' => Live(i))
        BY StillNames, Zenon
    <2>2. Harmless(i) /\ ObjectOK(i)
        BY Zenon DEF Inv
    <2>3. ASSUME NEW u \in Threads, u # t, minting[u] = i
          PROVE  i \notin known' /\ (t \in Threads => minting'[t] # i)
        BY <2>3, NamesKept, Zenon DEF Inv, Still
    <2>4. Live(i)' /\ OnDisk(i) => OnDisk(i)'
        BY <2>1, Zenon DEF Harmless, OnDisk
    <2>5. Keeps(t, i)
        BY <2>1, <2>3, <2>4, Zenon DEF Keeps, Harmless, Still
    <2>6. Live(i)' => plasma'[i].st = "sealed" \/ OnDisk(i)'
        BY <2>1, <2>2, <2>4, Zenon DEF ObjectOK, Harmless
    <2>7. /\ Fresh(i)' \/ Coming(i)' => refs'[i] = Untracked
          /\ Fresh(i)' => i \notin index' /\ i \notin spilled'
          /\ firm'[i] \subseteq refs'[i].borrowers
          /\ Held(i)' => i \in index'
          /\ Live(i)' /\ i \in spilled' => file'[i] # "none"
        BY <2>1, <2>2, Zenon DEF ObjectOK, Harmless, Still, Live
    <2>8. /\ plasma'[i].st = "absent" => plasma'[i] = Absent
          /\ plasma'[i].st # "absent" => plasma'[i].bytes # "none"
        BY <2>2, Zenon DEF ObjectOK, Harmless
    <2> QED
        BY <2>5, <2>6, <2>7, <2>8, Zenon DEF ObjectOK
<1>2. Frame(t)
    BY Zenon DEF Still, SameNames
<1> QED
    BY <1>1, <1>2, OneProcess, Zenon

\* PutIndex: the new id enters the index; nobody else can name it.
LEMMA PutIndexStep == ASSUME Inv, NEW t \in Threads, PutIndex(t) PROVE Inv' /\ Still(t)
<1>0. TypeOK /\ t \in Procs /\ ProcOK(t) /\ obj[t] \in Ids /\ ObjectOK(obj[t]) /\ MintOK(t) /\ ThreadOK(t)
    BY Consts, Zenon DEF Inv, TypeOK, ProcOK, PutIndex
<1>1. TypeOK'
    BY <1>0, Zenon DEF TypeOK, PutIndex, Goto, PutSteps
<1>2. Still(t)
    BY <1>0, Zenon DEF TypeOK, Still, SameNames, Frame, PutIndex, Goto
<1>3. KeepsLocks(t)
    BY Zenon DEF KeepsLocks, PutIndex
<1>4. ASSUME NEW j \in Ids PROVE Harmless(j)
    BY <1>0, Zenon DEF ProcOK, Harmless, PutIndex
<1>5. ASSUME NEW j \in Ids PROVE Steady(j)
    BY <1>2, <1>4, StillSteady, Zenon
<1>6. ProcOK(t)'
    BY <1>0, <1>5, Consts, Zenon DEF Steady, ProcOK, TypeOK, Restoring, Copying, PutIndex, Goto
<1>7. MintOK(t)'
    BY <1>0, Zenon DEF MintOK, TypeOK, PutIndex, Goto, PutSteps
<1>8. ThreadOK(t)'
    BY <1>0, <1>5, Zenon DEF Steady, ThreadOK, TypeOK, PutIndex, Goto, FreeSteps, EvictSteps,
                             GetSteps
<1> QED
    BY <1>1, <1>2, <1>3, <1>4, <1>6, <1>7, <1>8, Consts, StillStep, Zenon

\* PressureCheck: the victims are ids of the index, so none is fresh.
LEMMA PressureCheckStep == ASSUME Inv, NEW t \in Threads, PressureCheck(t) PROVE Inv' /\ Still(t)
<1>0. TypeOK /\ t \in Procs /\ ProcOK(t) /\ obj[t] \in Ids /\ ObjectOK(obj[t]) /\ MintOK(t) /\ ThreadOK(t)
    BY Consts, Zenon DEF Inv, TypeOK, ProcOK, PressureCheck
<1>1. TypeOK'
    <2>1. over' \in [Threads -> Nat]
        <3>1. Cardinality(index) \in Nat
            BY <1>0, IndexFinite, Zenon DEF TypeOK
        <3>2. (IF Cardinality(index) > Threshold THEN Cardinality(index) - Threshold ELSE 0) \in Nat
            BY <3>1, LifecycleAssumption
        <3> QED
            BY <1>0, <3>2, Zenon DEF TypeOK, PressureCheck
    <2> QED
        BY <1>0, <2>1, Zenon DEF TypeOK, PressureCheck, Goto, SpillSteps
<1>2. Still(t)
    BY <1>0, Zenon DEF TypeOK, Still, SameNames, Frame, PressureCheck, Goto
<1>3. KeepsLocks(t)
    BY Zenon DEF KeepsLocks, PressureCheck
<1>4. ASSUME NEW j \in Ids PROVE Harmless(j)
    BY Zenon DEF Harmless, PressureCheck
<1>5. ASSUME NEW j \in Ids PROVE Steady(j)
    BY <1>2, <1>4, StillSteady, Zenon
<1>6. ProcOK(t)'
    BY <1>0, <1>5, Consts, Zenon DEF Steady, ProcOK, TypeOK, Restoring, Copying, PressureCheck, Goto
<1>7. MintOK(t)'
    BY <1>0, Zenon DEF MintOK, TypeOK, PressureCheck, Goto, PutSteps, SpillSteps
<1>8. ThreadOK(t)'
    <2>1. \A j \in index : ~Fresh(j)
        BY Zenon DEF Inv, ObjectOK, TypeOK
    <2>2. pc[t] = "pressure" /\ pc'[t] = "pick" /\ todo'[t] = index /\ UNCHANGED <<down, minting, refs>>
        BY <1>0, Zenon DEF TypeOK, PressureCheck, Goto
    <2>3. \A j \in index : ~Fresh(j)'
        BY <1>0, <1>5, <2>1, Zenon DEF TypeOK, Steady
    <2> QED
        BY <1>0, <2>2, <2>3, Zenon DEF ThreadOK, FreeSteps, EvictSteps, GetSteps
<1> QED
    BY <1>1, <1>2, <1>3, <1>4, <1>6, <1>7, <1>8, Consts, StillStep, Zenon

\* PickVictim: the victim was in the index.
LEMMA PickVictimStep == ASSUME Inv, NEW t \in Threads, NEW i \in Ids, PickVictim(t, i) PROVE Inv' /\ Still(t)
<1>0. TypeOK /\ t \in Procs /\ ProcOK(t) /\ MintOK(t) /\ ThreadOK(t)
    BY Consts, Zenon DEF Inv
<1>1. TypeOK'
    BY <1>0, Zenon DEF TypeOK, PickVictim, SpillSteps
<1>2. Still(t)
    BY <1>0, Zenon DEF TypeOK, Still, SameNames, Frame, PickVictim
<1>3. KeepsLocks(t)
    BY Zenon DEF KeepsLocks, PickVictim
<1>4. ASSUME NEW j \in Ids PROVE Harmless(j)
    BY Zenon DEF Harmless, PickVictim
<1>5. ASSUME NEW j \in Ids PROVE Steady(j)
    BY <1>2, <1>4, StillSteady, Zenon
<1>6. ProcOK(t)'
    <2>1. ~Fresh(i)
        BY <1>0, Zenon DEF ThreadOK, PickVictim
    <2>2. pc'[t] = "spill_read" /\ obj'[t] = i /\ t \in Procs
        BY <1>0, Zenon DEF TypeOK, PickVictim
    <2>3. ~Fresh(i)'
        BY <1>5, <2>1, Zenon DEF Steady
    <2> QED
        BY <2>2, <2>3, Consts, Zenon DEF ProcOK, Restoring, Copying
<1>7. MintOK(t)'
    BY <1>0, Zenon DEF MintOK, TypeOK, PickVictim, PutSteps, SpillSteps
<1>8. ThreadOK(t)'
    BY <1>0, <1>5, Zenon DEF Steady, ThreadOK, TypeOK, PickVictim, FreeSteps, EvictSteps, GetSteps
<1> QED
    BY <1>1, <1>2, <1>3, <1>4, <1>6, <1>7, <1>8, Consts, StillStep, Zenon

\* SpillRead: a sealed entry has bytes to take in hand.
LEMMA SpillReadStep == ASSUME Inv, NEW t \in Threads, SpillRead(t) PROVE Inv' /\ Still(t)
<1>0. TypeOK /\ t \in Procs /\ ProcOK(t) /\ obj[t] \in Ids /\ ObjectOK(obj[t]) /\ MintOK(t) /\ ThreadOK(t)
    BY Consts, Zenon DEF Inv, TypeOK, ProcOK, SpillRead
<1>1. TypeOK'
    <2>1. plasma[obj[t]].bytes \in Contents
        BY <1>0, Zenon DEF TypeOK, PlasmaEntry
    <2>2. buf' = buf \/ buf' = [buf EXCEPT ![t] = plasma[obj[t]].bytes]
        BY Zenon DEF SpillRead
    <2>3. buf' \in [Procs -> Contents]
        BY <1>0, <2>1, <2>2, Zenon DEF TypeOK
    <2>4. over' \in [Threads -> Nat]
        <3>1. SaturatingDec(over[t]) \in Nat
            BY <1>0 DEF TypeOK, SaturatingDec
        <3>2. over' = over \/ over' = [over EXCEPT ![t] = SaturatingDec(over[t])]
            BY Zenon DEF SpillRead
        <3> QED
            BY <1>0, <3>1, <3>2, Zenon DEF TypeOK
    <2>5. pc' = [pc EXCEPT ![t] = "spill_file"] \/ pc' = [pc EXCEPT ![t] = "pick"]
        BY Zenon DEF SpillRead, Goto
    <2> QED
        BY <1>0, <2>3, <2>4, Zenon DEF TypeOK, SpillRead, Goto, SpillSteps
<1>2. Still(t)
    BY <1>0, Zenon DEF TypeOK, Still, SameNames, Frame, SpillRead, Goto
<1>3. KeepsLocks(t)
    BY Zenon DEF KeepsLocks, SpillRead
<1>4. ASSUME NEW j \in Ids PROVE Harmless(j)
    BY <1>0, Zenon DEF ProcOK, Harmless, SpillRead
<1>5. ASSUME NEW j \in Ids PROVE Steady(j)
    BY <1>2, <1>4, StillSteady, Zenon
<1>6. ProcOK(t)'
    <2>1. pc[t] = "spill_read" /\ pc'[t] \in {"spill_file", "pick"} /\ UNCHANGED <<obj, lock>>
        BY <1>0, Zenon DEF TypeOK, SpillRead, Goto
    <2>2. pc'[t] = "spill_file" => plasma[obj[t]].st = "sealed" /\ buf'[t] = plasma[obj[t]].bytes
        BY <1>0, Zenon DEF TypeOK, SpillRead, Goto
    <2>3. ~Fresh(obj[t])'
        BY <1>0, <1>5, <2>1, Consts, Zenon DEF Steady, ProcOK
    <2>4. pc'[t] = "spill_file" => buf'[t] # "none"
        BY <1>0, <2>2 DEF ObjectOK
    <2> QED
        BY <1>0, <2>1, <2>3, <2>4, Consts DEF ProcOK, Restoring, Copying
<1>7. MintOK(t)'
    BY <1>0, Zenon DEF MintOK, TypeOK, SpillRead, Goto, PutSteps, SpillSteps
<1>8. ThreadOK(t)'
    <2>1. pc[t] \in {"spill_read"} /\ pc'[t] \in {"spill_file", "pick"} /\ UNCHANGED <<obj, down>>
          /\ (t \in Threads => todo'[t] = todo[t] /\ minting'[t] = minting[t]) /\ refs' = refs
        BY <1>0, Zenon DEF TypeOK, SpillRead, Goto
    <2>2. t \in Threads => \A i \in todo[t] : i \in Ids /\ ~Fresh(i)'
        BY <1>0, <1>5, Zenon DEF Steady, ThreadOK, TypeOK
    <2> QED
        BY <1>0, <2>1, <2>2 DEF ThreadOK, FreeSteps, EvictSteps, GetSteps
<1> QED
    BY <1>1, <1>2, <1>3, <1>4, <1>6, <1>7, <1>8, Consts, StillStep, Zenon

\* SpillFile: the bytes in hand make a file.
LEMMA SpillFileStep == ASSUME Inv, NEW t \in Threads, SpillFile(t) PROVE Inv' /\ Still(t)
<1>0. TypeOK /\ t \in Procs /\ ProcOK(t) /\ obj[t] \in Ids /\ ObjectOK(obj[t]) /\ MintOK(t) /\ ThreadOK(t)
    BY Consts, Zenon DEF Inv, TypeOK, ProcOK, SpillFile
<1>1. TypeOK'
    BY <1>0, Zenon DEF TypeOK, SpillFile, Goto, SpillSteps, FreeSteps
<1>2. Still(t)
    BY <1>0, Zenon DEF TypeOK, Still, SameNames, Frame, SpillFile, Goto
<1>3. KeepsLocks(t)
    BY Zenon DEF TypeOK, KeepsLocks, SpillFile
<1>4. ASSUME NEW j \in Ids PROVE Harmless(j)
    BY <1>0, Zenon DEF TypeOK, ProcOK, Harmless, SpillFile
<1>5. ASSUME NEW j \in Ids PROVE Steady(j)
    BY <1>2, <1>4, StillSteady, Zenon
<1>6. ProcOK(t)'
    BY <1>0, <1>5, Consts, Zenon DEF Steady, ProcOK, TypeOK, Restoring, Copying, SpillFile, Goto
<1>7. MintOK(t)'
    BY <1>0 DEF MintOK, SpillFile, Goto, PutSteps, SpillSteps
<1>8. ThreadOK(t)'
    BY <1>0, <1>5, Zenon DEF Steady, ThreadOK, TypeOK, SpillFile, Goto, FreeSteps, EvictSteps,
                             GetSteps
<1> QED
    BY <1>1, <1>2, <1>3, <1>4, <1>6, <1>7, <1>8, Consts, StillStep, Zenon

\* SpillFileFails: nothing changes but the thread.
LEMMA SpillFileFailsStep == ASSUME Inv, NEW t \in Threads, SpillFileFails(t) PROVE Inv' /\ Still(t)
<1>0. TypeOK /\ t \in Procs /\ ProcOK(t) /\ obj[t] \in Ids /\ ObjectOK(obj[t]) /\ MintOK(t) /\ ThreadOK(t)
    BY Consts, Zenon DEF Inv, TypeOK, ProcOK, SpillFileFails
<1>1. TypeOK'
    BY <1>0, Zenon DEF TypeOK, Contents, SpillFileFails, Goto, SpillSteps
<1>2. Still(t)
    BY <1>0, Zenon DEF TypeOK, Still, SameNames, Frame, SpillFileFails, Goto
<1>3. KeepsLocks(t)
    BY Zenon DEF TypeOK, KeepsLocks, SpillFileFails
<1>4. ASSUME NEW j \in Ids PROVE Harmless(j)
    BY <1>0, Zenon DEF TypeOK, ProcOK, Harmless, SpillFileFails
<1>5. ASSUME NEW j \in Ids PROVE Steady(j)
    BY <1>2, <1>4, StillSteady, Zenon
<1>6. ProcOK(t)'
    BY <1>0, <1>5, Consts, Zenon DEF Steady, ProcOK, TypeOK, Restoring, Copying, SpillFileFails,
                                     Goto
<1>7. MintOK(t)'
    BY <1>0, Zenon DEF MintOK, TypeOK, SpillFileFails, Goto, PutSteps, SpillSteps
<1>8. ThreadOK(t)'
    BY <1>0, <1>5, Zenon DEF Steady, ThreadOK, TypeOK, SpillFileFails, Goto, FreeSteps, EvictSteps,
                             GetSteps
<1> QED
    BY <1>1, <1>2, <1>3, <1>4, <1>6, <1>7, <1>8, Consts, StillStep, Zenon

\* SpillDir: the record of a live object leads to the file just written.
LEMMA SpillDirStep == ASSUME Inv, NEW t \in Threads, SpillDir(t) PROVE Inv' /\ Still(t)
<1>0. TypeOK /\ t \in Procs /\ ProcOK(t) /\ obj[t] \in Ids /\ ObjectOK(obj[t]) /\ MintOK(t) /\ ThreadOK(t)
    BY Consts, Zenon DEF Inv, TypeOK, ProcOK, SpillDir
<1>1. TypeOK'
    BY <1>0, Zenon DEF TypeOK, Contents, SpillDir, Goto, SpillSteps
<1>2. Still(t)
    BY <1>0, Zenon DEF TypeOK, Still, SameNames, Frame, SpillDir, Goto
<1>3. KeepsLocks(t)
    BY Zenon DEF TypeOK, KeepsLocks, SpillDir
<1>4. ASSUME NEW j \in Ids PROVE Harmless(j)
    BY <1>0, Zenon DEF TypeOK, ProcOK, Harmless, SpillDir
<1>5. ASSUME NEW j \in Ids PROVE Steady(j)
    BY <1>2, <1>4, StillSteady, Zenon
<1>6. ProcOK(t)'
    BY <1>0, <1>5, Consts, Zenon DEF Steady, ProcOK, TypeOK, OnDisk, Copying, SpillDir, Goto
<1>7. MintOK(t)'
    BY <1>0 DEF MintOK, SpillDir, Goto, PutSteps, SpillSteps
<1>8. ThreadOK(t)'
    BY <1>0, <1>5, Zenon DEF Steady, ThreadOK, TypeOK, SpillDir, Goto, FreeSteps, EvictSteps,
                             GetSteps
<1> QED
    BY <1>1, <1>2, <1>3, <1>4, <1>6, <1>7, <1>8, Consts, StillStep, Zenon

\* SpillDelete: a live object is on disk before its plasma copy goes.
LEMMA SpillDeleteStep == ASSUME Inv, NEW t \in Threads, SpillDelete(t) PROVE Inv' /\ Still(t)
<1>0. TypeOK /\ t \in Procs /\ ProcOK(t) /\ obj[t] \in Ids /\ ObjectOK(obj[t]) /\ MintOK(t) /\ ThreadOK(t)
    BY Consts, Zenon DEF Inv, TypeOK, ProcOK, SpillDelete
<1>1. TypeOK'
    <2>1. over' \in [Threads -> Nat]
        <3>1. SaturatingDec(over[t]) \in Nat
            BY <1>0 DEF TypeOK, SaturatingDec
        <3> QED
            BY <1>0, <3>1, Zenon DEF TypeOK, SpillDelete
    <2>2. plasma' \in [Ids -> PlasmaEntry]
        BY <1>0, AbsentType, Zenon DEF TypeOK, SpillDelete
    <2> QED
        BY <1>0, <2>1, <2>2, Zenon DEF TypeOK, SpillDelete, Goto, SpillSteps
<1>2. Still(t)
    BY <1>0, Zenon DEF TypeOK, Still, SameNames, Frame, SpillDelete, Goto
<1>3. KeepsLocks(t)
    BY Zenon DEF KeepsLocks, SpillDelete
<1>4. ASSUME NEW j \in Ids PROVE Harmless(j)
    BY <1>0, Zenon DEF TypeOK, ProcOK, Harmless, OnDisk, Absent, SpillDelete
<1>5. ASSUME NEW j \in Ids PROVE Steady(j)
    BY <1>2, <1>4, StillSteady, Zenon
<1>6. ProcOK(t)'
    BY <1>0, <1>5, Consts, Zenon DEF Steady, ProcOK, TypeOK, Restoring, Copying, SpillDelete, Goto
<1>7. MintOK(t)'
    BY <1>0, Zenon DEF MintOK, TypeOK, SpillDelete, Goto, PutSteps, SpillSteps
<1>8. ThreadOK(t)'
    BY <1>0, <1>5, Zenon DEF Steady, ThreadOK, TypeOK, SpillDelete, Goto, FreeSteps, EvictSteps,
                             GetSteps
<1> QED
    BY <1>1, <1>2, <1>3, <1>4, <1>6, <1>7, <1>8, Consts, StillStep, Zenon

\* Get: the caller holds a reference.
LEMMA GetStep == ASSUME Inv, NEW t \in Threads, NEW i \in Ids, Get(t, i) PROVE Inv' /\ Still(t)
<1>0. TypeOK /\ t \in Procs /\ ProcOK(t) /\ MintOK(t) /\ ThreadOK(t)
    BY Consts, Zenon DEF Inv
<1>1. TypeOK'
    BY <1>0, Zenon DEF TypeOK, Get, Begin, GetSteps
<1>2. Still(t)
    BY <1>0, Zenon DEF TypeOK, Still, SameNames, Frame, Get, Begin
<1>3. KeepsLocks(t)
    BY Zenon DEF KeepsLocks, Get
<1>4. ASSUME NEW j \in Ids PROVE Harmless(j)
    BY Zenon DEF Harmless, Get
<1>5. ASSUME NEW j \in Ids PROVE Steady(j)
    BY <1>2, <1>4, StillSteady, Zenon
<1>6. ProcOK(t)'
    <2>1. ~Fresh(i)
        BY Zenon DEF Fresh, Get
    <2>2. pc'[t] = "get" /\ obj'[t] = i /\ t \in Procs
        BY <1>0, Zenon DEF TypeOK, Get, Begin
    <2>3. ~Fresh(i)'
        BY <1>5, <2>1, Zenon DEF Steady
    <2> QED
        BY <2>2, <2>3, Consts, Zenon DEF ProcOK, Restoring, Copying
<1>7. MintOK(t)'
    BY <1>0, Zenon DEF MintOK, TypeOK, Get, Begin, PutSteps, SpillSteps
<1>8. ThreadOK(t)'
    BY <1>0, <1>5, Zenon DEF Steady, ThreadOK, TypeOK, Get, Begin, FreeSteps, EvictSteps
<1> QED
    BY <1>1, <1>2, <1>3, <1>4, <1>6, <1>7, <1>8, Consts, StillStep, Zenon

\* Pull: the id has been published.
LEMMA PullStep == ASSUME Inv, NEW t \in Pullers, NEW i \in Ids, Pull(t, i) PROVE Inv' /\ Still(t)
<1>0. TypeOK /\ t \in Procs /\ ProcOK(t)
    BY Consts, Zenon DEF Inv
<1>1. TypeOK'
    BY <1>0, Zenon DEF TypeOK, Pull, Begin, GetSteps
<1>2. Still(t)
    BY <1>0, Zenon DEF TypeOK, Still, SameNames, Frame, Pull, Begin
<1>3. KeepsLocks(t)
    BY Zenon DEF KeepsLocks, Pull
<1>4. ASSUME NEW j \in Ids PROVE Harmless(j)
    BY Zenon DEF Harmless, Pull
<1>5. ASSUME NEW j \in Ids PROVE Steady(j)
    BY <1>2, <1>4, StillSteady, Zenon
<1>6. ProcOK(t)'
    <2>1. ~Fresh(i)
        BY Zenon DEF Fresh, Pull
    <2>2. pc'[t] = "get" /\ obj'[t] = i /\ t \in Procs
        BY <1>0, Zenon DEF TypeOK, Pull, Begin
    <2>3. ~Fresh(i)'
        BY <1>5, <2>1, Zenon DEF Steady
    <2> QED
        BY <2>2, <2>3, Consts, Zenon DEF ProcOK, Restoring, Copying, GetSteps
<1> QED
    BY <1>1, <1>2, <1>3, <1>4, <1>6, Consts, StillStep, Zenon

\* ReadPlasma: a live object missing from plasma is on disk.
LEMMA ReadPlasmaStep == ASSUME Inv, NEW t \in Procs, ReadPlasma(t) PROVE Inv' /\ Still(t)
<1>0. TypeOK /\ t \in Procs /\ ProcOK(t) /\ obj[t] \in Ids /\ ObjectOK(obj[t])
      /\ (t \in Threads => MintOK(t) /\ ThreadOK(t))
    BY Zenon DEF Inv, TypeOK, ProcOK, ReadPlasma
<1>1. TypeOK'
    <2>1. plasma[obj[t]].bytes \in Contents
        BY <1>0, Zenon DEF TypeOK, PlasmaEntry
    <2>2. buf' = buf \/ buf' = [buf EXCEPT ![t] = plasma[obj[t]].bytes]
        BY Zenon DEF ReadPlasma
    <2>3. buf' \in [Procs -> Contents]
        BY <1>0, <2>1, <2>2, Zenon DEF TypeOK
    <2>4. met' \subseteq Ids
        BY <1>0, Zenon DEF TypeOK, ReadPlasma, Meets
    <2>5. \E s \in GetSteps \cup Outcomes : pc' = [pc EXCEPT ![t] = s]
        BY Zenon DEF ReadPlasma, Goto, GetSteps, Outcomes
    <2> QED
        BY <1>0, <2>3, <2>4, <2>5 DEF TypeOK, ReadPlasma, Goto
<1>2. Still(t)
    BY <1>0, Zenon DEF TypeOK, Still, SameNames, Frame, ReadPlasma, Goto
<1>3. KeepsLocks(t)
    BY Zenon DEF KeepsLocks, ReadPlasma
<1>4. ASSUME NEW j \in Ids PROVE Harmless(j)
    BY <1>0, Zenon DEF ProcOK, Harmless, ReadPlasma
<1>5. ASSUME NEW j \in Ids PROVE Steady(j)
    BY <1>2, <1>4, StillSteady, Zenon
<1>6. ProcOK(t)'
    <2>1. pc[t] = "get" /\ pc'[t] \in {"got", "restore_dir", "failed"} /\ UNCHANGED <<obj, lock>>
        BY <1>0, Zenon DEF TypeOK, ReadPlasma, Goto
    <2>2. pc'[t] = "restore_dir" => plasma[obj[t]].st = "absent"
        BY <1>0, Zenon DEF TypeOK, ReadPlasma, Goto
    <2>3. ~Fresh(obj[t])' /\ (Live(obj[t])' => Live(obj[t])) /\ (Live(obj[t]) /\ OnDisk(obj[t]) => OnDisk(obj[t])')
        BY <1>0, <1>5, <2>1, Consts, Zenon DEF Steady, ProcOK
    <2>4. pc'[t] = "restore_dir" => (Live(obj[t])' => OnDisk(obj[t])')
        BY <1>0, <2>2, <2>3 DEF ObjectOK
    <2> QED
        BY <1>0, <2>1, <2>3, <2>4 DEF ProcOK, Restoring, Copying, GetSteps, Outcomes
<1>7. t \in Threads => MintOK(t)'
    BY <1>0, ZenonT(30) DEF MintOK, TypeOK, ReadPlasma, Goto, PutSteps, SpillSteps
<1>8. t \in Threads => ThreadOK(t)'
    <2>1. pc[t] \in {"get"} /\ pc'[t] \in {"got", "restore_dir", "failed"} /\ UNCHANGED <<obj, down>>
          /\ (t \in Threads => todo'[t] = todo[t] /\ minting'[t] = minting[t]) /\ refs' = refs
        BY <1>0, Zenon DEF TypeOK, ReadPlasma, Goto
    <2>2. t \in Threads => \A i \in todo[t] : i \in Ids /\ ~Fresh(i)'
        BY <1>0, <1>5, Zenon DEF Steady, ThreadOK, TypeOK
    <2> QED
        BY <1>0, <2>1, <2>2 DEF ThreadOK, FreeSteps, EvictSteps, GetSteps
<1> QED
    BY <1>1, <1>2, <1>3, <1>4, <1>6, <1>7, <1>8, Consts, StillStep, Zenon

\* RestoreLookup: the record of a live object is there.
LEMMA RestoreLookupStep == ASSUME Inv, NEW t \in Procs, RestoreLookup(t) PROVE Inv' /\ Still(t)
<1>0. TypeOK /\ t \in Procs /\ ProcOK(t) /\ obj[t] \in Ids /\ ObjectOK(obj[t])
      /\ (t \in Threads => MintOK(t) /\ ThreadOK(t))
    BY Zenon DEF Inv, TypeOK, ProcOK, RestoreLookup
<1>1. TypeOK'
    BY <1>0, Zenon DEF TypeOK, RestoreLookup, Goto, GetSteps, Outcomes
<1>2. Still(t)
    BY <1>0, Zenon DEF TypeOK, Still, SameNames, Frame, RestoreLookup, Goto
<1>3. KeepsLocks(t)
    BY Zenon DEF KeepsLocks, RestoreLookup
<1>4. ASSUME NEW j \in Ids PROVE Harmless(j)
    BY <1>0, Zenon DEF ProcOK, Harmless, RestoreLookup
<1>5. ASSUME NEW j \in Ids PROVE Steady(j)
    BY <1>2, <1>4, StillSteady, Zenon
<1>6. ProcOK(t)'
    BY <1>0, <1>1, <1>5, Zenon DEF Steady, ProcOK, TypeOK, Restoring, Copying, RestoreLookup, Goto,
                                   PutSteps, SpillSteps, FreeSteps, EvictSteps
<1>7. t \in Threads => MintOK(t)'
    BY <1>0, Zenon DEF MintOK, TypeOK, RestoreLookup, Goto, PutSteps, SpillSteps
<1>8. t \in Threads => ThreadOK(t)'
    BY <1>0, <1>5, Zenon DEF Steady, ThreadOK, TypeOK, RestoreLookup, Goto, FreeSteps, EvictSteps,
                             GetSteps
<1> QED
    BY <1>1, <1>2, <1>3, <1>4, <1>6, <1>7, <1>8, Consts, StillStep, Zenon

\* RestoreRead: so is its file, and a purge is only due when it is not live.
LEMMA RestoreReadStep == ASSUME Inv, NEW t \in Procs, RestoreRead(t) PROVE Inv' /\ Still(t)
<1>0. TypeOK /\ t \in Procs /\ ProcOK(t) /\ obj[t] \in Ids /\ ObjectOK(obj[t])
      /\ (t \in Threads => MintOK(t) /\ ThreadOK(t))
    BY Zenon DEF Inv, TypeOK, ProcOK, RestoreRead
<1>1. TypeOK'
    BY <1>0, Zenon DEF TypeOK, RestoreRead, Goto, GetSteps, Outcomes
<1>2. Still(t)
    BY <1>0, Zenon DEF TypeOK, Still, SameNames, Frame, RestoreRead, Goto
<1>3. KeepsLocks(t)
    BY Zenon DEF KeepsLocks, RestoreRead
<1>4. ASSUME NEW j \in Ids PROVE Harmless(j)
    BY <1>0, Zenon DEF ProcOK, Harmless, RestoreRead
<1>5. ASSUME NEW j \in Ids PROVE Steady(j)
    BY <1>2, <1>4, StillSteady, Zenon
<1>6. ProcOK(t)'
    BY <1>0, <1>5, Zenon DEF Steady, ProcOK, TypeOK, OnDisk, Restoring, Copying, RestoreRead, Goto,
                             GetSteps
<1>7. t \in Threads => MintOK(t)'
    BY <1>0, Zenon DEF MintOK, TypeOK, RestoreRead, Goto, PutSteps, SpillSteps
<1>8. t \in Threads => ThreadOK(t)'
    <2>1. pc[t] \in {"restore_file"} /\ pc'[t] \in {"purge", "reseal"} /\ UNCHANGED <<obj, down>>
          /\ (t \in Threads => todo'[t] = todo[t] /\ minting'[t] = minting[t]) /\ refs' = refs
        BY <1>0, Zenon DEF TypeOK, RestoreRead, Goto
    <2>2. t \in Threads => \A i \in todo[t] : i \in Ids /\ ~Fresh(i)'
        BY <1>0, <1>5, Zenon DEF Steady, ThreadOK, TypeOK
    <2> QED
        BY <1>0, <2>1, <2>2 DEF ThreadOK, FreeSteps, EvictSteps, GetSteps
<1> QED
    BY <1>1, <1>2, <1>3, <1>4, <1>6, <1>7, <1>8, Consts, StillStep, Zenon

\* RestoreFails: nothing changes but the process.
LEMMA RestoreFailsStep == ASSUME Inv, NEW t \in Procs, RestoreFails(t) PROVE Inv' /\ Still(t)
<1>0. TypeOK /\ t \in Procs /\ ProcOK(t) /\ obj[t] \in Ids /\ ObjectOK(obj[t])
      /\ (t \in Threads => MintOK(t) /\ ThreadOK(t))
    BY Zenon DEF Inv, TypeOK, ProcOK, RestoreFails
<1>1. TypeOK'
    BY <1>0, Zenon DEF TypeOK, RestoreFails, Goto, GetSteps, Outcomes
<1>2. Still(t)
    BY <1>0, Zenon DEF TypeOK, Still, SameNames, Frame, RestoreFails, Goto
<1>3. KeepsLocks(t)
    BY Zenon DEF KeepsLocks, RestoreFails
<1>4. ASSUME NEW j \in Ids PROVE Harmless(j)
    BY <1>0, Zenon DEF ProcOK, Harmless, RestoreFails
<1>5. ASSUME NEW j \in Ids PROVE Steady(j)
    BY <1>2, <1>4, StillSteady, Zenon
<1>6. ProcOK(t)'
    BY <1>0, <1>1, <1>5, Zenon DEF Steady, ProcOK, TypeOK, Restoring, Copying, RestoreFails, Goto,
                                   PutSteps, SpillSteps, FreeSteps, EvictSteps
<1>7. t \in Threads => MintOK(t)'
    BY <1>0, Zenon DEF MintOK, TypeOK, RestoreFails, Goto, PutSteps, SpillSteps
<1>8. t \in Threads => ThreadOK(t)'
    <2>1. pc[t] \in {"restore_file"} /\ pc'[t] \in {"io_error"} /\ UNCHANGED <<obj, down>>
          /\ (t \in Threads => todo'[t] = todo[t] /\ minting'[t] = minting[t]) /\ refs' = refs
        BY <1>0, Zenon DEF TypeOK, RestoreFails, Goto
    <2>2. t \in Threads => \A i \in todo[t] : i \in Ids /\ ~Fresh(i)'
        BY <1>0, <1>5, Zenon DEF Steady, ThreadOK, TypeOK
    <2> QED
        BY <1>0, <2>1, <2>2 DEF ThreadOK, FreeSteps, EvictSteps, GetSteps
<1> QED
    BY <1>1, <1>2, <1>3, <1>4, <1>6, <1>7, <1>8, Consts, StillStep, Zenon

\* RestorePurge: the record that goes is not a live object's.
LEMMA RestorePurgeStep == ASSUME Inv, NEW t \in Procs, RestorePurge(t) PROVE Inv' /\ Still(t)
<1>0. TypeOK /\ t \in Procs /\ ProcOK(t) /\ obj[t] \in Ids /\ ObjectOK(obj[t])
      /\ (t \in Threads => MintOK(t) /\ ThreadOK(t))
    BY Zenon DEF Inv, TypeOK, ProcOK, RestorePurge
<1>1. TypeOK'
    BY <1>0, Zenon DEF TypeOK, RestorePurge, Goto, GetSteps, Outcomes
<1>2. Still(t)
    BY <1>0, Zenon DEF TypeOK, Still, SameNames, Frame, RestorePurge, Goto
<1>3. KeepsLocks(t)
    BY Zenon DEF KeepsLocks, RestorePurge
<1>4. ASSUME NEW j \in Ids PROVE Harmless(j)
    BY <1>0, Zenon DEF ProcOK, Harmless, RestorePurge
<1>5. ASSUME NEW j \in Ids PROVE Steady(j)
    BY <1>2, <1>4, StillSteady, Zenon
<1>6. ProcOK(t)'
    <2>1. pc[t] = "purge" /\ pc'[t] = "failed" /\ UNCHANGED <<obj, buf, lock>>
        BY <1>0, Zenon DEF TypeOK, RestorePurge, Goto
    <2>2. ~Fresh(obj[t])'
        BY <1>0, <1>5, <2>1, Consts, Zenon DEF Steady, ProcOK
    <2> QED
        BY <1>0, <2>1, <2>2 DEF ProcOK, Restoring, Copying, Outcomes
<1>7. t \in Threads => MintOK(t)'
    BY <1>0, Zenon DEF MintOK, TypeOK, RestorePurge, Goto, PutSteps, SpillSteps
<1>8. t \in Threads => ThreadOK(t)'
    <2>1. pc[t] \in {"purge"} /\ pc'[t] \in {"failed"} /\ UNCHANGED <<obj, down>>
          /\ (t \in Threads => todo'[t] = todo[t] /\ minting'[t] = minting[t]) /\ refs' = refs
        BY <1>0, Zenon DEF TypeOK, RestorePurge, Goto
    <2>2. t \in Threads => \A i \in todo[t] : i \in Ids /\ ~Fresh(i)'
        BY <1>0, <1>5, Zenon DEF Steady, ThreadOK, TypeOK
    <2> QED
        BY <1>0, <2>1, <2>2 DEF ThreadOK, FreeSteps, EvictSteps, GetSteps
<1> QED
    BY <1>1, <1>2, <1>3, <1>4, <1>6, <1>7, <1>8, Consts, StillStep, Zenon

\* ResealCheck: the process takes the free mutex of its connection.
LEMMA ResealCheckStep == ASSUME Inv, NEW t \in Procs, ResealCheck(t) PROVE Inv' /\ Still(t)
<1>0. TypeOK /\ t \in Procs /\ ProcOK(t) /\ obj[t] \in Ids /\ ObjectOK(obj[t])
      /\ (t \in Threads => MintOK(t) /\ ThreadOK(t))
    BY Zenon DEF Inv, TypeOK, ProcOK, ResealCheck
<1>1. TypeOK'
    <2>1. met' \subseteq Ids
        BY <1>0, Zenon DEF TypeOK, ResealCheck, Meets
    <2>2. \E s \in GetSteps \cup Outcomes : pc' = [pc EXCEPT ![t] = s]
        BY Zenon DEF ResealCheck, Resealed, Goto, GetSteps, Outcomes
    <2>3. lock' = lock \/ lock' = [lock EXCEPT ![Conn(t)] = t]
        BY Zenon DEF ResealCheck
    <2>4. lock' \in [Connections -> Procs \cup {None}]
        BY <1>0, <2>3, Zenon DEF TypeOK
    <2> QED
        <3>1. UNCHANGED <<refs, index, plasma, spilled, file, known, down, firm, obj, buf, minting,
                          todo, over>>
            BY Zenon DEF ResealCheck, Goto
        <3> QED
            BY <1>0, <2>1, <2>2, <2>4, <3>1, ZenonT(30) DEF TypeOK
<1>2. Still(t)
    BY <1>0, Zenon DEF TypeOK, Still, SameNames, Frame, ResealCheck, Goto, Resealed
<1>3. KeepsLocks(t)
    <2>1. \/ lock' = lock
          \/ lock[Conn(t)] = None /\ lock' = [lock EXCEPT ![Conn(t)] = t]
        BY Zenon DEF ResealCheck, Free
    <2> QED
        BY <1>0, <2>1, Zenon DEF TypeOK, KeepsLocks
<1>4. ASSUME NEW j \in Ids PROVE Harmless(j)
    BY Zenon DEF Harmless, ResealCheck
<1>5. ASSUME NEW j \in Ids PROVE Steady(j)
    BY <1>2, <1>4, StillSteady, Zenon
<1>6. ProcOK(t)'
    <2>1. /\ pc'[t] \in {"insert", "got", "reopen"} /\ (pc'[t] = "reopen" => t \notin Threads)
          /\ pc'[t] = "insert" => lock' = [lock EXCEPT ![Conn(t)] = t]
          /\ obj' = obj /\ buf' = buf /\ pc[t] = "reseal"
        BY <1>0, Zenon DEF TypeOK, ResealCheck, Resealed, Goto
    <2>2. pc'[t] = "insert" => lock'[Conn(t)] = t
        BY <1>0, <2>1, Zenon DEF TypeOK, Conn, Connections
    <2>3. ~Fresh(obj[t])' /\ (Live(obj[t])' => OnDisk(obj[t])')
        BY <1>0, <1>5, <2>1, Consts, Zenon DEF Steady, ProcOK, Restoring
    <2> QED
        BY <1>0, <2>1, <2>2, <2>3, Zenon DEF ProcOK, Copying, GetSteps, Outcomes
<1>7. t \in Threads => MintOK(t)'
    BY <1>0 DEF MintOK, TypeOK, ResealCheck, Goto, Resealed, PutSteps, SpillSteps
<1>8. t \in Threads => ThreadOK(t)'
    BY <1>0, <1>5 DEF Steady, ThreadOK, TypeOK, ResealCheck, Goto, Resealed, FreeSteps, EvictSteps,
                      GetSteps
<1> QED
    BY <1>1, <1>2, <1>3, <1>4, <1>6, <1>7, <1>8, Consts, StillStep, Zenon

\* ResealInsert: the entry replaces an entry or none; a live object is on disk.
LEMMA ResealInsertStep == ASSUME Inv, NEW t \in Procs, ResealInsert(t) PROVE Inv' /\ Still(t)
<1>0. TypeOK /\ t \in Procs /\ ProcOK(t) /\ obj[t] \in Ids /\ ObjectOK(obj[t])
      /\ (t \in Threads => MintOK(t) /\ ThreadOK(t))
    BY Zenon DEF Inv, TypeOK, ProcOK, ResealInsert
<1>1. TypeOK'
    BY <1>0, Zenon DEF TypeOK, PlasmaEntry, Contents, ResealInsert, Goto, GetSteps, Outcomes
<1>2. Still(t)
    BY <1>0, Zenon DEF TypeOK, Still, SameNames, Frame, ResealInsert, Goto
<1>3. KeepsLocks(t)
    BY Zenon DEF KeepsLocks, ResealInsert
<1>4. ASSUME NEW j \in Ids PROVE Harmless(j)
    BY <1>0, Zenon DEF TypeOK, ProcOK, Harmless, OnDisk, Restoring, Copying, ResealInsert
<1>5. ASSUME NEW j \in Ids PROVE Steady(j)
    BY <1>2, <1>4, StillSteady, Zenon
<1>6. ProcOK(t)'
    <2>1. pc[t] = "insert" /\ pc'[t] = "write" /\ UNCHANGED <<obj, buf, lock>>
        BY <1>0, Zenon DEF TypeOK, ResealInsert, Goto
    <2>2. ~Fresh(obj[t])' /\ (Live(obj[t])' => OnDisk(obj[t])')
        BY <1>0, <1>5, <2>1, Consts, Zenon DEF Steady, ProcOK, Restoring, Copying
    <2> QED
        BY <1>0, <2>1, <2>2 DEF ProcOK, Restoring, Copying, GetSteps
<1>7. t \in Threads => MintOK(t)'
    BY <1>0, Zenon DEF MintOK, TypeOK, ResealInsert, Goto, PutSteps, SpillSteps
<1>8. t \in Threads => ThreadOK(t)'
    <2>1. pc[t] \in {"insert"} /\ pc'[t] \in {"write"} /\ UNCHANGED <<obj, down>>
          /\ (t \in Threads => todo'[t] = todo[t] /\ minting'[t] = minting[t]) /\ refs' = refs
        BY <1>0, Zenon DEF TypeOK, ResealInsert, Goto
    <2>2. t \in Threads => \A i \in todo[t] : i \in Ids /\ ~Fresh(i)'
        BY <1>0, <1>5, Zenon DEF Steady, ThreadOK, TypeOK
    <2> QED
        BY <1>0, <2>1, <2>2 DEF ThreadOK, FreeSteps, EvictSteps, GetSteps
<1> QED
    BY <1>1, <1>2, <1>3, <1>4, <1>6, <1>7, <1>8, Consts, StillStep, Zenon

\* ResealWrite: the bytes in hand, or no change.
LEMMA ResealWriteStep == ASSUME Inv, NEW t \in Procs, ResealWrite(t) PROVE Inv' /\ Still(t)
<1>0. TypeOK /\ t \in Procs /\ ProcOK(t) /\ obj[t] \in Ids /\ ObjectOK(obj[t])
      /\ (t \in Threads => MintOK(t) /\ ThreadOK(t))
    BY Zenon DEF Inv, TypeOK, ProcOK, ResealWrite
<1>1. TypeOK'
    BY <1>0 DEF TypeOK, PlasmaEntry, ResealWrite, Goto, PutSteps, GetSteps, Outcomes
<1>2. Still(t)
    BY <1>0, Zenon DEF TypeOK, Still, SameNames, Frame, ResealWrite, Goto
<1>3. KeepsLocks(t)
    BY Zenon DEF KeepsLocks, ResealWrite
<1>4. ASSUME NEW j \in Ids PROVE Harmless(j)
    <2>1. /\ UNCHANGED <<index, spilled, file>> /\ pc[t] = "write"
          /\ plasma' = [plasma EXCEPT ![obj[t]].bytes = IF plasma[obj[t]].by = t THEN buf[t] ELSE @]
        BY Zenon DEF ResealWrite
    <2>2. /\ j # obj[t] => plasma'[j] = plasma[j]
          /\ plasma'[obj[t]].st = plasma[obj[t]].st
          /\ plasma'[obj[t]].bytes \in {buf[t], plasma[obj[t]].bytes}
          /\ plasma[obj[t]].by # t => plasma'[obj[t]] = plasma[obj[t]]
        BY <1>0, <2>1 DEF TypeOK, PlasmaEntry
    <2>3. plasma[obj[t]].st = "absent" => plasma'[obj[t]] = Absent
        BY <1>0, <2>2, Consts DEF ObjectOK, Absent
    <2>4. j = obj[t] /\ Live(j) => OnDisk(j)'
        BY <1>0, <2>1, Zenon DEF ProcOK, OnDisk, Restoring, Copying
    <2>5. j = obj[t] => plasma'[j].bytes # "none" \/ plasma'[j].st = "absent"
        BY <1>0, <2>1, <2>2, Zenon DEF ProcOK, ObjectOK, Copying
    <2> QED
        BY <2>1, <2>2, <2>3, <2>4, <2>5, Zenon DEF Harmless
<1>5. ASSUME NEW j \in Ids PROVE Steady(j)
    BY <1>2, <1>4, StillSteady, Zenon
<1>6. ProcOK(t)'
    <2>1. pc[t] = "write" /\ pc'[t] = "seal" /\ UNCHANGED <<obj, buf, lock>>
        BY <1>0, Zenon DEF TypeOK, ResealWrite, Goto
    <2>2. ~Fresh(obj[t])' /\ (Live(obj[t])' => OnDisk(obj[t])')
        BY <1>0, <1>5, <2>1, Consts, Zenon DEF Steady, ProcOK, Restoring, Copying
    <2> QED
        BY <1>0, <2>1, <2>2 DEF ProcOK, Restoring, Copying, GetSteps
<1>7. t \in Threads => MintOK(t)'
    BY <1>0, Zenon DEF MintOK, TypeOK, ResealWrite, Goto, PutSteps, SpillSteps
<1>8. t \in Threads => ThreadOK(t)'
    <2>1. pc[t] \in {"write"} /\ pc'[t] \in {"seal"} /\ UNCHANGED <<obj, down>>
          /\ (t \in Threads => todo'[t] = todo[t] /\ minting'[t] = minting[t]) /\ refs' = refs
        BY <1>0, Zenon DEF TypeOK, ResealWrite, Goto
    <2>2. t \in Threads => \A i \in todo[t] : i \in Ids /\ ~Fresh(i)'
        BY <1>0, <1>5, Zenon DEF Steady, ThreadOK, TypeOK
    <2> QED
        BY <1>0, <2>1, <2>2 DEF ThreadOK, FreeSteps, EvictSteps, GetSteps
<1> QED
    BY <1>1, <1>2, <1>3, <1>4, <1>6, <1>7, <1>8, Consts, StillStep, Zenon

\* ResealSeal: the mutex goes back, and a seal loses nothing.
LEMMA ResealSealStep == ASSUME Inv, NEW t \in Procs, ResealSeal(t) PROVE Inv' /\ Still(t)
<1>0. TypeOK /\ t \in Procs /\ ProcOK(t) /\ obj[t] \in Ids /\ ObjectOK(obj[t])
      /\ (t \in Threads => MintOK(t) /\ ThreadOK(t))
    BY Zenon DEF Inv, TypeOK, ProcOK, ResealSeal
<1>1. TypeOK'
    <2>1. plasma' = plasma \/ plasma' = [plasma EXCEPT ![obj[t]].st = "sealed"]
        BY Zenon DEF ResealSeal
    <2>2. plasma' \in [Ids -> PlasmaEntry]
        <3>1. \A e \in PlasmaEntry : [e EXCEPT !.st = "sealed"] \in PlasmaEntry
            BY Zenon DEF PlasmaEntry
        <3> QED
            BY <1>0, <2>1, <3>1 DEF TypeOK
    <2>3. \E s \in GetSteps \cup Outcomes : pc' = [pc EXCEPT ![t] = s]
        BY Zenon DEF ResealSeal, Resealed, Goto, GetSteps, Outcomes
    <2>4. lock' \in [Connections -> Procs \cup {None}]
        BY <1>0, Zenon DEF TypeOK, ResealSeal
    <2>5. /\ pc' \in [Procs -> {"idle"} \cup PutSteps \cup SpillSteps \cup FreeSteps
                                \cup EvictSteps \cup GetSteps \cup Outcomes]
          /\ obj' \in [Procs -> Ids \cup {None}]
        BY <1>0, <2>3 DEF TypeOK, ResealSeal, Goto
    <2> QED
        BY <1>0, <2>2, <2>5, Zenon DEF TypeOK, ResealSeal
<1>2. Still(t)
    BY <1>0, Zenon DEF TypeOK, Still, SameNames, Frame, ResealSeal, Goto, Resealed
<1>3. KeepsLocks(t)
    BY <1>0, Zenon DEF TypeOK, KeepsLocks, ProcOK, Copying, ResealSeal
<1>4. ASSUME NEW j \in Ids PROVE Harmless(j)
    <2>1. /\ index' = index /\ spilled' = spilled /\ file' = file
          /\ \/ plasma' = plasma
             \/ /\ plasma[obj[t]].st = "unsealed"
                /\ plasma' = [plasma EXCEPT ![obj[t]].st = "sealed"]
        BY Zenon DEF ResealSeal
    <2>2. /\ j # obj[t] => plasma'[j] = plasma[j]
          /\ \/ plasma'[obj[t]] = plasma[obj[t]]
             \/ /\ plasma'[obj[t]].st = "sealed" /\ plasma[obj[t]].st = "unsealed"
                /\ plasma'[obj[t]].bytes = plasma[obj[t]].bytes
        BY <1>0, <2>1 DEF TypeOK, PlasmaEntry
    <2> QED
        BY <1>0, <2>1, <2>2, Zenon DEF ObjectOK, Harmless
<1>5. ASSUME NEW j \in Ids PROVE Steady(j)
    BY <1>2, <1>4, StillSteady, Zenon
<1>6. ProcOK(t)'
    BY <1>0, <1>5 DEF Steady, ProcOK, TypeOK, Restoring, Copying, ResealSeal, Goto, Resealed,
                      GetSteps, Outcomes
<1>7. t \in Threads => MintOK(t)'
    BY <1>0 DEF MintOK, TypeOK, ResealSeal, Goto, Resealed, PutSteps, SpillSteps
<1>8. t \in Threads => ThreadOK(t)'
    <2>1. pc[t] \in {"seal"} /\ (t \in Threads => pc'[t] \in {"got", "failed"}) /\ UNCHANGED <<obj, down>>
          /\ (t \in Threads => todo'[t] = todo[t] /\ minting'[t] = minting[t]) /\ refs' = refs
        BY <1>0, Zenon DEF TypeOK, ResealSeal, Goto, Resealed
    <2>2. t \in Threads => \A i \in todo[t] : i \in Ids /\ ~Fresh(i)'
        BY <1>0, <1>5, Zenon DEF Steady, ThreadOK, TypeOK
    <2> QED
        BY <1>0, <2>1, <2>2 DEF ThreadOK, FreeSteps, EvictSteps, GetSteps
<1> QED
    BY <1>1, <1>2, <1>3, <1>4, <1>6, <1>7, <1>8, Consts, StillStep, Zenon

\* Reopen: the raylet reads plasma once more.
LEMMA ReopenStep == ASSUME Inv, NEW t \in Pullers, Reopen(t) PROVE Inv' /\ Still(t)
<1>0. TypeOK /\ t \in Procs /\ ProcOK(t) /\ obj[t] \in Ids /\ ObjectOK(obj[t])
    BY Consts, Zenon DEF Inv, TypeOK, ProcOK, Reopen
<1>1. TypeOK'
    <2>1. plasma[obj[t]].bytes \in Contents
        BY <1>0, Zenon DEF TypeOK, PlasmaEntry
    <2>2. buf' = buf \/ buf' = [buf EXCEPT ![t] = plasma[obj[t]].bytes]
        BY Zenon DEF Reopen
    <2>3. buf' \in [Procs -> Contents]
        BY <1>0, <2>1, <2>2, Zenon DEF TypeOK
    <2>4. \E s \in GetSteps \cup Outcomes : pc' = [pc EXCEPT ![t] = s]
        BY Zenon DEF Reopen, Goto, Outcomes
    <2>5. UNCHANGED <<refs, index, plasma, spilled, file, lock, known, met, down, firm, obj,
                      minting, todo, over>>
        BY Zenon DEF Reopen, Goto
    <2> QED
        BY <1>0, <2>3, <2>4, <2>5, Zenon DEF TypeOK
<1>2. Still(t)
    BY <1>0, Zenon DEF TypeOK, Still, SameNames, Frame, Reopen, Goto
<1>3. KeepsLocks(t)
    BY Zenon DEF KeepsLocks, Reopen
<1>4. ASSUME NEW j \in Ids PROVE Harmless(j)
    BY <1>0, Zenon DEF ProcOK, Harmless, Reopen
<1>5. ASSUME NEW j \in Ids PROVE Steady(j)
    BY <1>2, <1>4, StillSteady, Zenon
<1>6. ProcOK(t)'
    BY <1>0, <1>5 DEF Steady, ProcOK, TypeOK, Restoring, Copying, Reopen, Goto, Outcomes
<1> QED
    BY <1>1, <1>2, <1>3, <1>4, <1>6, Consts, StillStep, Zenon

\* Return: the call ends.
LEMMA ReturnStep == ASSUME Inv, NEW t \in Procs, Return(t) PROVE Inv' /\ Still(t)
<1>0. TypeOK /\ t \in Procs /\ ProcOK(t) /\ (t \in Threads => MintOK(t) /\ ThreadOK(t))
    BY Zenon DEF Inv
<1>1. TypeOK'
    BY <1>0, Zenon DEF TypeOK, Contents, Return, Done
<1>2. Still(t)
    BY <1>0, Zenon DEF TypeOK, Still, SameNames, Frame, Return, Done
<1>3. KeepsLocks(t)
    BY Zenon DEF KeepsLocks, Return
<1>4. ASSUME NEW j \in Ids PROVE Harmless(j)
    BY <1>0, Zenon DEF ProcOK, Harmless, Return
<1>5. ASSUME NEW j \in Ids PROVE Steady(j)
    BY <1>2, <1>4, StillSteady, Zenon
<1>6. ProcOK(t)'
    BY <1>1, Zenon DEF ProcOK, ObjectOK, TypeOK, OnDisk, Restoring, Copying, Return, Done
<1>7. t \in Threads => MintOK(t)'
    BY <1>0, Zenon DEF MintOK, TypeOK, Return, Done, PutSteps, SpillSteps, Outcomes
<1>8. t \in Threads => ThreadOK(t)'
    BY <1>0, <1>5, Zenon DEF Steady, ThreadOK, TypeOK, Return, Done, FreeSteps, EvictSteps,
                             GetSteps, Outcomes
<1> QED
    BY <1>1, <1>2, <1>3, <1>4, <1>6, <1>7, <1>8, Consts, StillStep, Zenon

\* FreeIndex: the object is not live.
LEMMA FreeIndexStep == ASSUME Inv, NEW t \in Threads, FreeIndex(t) PROVE Inv' /\ Still(t)
<1>0. TypeOK /\ t \in Procs /\ ProcOK(t) /\ obj[t] \in Ids /\ ObjectOK(obj[t]) /\ MintOK(t) /\ ThreadOK(t)
    BY Consts, Zenon DEF Inv, TypeOK, ProcOK, FreeIndex
<1>1. TypeOK'
    BY <1>0, Zenon DEF TypeOK, FreeIndex, Goto, FreeSteps
<1>2. Still(t)
    BY <1>0, Zenon DEF TypeOK, Still, SameNames, Frame, FreeIndex, Goto
<1>3. KeepsLocks(t)
    BY Zenon DEF KeepsLocks, FreeIndex
<1>4. ASSUME NEW j \in Ids PROVE Harmless(j)
    BY <1>0, Zenon DEF ThreadOK, Harmless, FreeIndex, FreeSteps
<1>5. ASSUME NEW j \in Ids PROVE Steady(j)
    BY <1>2, <1>4, StillSteady, Zenon
<1>6. ProcOK(t)'
    BY <1>0, <1>5, Consts, Zenon DEF Steady, ProcOK, TypeOK, Restoring, Copying, FreeIndex, Goto
<1>7. MintOK(t)'
    BY <1>0, Zenon DEF MintOK, TypeOK, FreeIndex, Goto, PutSteps, SpillSteps
<1>8. ThreadOK(t)'
    BY <1>0, <1>5, Zenon DEF Steady, ThreadOK, TypeOK, FreeIndex, Goto, FreeSteps, EvictSteps,
                             GetSteps
<1> QED
    BY <1>1, <1>2, <1>3, <1>4, <1>6, <1>7, <1>8, Consts, StillStep, Zenon

\* FreePlasma: the object is not live.
LEMMA FreePlasmaStep == ASSUME Inv, NEW t \in Threads, FreePlasma(t) PROVE Inv' /\ Still(t)
<1>0. TypeOK /\ t \in Procs /\ ProcOK(t) /\ obj[t] \in Ids /\ ObjectOK(obj[t]) /\ MintOK(t) /\ ThreadOK(t)
    BY Consts, Zenon DEF Inv, TypeOK, ProcOK, FreePlasma
<1>1. TypeOK'
    BY <1>0, Zenon DEF TypeOK, PlasmaEntry, Contents, Absent, FreePlasma, Goto, FreeSteps
<1>2. Still(t)
    BY <1>0, Zenon DEF TypeOK, Still, SameNames, Frame, FreePlasma, Goto
<1>3. KeepsLocks(t)
    BY Zenon DEF KeepsLocks, FreePlasma
<1>4. ASSUME NEW j \in Ids PROVE Harmless(j)
    BY <1>0, Zenon DEF TypeOK, ThreadOK, Harmless, Absent, FreePlasma, FreeSteps
<1>5. ASSUME NEW j \in Ids PROVE Steady(j)
    BY <1>2, <1>4, StillSteady, Zenon
<1>6. ProcOK(t)'
    BY <1>0, <1>5, Consts, Zenon DEF Steady, ProcOK, TypeOK, Restoring, Copying, FreePlasma, Goto
<1>7. MintOK(t)'
    BY <1>0, Zenon DEF MintOK, TypeOK, FreePlasma, Goto, PutSteps, SpillSteps
<1>8. ThreadOK(t)'
    BY <1>0, <1>5, Zenon DEF Steady, ThreadOK, TypeOK, FreePlasma, Goto, FreeSteps, EvictSteps,
                             GetSteps
<1> QED
    BY <1>1, <1>2, <1>3, <1>4, <1>6, <1>7, <1>8, Consts, StillStep, Zenon

\* ForgetDir: the object is not live.
LEMMA ForgetDirStep == ASSUME Inv, NEW t \in Threads, ForgetDir(t) PROVE Inv' /\ Still(t)
<1>0. TypeOK /\ t \in Procs /\ ProcOK(t) /\ obj[t] \in Ids /\ ObjectOK(obj[t]) /\ MintOK(t) /\ ThreadOK(t)
    BY Consts, Zenon DEF Inv, TypeOK, ProcOK, ForgetDir
<1>1. TypeOK'
    BY <1>0, ZenonT(30) DEF TypeOK, ForgetDir, Goto, Done, FreeSteps
<1>2. Still(t)
    BY <1>0, Zenon DEF TypeOK, Still, SameNames, Frame, ForgetDir, Goto, Done
<1>3. KeepsLocks(t)
    BY Zenon DEF KeepsLocks, ForgetDir
<1>4. ASSUME NEW j \in Ids PROVE Harmless(j)
    BY <1>0, Zenon DEF ThreadOK, Harmless, ForgetDir, FreeSteps
<1>5. ASSUME NEW j \in Ids PROVE Steady(j)
    BY <1>2, <1>4, StillSteady, Zenon
<1>6. ProcOK(t)'
    BY <1>0, <1>5, Consts DEF Steady, ProcOK, TypeOK, Restoring, Copying, ForgetDir, Goto, Done
<1>7. MintOK(t)'
    BY <1>0, Zenon DEF MintOK, TypeOK, ForgetDir, Goto, Done, PutSteps, SpillSteps
<1>8. ThreadOK(t)'
    BY <1>0, <1>5 DEF Steady, ThreadOK, TypeOK, ForgetDir, Goto, Done, FreeSteps, EvictSteps,
                      GetSteps
<1> QED
    BY <1>1, <1>2, <1>3, <1>4, <1>6, <1>7, <1>8, Consts, StillStep, Zenon

\* ForgetFile: the object is not live.
LEMMA ForgetFileStep == ASSUME Inv, NEW t \in Threads, ForgetFile(t) PROVE Inv' /\ Still(t)
<1>0. TypeOK /\ t \in Procs /\ ProcOK(t) /\ obj[t] \in Ids /\ ObjectOK(obj[t]) /\ MintOK(t) /\ ThreadOK(t)
    BY Consts, Zenon DEF Inv, TypeOK, ProcOK, ForgetFile
<1>1. TypeOK'
    BY <1>0, Zenon DEF TypeOK, Contents, ForgetFile, Done
<1>2. Still(t)
    BY <1>0, Zenon DEF TypeOK, Still, SameNames, Frame, ForgetFile, Done
<1>3. KeepsLocks(t)
    BY Zenon DEF KeepsLocks, ForgetFile
<1>4. ASSUME NEW j \in Ids PROVE Harmless(j)
    BY <1>0, Zenon DEF TypeOK, ThreadOK, Harmless, Absent, ForgetFile, FreeSteps
<1>5. ASSUME NEW j \in Ids PROVE Steady(j)
    BY <1>2, <1>4, StillSteady, Zenon
<1>6. ProcOK(t)'
    BY <1>1 DEF ProcOK, TypeOK, Restoring, Copying, ForgetFile, Done
<1>7. MintOK(t)'
    BY <1>0, Zenon DEF MintOK, TypeOK, ForgetFile, Done, PutSteps, SpillSteps
<1>8. ThreadOK(t)'
    BY <1>0, <1>5, Zenon DEF Steady, ThreadOK, TypeOK, ForgetFile, Done, FreeSteps, EvictSteps,
                             GetSteps
<1> QED
    BY <1>1, <1>2, <1>3, <1>4, <1>6, <1>7, <1>8, Consts, StillStep, Zenon

\* EvictIndex: what shutdown drained is not live.
LEMMA EvictIndexStep == ASSUME Inv, NEW t \in Threads, NEW i \in Ids, EvictIndex(t, i) PROVE Inv' /\ Still(t)
<1>0. TypeOK /\ t \in Procs /\ ProcOK(t) /\ MintOK(t) /\ ThreadOK(t)
    BY Consts, Zenon DEF Inv
<1>1. TypeOK'
    BY <1>0, Zenon DEF TypeOK, EvictIndex, EvictSteps
<1>2. Still(t)
    BY <1>0, Zenon DEF TypeOK, Still, SameNames, Frame, EvictIndex
<1>3. KeepsLocks(t)
    BY Zenon DEF KeepsLocks, EvictIndex
<1>4. ASSUME NEW j \in Ids PROVE Harmless(j)
    BY <1>0, Zenon DEF ThreadOK, Harmless, EvictIndex, EvictSteps
<1>5. ASSUME NEW j \in Ids PROVE Steady(j)
    BY <1>2, <1>4, StillSteady, Zenon
<1>6. ProcOK(t)'
    <2>1. ~Fresh(i)
        BY <1>0, Zenon DEF ThreadOK, EvictIndex
    <2>2. pc'[t] = "evict_plasma" /\ obj'[t] = i /\ t \in Procs
        BY <1>0, Zenon DEF TypeOK, EvictIndex
    <2>3. ~Fresh(i)'
        BY <1>5, <2>1, Zenon DEF Steady
    <2> QED
        BY <2>2, <2>3, Consts, Zenon DEF ProcOK, Restoring, Copying
<1>7. MintOK(t)'
    BY <1>0, Zenon DEF MintOK, TypeOK, EvictIndex, PutSteps, SpillSteps
<1>8. ThreadOK(t)'
    BY <1>0, <1>5, Zenon DEF Steady, ThreadOK, TypeOK, EvictIndex, EvictSteps, GetSteps
<1> QED
    BY <1>1, <1>2, <1>3, <1>4, <1>6, <1>7, <1>8, Consts, StillStep, Zenon

\* EvictPlasma: what shutdown drained is not live.
LEMMA EvictPlasmaStep == ASSUME Inv, NEW t \in Threads, EvictPlasma(t) PROVE Inv' /\ Still(t)
<1>0. TypeOK /\ t \in Procs /\ ProcOK(t) /\ obj[t] \in Ids /\ ObjectOK(obj[t]) /\ MintOK(t) /\ ThreadOK(t)
    BY Consts, Zenon DEF Inv, TypeOK, ProcOK, EvictPlasma
<1>1. TypeOK'
    BY <1>0, Zenon DEF TypeOK, PlasmaEntry, Contents, Absent, EvictPlasma, Goto, EvictSteps
<1>2. Still(t)
    BY <1>0, Zenon DEF TypeOK, Still, SameNames, Frame, EvictPlasma, Goto
<1>3. KeepsLocks(t)
    BY Zenon DEF KeepsLocks, EvictPlasma
<1>4. ASSUME NEW j \in Ids PROVE Harmless(j)
    BY <1>0, Zenon DEF TypeOK, ThreadOK, Harmless, Absent, EvictPlasma, FreeSteps
<1>5. ASSUME NEW j \in Ids PROVE Steady(j)
    BY <1>2, <1>4, StillSteady, Zenon
<1>6. ProcOK(t)'
    BY <1>0, <1>5, Consts, Zenon DEF Steady, ProcOK, TypeOK, Restoring, Copying, EvictPlasma, Goto
<1>7. MintOK(t)'
    BY <1>0, Zenon DEF MintOK, TypeOK, EvictPlasma, Goto, PutSteps, SpillSteps
<1>8. ThreadOK(t)'
    BY <1>0, <1>5, Zenon DEF Steady, ThreadOK, TypeOK, EvictPlasma, Goto, FreeSteps, EvictSteps,
                             GetSteps
<1> QED
    BY <1>1, <1>2, <1>3, <1>4, <1>6, <1>7, <1>8, Consts, StillStep, Zenon

\* EvictDone: nothing changes but the thread.
LEMMA EvictDoneStep == ASSUME Inv, NEW t \in Threads, EvictDone(t) PROVE Inv' /\ Still(t)
<1>0. TypeOK /\ t \in Procs /\ ProcOK(t) /\ MintOK(t) /\ ThreadOK(t)
    BY Consts, Zenon DEF Inv
<1>1. TypeOK'
    BY <1>0, Zenon DEF TypeOK, Contents, EvictDone, Done
<1>2. Still(t)
    BY <1>0, Zenon DEF TypeOK, Still, SameNames, Frame, EvictDone, Done
<1>3. KeepsLocks(t)
    BY Zenon DEF KeepsLocks, EvictDone
<1>4. ASSUME NEW j \in Ids PROVE Harmless(j)
    BY <1>0, Zenon DEF ProcOK, Harmless, EvictDone
<1>5. ASSUME NEW j \in Ids PROVE Steady(j)
    BY <1>2, <1>4, StillSteady, Zenon
<1>6. ProcOK(t)'
    BY <1>1 DEF ProcOK, TypeOK, Restoring, Copying, EvictDone, Done
<1>7. MintOK(t)'
    BY <1>0, Zenon DEF MintOK, TypeOK, EvictDone, Done, PutSteps, SpillSteps
<1>8. ThreadOK(t)'
    BY <1>0, <1>5, Zenon DEF Steady, ThreadOK, TypeOK, EvictDone, Done, FreeSteps, EvictSteps,
                             GetSteps
<1> QED
    BY <1>1, <1>2, <1>3, <1>4, <1>6, <1>7, <1>8, Consts, StillStep, Zenon

-----------------------------------------------------------------------------
(* Steps that change the reference table or mint an id.                    *)

\* add_owned on no entry, and add_borrower, on one entry of the table.
LEMMA EntryAdd ==
    /\ AddOwned(Untracked) \in OwnerEntry /\ AddOwned(Untracked).local = 1
    /\ AddOwned(Untracked).borrowers = {}
    /\ \A e \in OwnerEntry, w \in Borrowers :
          /\ AddBorrower(e, w) \in OwnerEntry
          /\ AddBorrower(e, w).local = e.local
          /\ AddBorrower(e, w).borrowers = e.borrowers \cup {w}
<1>1. Untracked \in OwnerEntry
    BY Zenon DEF Untracked, OwnerEntry
<1>2. \A e \in OwnerEntry : /\ OrDefault(e) \in OwnerEntry /\ OrDefault(e).local = e.local
                            /\ OrDefault(e).borrowers = e.borrowers
    BY Zenon DEF OrDefault, OwnerEntry
<1>3. \A e \in OwnerEntry : /\ [e EXCEPT !.local = e.local + 1] \in OwnerEntry
                            /\ [e EXCEPT !.local = e.local + 1].local = e.local + 1
                            /\ [e EXCEPT !.local = e.local + 1].borrowers = e.borrowers
    BY DEF OwnerEntry
<1>4. \A e \in OwnerEntry, w \in Borrowers :
                            /\ [e EXCEPT !.borrowers = e.borrowers \cup {w}] \in OwnerEntry
                            /\ [e EXCEPT !.borrowers = e.borrowers \cup {w}].local = e.local
                            /\ [e EXCEPT !.borrowers = e.borrowers \cup {w}].borrowers = e.borrowers \cup {w}
    BY Zenon DEF OwnerEntry
<1>5. Untracked.local = 0 /\ Untracked.borrowers = {}
    BY Zenon DEF Untracked
<1>6. AddOwned(Untracked) = [OrDefault(Untracked) EXCEPT !.local = OrDefault(Untracked).local + 1]
    BY Zenon DEF AddOwned
<1>7. \A e \in OwnerEntry, w \in Borrowers :
          AddBorrower(e, w) = [OrDefault(e) EXCEPT !.borrowers = OrDefault(e).borrowers \cup {w}]
    BY Zenon DEF AddBorrower
<1>8. /\ AddOwned(Untracked) \in OwnerEntry /\ AddOwned(Untracked).local = 1
      /\ AddOwned(Untracked).borrowers = {}
    BY <1>1, <1>2, <1>3, <1>5, <1>6
<1>9. ASSUME NEW e \in OwnerEntry, NEW w \in Borrowers
      PROVE  /\ AddBorrower(e, w) \in OwnerEntry
             /\ AddBorrower(e, w).local = e.local
             /\ AddBorrower(e, w).borrowers = e.borrowers \cup {w}
    <2> DEFINE d == OrDefault(e)
    <2>1. d \in OwnerEntry /\ d.local = e.local /\ d.borrowers = e.borrowers
        BY <1>2, Zenon
    <2>2. AddBorrower(e, w) = [d EXCEPT !.borrowers = d.borrowers \cup {w}]
        BY <1>7, Zenon
    <2> HIDE DEF d
    <2> QED
        BY <1>4, <2>1, <2>2
<1> QED
    BY <1>8, <1>9, Zenon

\* dec_local and remove_borrower on one entry of the table.
LEMMA EntryDrop ==
    ASSUME NEW e \in OwnerEntry
    PROVE  /\ DecLocal(e) \in OwnerEntry
           /\ DecLocal(e).local > 0 => e.local > 0
           /\ DecLocalFrees(e) => DecLocal(e) = Untracked /\ e.borrowers = {}
           /\ ~DecLocalFrees(e) => DecLocal(e).borrowers = e.borrowers
           /\ \A w : /\ RemoveBorrower(e, w) \in OwnerEntry
                     /\ RemoveBorrower(e, w).local = e.local
                     /\ RemoveBorrowerFrees(e, w) =>
                          RemoveBorrower(e, w) = Untracked /\ e.borrowers \subseteq {w}
                     /\ ~RemoveBorrowerFrees(e, w) =>
                          e.borrowers \ {w} \subseteq RemoveBorrower(e, w).borrowers
<1>1. Untracked \in OwnerEntry /\ Untracked.local = 0 /\ Untracked.borrowers = {}
    BY Zenon DEF Untracked, OwnerEntry
<1>2. /\ WithoutLocal(e) \in OwnerEntry /\ WithoutLocal(e).borrowers = e.borrowers
      /\ WithoutLocal(e).local > 0 => e.local > 0
    BY DEF WithoutLocal, SaturatingDec, OwnerEntry
<1>3. \A d \in OwnerEntry : /\ IsUnpinned(d) => d.local = 0 /\ d.borrowers = {}
                            /\ Settle(d) = IF IsUnpinned(d) THEN Untracked ELSE d
    BY Zenon DEF IsUnpinned, Settle
<1>4. e.tracked \in BOOLEAN /\ e.local \in Nat /\ e.borrowers \subseteq Borrowers
    BY Zenon DEF OwnerEntry
<1>5. /\ DecLocal(e) \in OwnerEntry
      /\ DecLocal(e).local > 0 => e.local > 0
      /\ DecLocalFrees(e) => DecLocal(e) = Untracked /\ e.borrowers = {}
      /\ ~DecLocalFrees(e) => DecLocal(e).borrowers = e.borrowers
    <2>1. /\ DecLocal(e) = IF e.tracked THEN Settle(WithoutLocal(e)) ELSE e
          /\ DecLocalFrees(e) <=> e.tracked /\ IsUnpinned(WithoutLocal(e))
        BY Zenon DEF DecLocal, DecLocalFrees
    <2> QED
        BY <1>1, <1>2, <1>3, <2>1, Zenon
<1>6. ASSUME NEW w
      PROVE  /\ RemoveBorrower(e, w) \in OwnerEntry
             /\ RemoveBorrower(e, w).local = e.local
             /\ RemoveBorrowerFrees(e, w) => RemoveBorrower(e, w) = Untracked /\ e.borrowers \subseteq {w}
             /\ ~RemoveBorrowerFrees(e, w) => e.borrowers \ {w} \subseteq RemoveBorrower(e, w).borrowers
    <2>1. /\ WithoutBorrower(e, w) \in OwnerEntry /\ WithoutBorrower(e, w).local = e.local
          /\ WithoutBorrower(e, w).borrowers = e.borrowers \ {w}
        BY Zenon DEF WithoutBorrower, OwnerEntry
    <2>2. /\ RemoveBorrower(e, w) = IF e.tracked THEN Settle(WithoutBorrower(e, w)) ELSE e
          /\ RemoveBorrowerFrees(e, w) <=> e.tracked /\ IsUnpinned(WithoutBorrower(e, w))
        BY Zenon DEF RemoveBorrower, RemoveBorrowerFrees
    <2> QED
        BY <1>1, <1>3, <2>1, <2>2, Zenon
<1> QED
    BY <1>5, <1>6, Zenon

\* A step that only changes counts keeps the invariant if nothing becomes held.
LEMMA CountStep ==
    ASSUME Inv, TypeOK', NEW t, SameNames(t), UNCHANGED <<index, plasma, spilled, file, lock>>,
           t \in Procs => ProcOK(t)', t \in Threads => MintOK(t)' /\ ThreadOK(t)',
           \A i \in Ids :
              /\ Held(i)' => Live(i) /\ i \in index
              /\ firm'[i] \subseteq refs'[i].borrowers
              /\ Fresh(i) \/ Coming(i)' => refs'[i] = Untracked
              /\ ~down' /\ refs[i].local > 0 => refs'[i].local > 0 \/ (~Resolving(i) /\ i \in known)
    PROVE  Inv'
<1>1. ASSUME NEW i \in Ids PROVE Keeps(t, i) /\ ObjectOK(i)'
    <2>1. (Fresh(i)' <=> Fresh(i)) /\ (Coming(i)' => Coming(i)) /\ (Live(i)' => Live(i)) /\ ObjectOK(i)
        BY NamesKept, Zenon DEF Live, Inv
    <2>2. ASSUME NEW u \in Threads, u # t, minting[u] = i
          PROVE  i \notin known' /\ (t \in Threads => minting'[t] # i)
        BY <2>2, NamesKept, Zenon DEF Inv
    <2>3. OnDisk(i)' <=> OnDisk(i)
        BY Zenon DEF OnDisk
    <2>4. Keeps(t, i)
        BY <2>1, <2>2, <2>3, Zenon DEF Keeps
    <2>5. ObjectOK(i)'
        BY <2>1, <2>3, Zenon DEF ObjectOK
    <2> QED
        BY <2>4, <2>5, Zenon
<1>2. Frame(t) /\ KeepsLocks(t)
    BY Zenon DEF SameNames, KeepsLocks
<1> QED
    BY <1>1, <1>2, OneProcess, Zenon

\* Put: a fresh id becomes one that is coming, sealed whole in plasma.
LEMMA PutStep == ASSUME Inv, NEW t \in Threads, NEW i \in Ids, Put(t, i) PROVE Inv' /\ Frame(t)
<1>0. TypeOK /\ t \in Procs /\ ProcOK(t) /\ MintOK(t) /\ ThreadOK(t) /\ pc[t] = "idle" /\ i # None
    BY Consts, Zenon DEF Inv, Put, Begin
<1>1. minting[t] = None /\ Fresh(i)
    BY <1>0, Zenon DEF MintOK, PutSteps, SpillSteps, Put, Fresh
<1>2. TypeOK'
    BY <1>0, Zenon DEF TypeOK, PlasmaEntry, Contents, Put, Begin, PutSteps
<1>3. Frame(t) /\ KeepsLocks(t)
    BY <1>0, Zenon DEF TypeOK, Frame, KeepsLocks, Put, Begin
<1>4. ASSUME NEW j \in Ids
      PROVE  /\ Fresh(j)' <=> Fresh(j) /\ j # i
             /\ Coming(j)' => Coming(j) \/ j = i
             /\ Held(j)' <=> Held(j)
    <2>1. minting' = [minting EXCEPT ![t] = i] /\ known' = known /\ refs' = refs /\ firm' = firm
          /\ j # None
        BY Consts, Zenon DEF Put
    <2>2. \A u \in Threads : minting'[u] = j <=> (minting[u] = j \/ (u = t /\ j = i))
        BY <1>0, <1>1, <2>1, Zenon DEF TypeOK
    <2>3. Fresh(j)' <=> Fresh(j) /\ j # i
        BY <2>1, <2>2, Zenon DEF Fresh
    <2>4. Coming(j)' => Coming(j) \/ j = i
        <3> SUFFICES ASSUME NEW u \in Threads, minting'[u] = j, pc'[u] \in {"put_index", "put_own"}, j # i
                     PROVE  Coming(j)
            BY Zenon DEF Coming
        <3>1. minting[u] = j /\ u # t
            BY <1>1, <2>1, <2>2, Zenon
        <3>2. pc'[u] = pc[u]
            BY <1>3, <3>1, Consts, Zenon DEF Frame
        <3> QED
            BY <3>1, <3>2, Zenon DEF Coming
    <2> QED
        BY <2>1, <2>3, <2>4, Zenon DEF Held
<1>5. ObjectOK(i) /\ ~Held(i)
    BY <1>1, Zenon DEF Inv, ObjectOK
<1>6. ASSUME NEW j \in Ids PROVE Keeps(t, j)
    <2>1. UNCHANGED <<index, spilled, file, refs, known, down>>
        BY Zenon DEF Put
    <2>2. ASSUME NEW u \in Threads, u # t, minting[u] = j PROVE j \notin known' /\ minting'[t] # j
        BY <1>1, <2>2, Zenon DEF Inv, MintOK, TypeOK, Put
    <2>3. OnDisk(j)' <=> OnDisk(j)
        BY <2>1, Zenon DEF OnDisk
    <2> QED
        BY <1>1, <1>4, <2>1, <2>2, <2>3, Zenon DEF Keeps, Live
<1>7. ASSUME NEW j \in Ids PROVE ObjectOK(j)'
    <2>1. /\ UNCHANGED <<index, spilled, file, refs, firm>>
          /\ plasma' = [plasma EXCEPT ![i] = [st |-> "sealed", by |-> t, bytes |-> "whole"]]
        BY Zenon DEF Put
    <2>2. OnDisk(j)' <=> OnDisk(j)
        BY <2>1, Zenon DEF OnDisk
    <2>3. CASE j = i
        BY <1>1, <1>4, <2>1, <2>3, Zenon DEF ObjectOK, TypeOK, Inv
    <2>4. CASE j # i
        <3>1. ObjectOK(j) /\ plasma'[j] = plasma[j] /\ (Live(j)' => Live(j))
            BY <1>4, <2>1, <2>4, Zenon DEF Inv, TypeOK, Live
        <3> QED
            BY <1>4, <2>1, <2>2, <2>4, <3>1, Zenon DEF ObjectOK
    <2> QED
        BY <2>3, <2>4, Zenon
<1>8. ProcOK(t)'
    BY <1>0, <1>1, <1>4, Consts, Zenon DEF ProcOK, TypeOK, Restoring, Copying, Put, Begin, GetSteps
<1>9. MintOK(t)'
    <2>1. pc'[t] = "put_index" /\ obj'[t] = i /\ minting'[t] = i /\ known' = known
        BY <1>0, Zenon DEF TypeOK, Put, Begin
    <2>2. \A u \in Threads : minting'[u] = i => u = t
        BY <1>1, <1>3, Zenon DEF Fresh, Frame
    <2> QED
        BY <1>1, <2>1, <2>2, Zenon DEF MintOK, Fresh, PutSteps
<1>10. ThreadOK(t)'
    <2>1. pc'[t] = "put_index" /\ todo'[t] = todo[t] /\ todo[t] \in SUBSET Ids /\ i \notin todo[t]
        BY <1>0, <1>1, Zenon DEF TypeOK, Put, Begin, ThreadOK
    <2> QED
        BY <1>0, <1>4, <2>1, Zenon DEF ThreadOK, FreeSteps, EvictSteps, GetSteps
<1> QED
    BY <1>2, <1>3, <1>6, <1>7, <1>8, <1>9, <1>10, OneProcess, Zenon

\* PressureDone: put returns; the id it publishes has a reference.
LEMMA PressureDoneStep == ASSUME Inv, NEW t \in Threads, PressureDone(t) PROVE Inv' /\ Frame(t)
<1> DEFINE m == minting[t]
<1>0. TypeOK /\ t \in Procs /\ ProcOK(t) /\ MintOK(t) /\ ThreadOK(t) /\ pc[t] = "pick" /\ m \in Ids
    BY Consts, Zenon DEF Inv, PressureDone, MintOK, SpillSteps, TypeOK
<1>1. /\ UNCHANGED <<refs, index, plasma, spilled, file, lock, down, firm, buf>>
      /\ known' = known \cup {m} /\ minting' = [minting EXCEPT ![t] = None]
      /\ pc' = [pc EXCEPT ![t] = "idle"] /\ obj' = [obj EXCEPT ![t] = None]
      /\ todo' = [todo EXCEPT ![t] = {}] /\ over' = [over EXCEPT ![t] = 0]
    BY Zenon DEF PressureDone, Done
<1>2. TypeOK'
    BY <1>0, <1>1 DEF TypeOK, PressureDone
<1>3. Frame(t) /\ KeepsLocks(t)
    BY <1>0, <1>1, Zenon DEF TypeOK, Frame, KeepsLocks
<1>4. ASSUME NEW j \in Ids
      PROVE  (Fresh(j)' <=> Fresh(j)) /\ (Coming(j)' => Coming(j)) /\ (Held(j)' <=> Held(j))
    <2>1. \A u \in Threads : minting'[u] = j <=> minting[u] = j /\ u # t
        BY <1>0, <1>1, Consts, Zenon DEF TypeOK
    <2>2. Fresh(j)' <=> Fresh(j)
        BY <1>1, <2>1, Zenon DEF Fresh
    <2>3. Coming(j)' => Coming(j)
        BY <1>3, <2>1, Consts, Zenon DEF Coming, Frame
    <2> QED
        BY <1>1, <2>2, <2>3, Zenon DEF Held
<1>5. ASSUME NEW j \in Ids PROVE Keeps(t, j) /\ ObjectOK(j)'
    <2>1. ASSUME NEW u \in Threads, u # t, minting[u] = j PROVE j \notin known' /\ minting'[t] # j
        BY <1>1, <2>1, Consts, Zenon DEF Inv, MintOK, TypeOK
    <2>2. (OnDisk(j)' <=> OnDisk(j)) /\ ObjectOK(j)
        BY <1>1, Zenon DEF OnDisk, Inv
    <2>3. Keeps(t, j)
        BY <1>1, <1>4, <2>1, <2>2, Zenon DEF Keeps, Live
    <2>4. ObjectOK(j)'
        BY <1>1, <1>4, <2>2, Zenon DEF ObjectOK, Live
    <2> QED
        BY <2>3, <2>4, Zenon
<1>6. pc'[t] = "idle" /\ obj'[t] = None /\ minting'[t] = None /\ todo'[t] = {} /\ None \notin known'
    BY <1>1, <1>2, Consts DEF TypeOK
<1>7. ProcOK(t)'
    BY <1>6, Zenon DEF ProcOK, Restoring, Copying
<1>8. MintOK(t)' /\ ThreadOK(t)'
    BY <1>6, Zenon DEF MintOK, ThreadOK, PutSteps, SpillSteps, FreeSteps, GetSteps
<1> QED
    BY <1>2, <1>3, <1>5, <1>7, <1>8, OneProcess, Zenon

\* PutOwn: the id that was coming is now held.
LEMMA PutOwnStep == ASSUME Inv, NEW t \in Threads, PutOwn(t) PROVE Inv' /\ SameNames(t)
<1> DEFINE i == obj[t]
<1>0. /\ TypeOK /\ t \in Procs /\ ProcOK(t) /\ MintOK(t) /\ ThreadOK(t) /\ pc[t] = "put_own"
      /\ i = minting[t] /\ i \in Ids /\ ObjectOK(i)
    BY Consts, Zenon DEF Inv, PutOwn, MintOK, PutSteps, TypeOK
<1>1. Coming(i) /\ ~Fresh(i) /\ refs[i] = Untracked /\ i \in index
    BY <1>0, Zenon DEF Coming, ObjectOK, MintOK
<1>2. /\ refs' = [refs EXCEPT ![i] = AddOwned(Untracked)]
      /\ pc' = [pc EXCEPT ![t] = "pressure"] /\ obj' = obj
      /\ UNCHANGED <<index, plasma, spilled, file, lock, known, met, down, firm, buf, minting, todo, over>>
    BY <1>1, Zenon DEF PutOwn, Goto
<1>3. /\ AddOwned(Untracked) \in OwnerEntry /\ AddOwned(Untracked).local = 1
      /\ AddOwned(Untracked).borrowers = {}
    BY EntryAdd, Zenon
<1>4. TypeOK'
    BY <1>0, <1>2, <1>3, Zenon DEF TypeOK, PutSteps
<1>5. SameNames(t)
    BY <1>0, <1>2, Zenon DEF SameNames, Frame, TypeOK
<1>6. ASSUME NEW j \in Ids
      PROVE  /\ Held(j)' => Live(j) /\ j \in index
             /\ firm'[j] \subseteq refs'[j].borrowers
             /\ Fresh(j) \/ Coming(j)' => refs'[j] = Untracked
             /\ ~down' /\ refs[j].local > 0 => refs'[j].local > 0 \/ (~Resolving(j) /\ j \in known)
             /\ Fresh(j)' <=> Fresh(j)
             /\ Live(j)' => Live(j)
    <2>1. ObjectOK(j) /\ (Fresh(j)' <=> Fresh(j)) /\ (Coming(j)' => Coming(j))
        BY <1>5, NamesKept, Zenon DEF Inv
    <2>2. CASE j # i
        <3>1. refs'[j] = refs[j]
            BY <1>0, <1>2, <2>2, Zenon DEF TypeOK
        <3>2. Held(j)' <=> Held(j)
            BY <1>2, <3>1, Zenon DEF Held
        <3> QED
            BY <1>2, <2>1, <3>1, <3>2, Zenon DEF ObjectOK, Live
    <2>3. CASE j = i
        <3>1. refs'[j] = AddOwned(Untracked)
            BY <1>0, <1>2, <2>3, Zenon DEF TypeOK
        <3>2. ~Coming(j)'
            <4> SUFFICES ASSUME NEW u \in Threads, minting[u] = i, pc'[u] \in {"put_index", "put_own"}
                         PROVE  FALSE
                BY <1>2, <2>3, Zenon DEF Coming
            <4>1. u = t
                BY <1>0, Consts, Zenon DEF MintOK
            <4> QED
                BY <1>0, <1>2, <4>1, Zenon DEF TypeOK
        <3>3. firm'[j] = {}
            BY <1>0, <1>1, <1>2, <2>3 DEF ObjectOK, Untracked
        <3> QED
            BY <1>1, <1>3, <2>1, <2>3, <3>1, <3>2, <3>3 DEF Live
    <2> QED
        BY <2>2, <2>3, Zenon
<1>7. pc'[t] = "pressure" /\ refs'[i].local = 1
    BY <1>0, <1>2, <1>3, Zenon DEF TypeOK
<1>8. ProcOK(t)'
    BY <1>0, <1>2, <1>6, <1>7, Zenon DEF ProcOK, Restoring, Copying, Outcomes, GetSteps
<1>9. MintOK(t)'
    BY <1>0, <1>2, <1>7, Zenon DEF MintOK, PutSteps
<1>10. ThreadOK(t)'
    BY <1>0, <1>2, <1>6, <1>7 DEF ThreadOK, FreeSteps, EvictSteps, TypeOK
<1> QED
    BY <1>2, <1>4, <1>5, <1>6, <1>8, <1>9, <1>10, CountStep, Zenon

\* Dropping a pin: the object stops being live only with its last firm pin,
\* and a thread then begins to free it.
LEMMA ReleaseStep ==
    ASSUME Inv, NEW t \in Threads, NEW i \in Ids, NEW e \in OwnerEntry, ~Fresh(i), ~Coming(i),
           refs' = [refs EXCEPT ![i] = e],
           firm' \in [Ids -> SUBSET Borrowers], \A j \in Ids : firm'[j] \subseteq firm[j],
           \A j \in Ids \ {i} : firm'[j] = firm[j],
           firm'[i] \subseteq e.borrowers,
           e.local > 0 => refs[i].local > 0,
           ~down /\ refs[i].local > 0 => e.local > 0 \/ (~Resolving(i) /\ i \in known),
           pc[t] = "idle",
           \/ Begin(t, i, "free_index") /\ e.local = 0 /\ firm'[i] = {}
           \/ UNCHANGED <<pc, obj>>,
           UNCHANGED <<index, plasma, spilled, file, lock, known, met, down, buf, minting, todo, over>>
    PROVE  Inv' /\ SameNames(t)
<1>0. TypeOK /\ t \in Procs /\ ProcOK(t) /\ MintOK(t) /\ ThreadOK(t)
    BY Consts, Zenon DEF Inv
<1>1. TypeOK'
    <2>1. /\ pc' = pc \/ pc' = [pc EXCEPT ![t] = "free_index"]
          /\ obj' = obj \/ obj' = [obj EXCEPT ![t] = i]
        BY Zenon DEF Begin
    <2>2. /\ pc' \in [Procs -> {"idle"} \cup PutSteps \cup SpillSteps \cup FreeSteps
                                \cup EvictSteps \cup GetSteps \cup Outcomes]
          /\ obj' \in [Procs -> Ids \cup {None}]
        BY <1>0, <2>1 DEF TypeOK, FreeSteps
    <2> QED
        BY <1>0, <2>2, Zenon DEF TypeOK
<1>2. SameNames(t) /\ pc'[t] \in {"idle", "free_index"}
    BY <1>0, Zenon DEF SameNames, Frame, TypeOK, Begin
<1>3. ASSUME NEW j \in Ids
      PROVE  /\ Held(j)' => Held(j)
             /\ firm'[j] \subseteq refs'[j].borrowers
             /\ Fresh(j) \/ Coming(j)' => refs'[j] = Untracked
             /\ ~down' /\ refs[j].local > 0 => refs'[j].local > 0 \/ (~Resolving(j) /\ j \in known)
             /\ Fresh(j)' <=> Fresh(j)
             /\ Live(j)' => Live(j)
             /\ Coming(j)' => Coming(j)
             /\ Held(j) => j \in index
    <2>1. ObjectOK(j) /\ (Fresh(j)' <=> Fresh(j)) /\ (Coming(j)' => Coming(j))
        BY <1>2, NamesKept, Zenon DEF Inv
    <2>2. refs'[j] = IF j = i THEN e ELSE refs[j]
        BY <1>0, Zenon DEF TypeOK
    <2>3. Held(j)' => Held(j)
        BY <2>2, Zenon DEF Held
    <2> QED
        BY <2>1, <2>2, <2>3, Zenon DEF ObjectOK, Live
<1>4. ProcOK(t)'
    BY <1>0, <1>3, Consts DEF ProcOK, Restoring, Copying, Begin, TypeOK
<1>5. MintOK(t)'
    BY <1>0, <1>2, Zenon DEF MintOK, PutSteps, SpillSteps
<1>6. ThreadOK(t)'
    <2>1. pc'[t] = "free_index" => obj'[t] = i /\ ~Held(i)'
        BY <1>0 DEF Begin, TypeOK, Held
    <2>2. pc'[t] = "free_index" => ~Live(obj[t])'
        BY <1>3, <2>1, Zenon DEF Live
    <2> QED
        BY <1>0, <1>2, <1>3, <2>2, Zenon DEF ThreadOK, FreeSteps, EvictSteps, GetSteps, MintOK,
                                             PutSteps, SpillSteps, TypeOK
<1> QED
    BY <1>1, <1>2, <1>3, <1>4, <1>5, <1>6, CountStep, Zenon DEF Live

\* DropRef: not while a get of the object is under way.
LEMMA DropRefStep == ASSUME Inv, NEW t \in Threads, NEW i \in Ids, DropRef(t, i) PROVE Inv' /\ SameNames(t)
<1> DEFINE e == DecLocal(refs[i])
<1>0. refs[i] \in OwnerEntry /\ ObjectOK(i) /\ firm \in [Ids -> SUBSET Borrowers]
    BY Zenon DEF Inv, TypeOK
<1>1. /\ e \in OwnerEntry /\ (e.local > 0 => refs[i].local > 0)
      /\ DecLocalFrees(refs[i]) => e = Untracked /\ refs[i].borrowers = {}
      /\ ~DecLocalFrees(refs[i]) => e.borrowers = refs[i].borrowers
    BY <1>0, EntryDrop, Zenon
<1>2. ~Fresh(i) /\ ~Coming(i)
    BY Zenon DEF DropRef, Fresh, Coming, Inv, MintOK
<1>3. /\ refs' = [refs EXCEPT ![i] = e] /\ firm' = firm /\ i \in known /\ ~Resolving(i) /\ pc[t] = "idle"
      /\ \/ DecLocalFrees(refs[i]) /\ Begin(t, i, "free_index")
         \/ ~DecLocalFrees(refs[i]) /\ UNCHANGED <<pc, obj>>
      /\ UNCHANGED <<index, plasma, spilled, file, lock, known, met, down, buf, minting, todo, over>>
    BY Zenon DEF DropRef, Begin
<1>4. /\ Untracked.local = 0 /\ Untracked.borrowers = {}
      /\ DecLocalFrees(refs[i]) => firm'[i] = {}
      /\ firm'[i] \subseteq e.borrowers
    BY <1>0, <1>1, <1>3, Zenon DEF ObjectOK, Untracked
<1> HIDE DEF e
<1>5. \/ Begin(t, i, "free_index") /\ e.local = 0 /\ firm'[i] = {}
      \/ UNCHANGED <<pc, obj>>
    BY <1>1, <1>3, <1>4, Zenon
<1> QED
    BY <1>0, <1>1, <1>2, <1>3, <1>4, ReleaseStep, Zenon

\* DropBorrower: a borrower that was not firm leaves the object as live as it was.
LEMMA DropBorrowerStep ==
    ASSUME Inv, NEW t \in Threads, NEW w \in Borrowers, NEW i \in Ids, DropBorrower(t, w, i)
    PROVE  Inv' /\ SameNames(t)
<1> DEFINE e == RemoveBorrower(refs[i], w)
<1>0. refs[i] \in OwnerEntry /\ ObjectOK(i) /\ firm \in [Ids -> SUBSET Borrowers]
    BY Zenon DEF Inv, TypeOK
<1>1. /\ e \in OwnerEntry /\ e.local = refs[i].local
      /\ RemoveBorrowerFrees(refs[i], w) => e = Untracked /\ refs[i].borrowers \subseteq {w}
      /\ ~RemoveBorrowerFrees(refs[i], w) => refs[i].borrowers \ {w} \subseteq e.borrowers
    BY <1>0, EntryDrop, Zenon
<1>2. ~Fresh(i) /\ ~Coming(i)
    BY <1>0 DEF DropBorrower, ObjectOK, Untracked
<1>3. /\ refs' = [refs EXCEPT ![i] = e] /\ firm' = [firm EXCEPT ![i] = firm[i] \ {w}] /\ pc[t] = "idle"
      /\ \/ RemoveBorrowerFrees(refs[i], w) /\ Begin(t, i, "free_index")
         \/ ~RemoveBorrowerFrees(refs[i], w) /\ UNCHANGED <<pc, obj>>
      /\ UNCHANGED <<index, plasma, spilled, file, lock, known, met, down, buf, minting, todo, over>>
    BY Zenon DEF DropBorrower, Begin
<1>4. /\ firm' \in [Ids -> SUBSET Borrowers] /\ \A j \in Ids : firm'[j] \subseteq firm[j]
      /\ \A j \in Ids \ {i} : firm'[j] = firm[j]
      /\ firm'[i] = firm[i] \ {w}
    BY <1>0, <1>3, Zenon
<1>5. /\ Untracked.local = 0 /\ Untracked.borrowers = {}
      /\ RemoveBorrowerFrees(refs[i], w) => firm'[i] = {}
      /\ firm'[i] \subseteq e.borrowers
    BY <1>0, <1>1, <1>4, Zenon DEF ObjectOK, Untracked
<1> HIDE DEF e
<1>6. \/ Begin(t, i, "free_index") /\ e.local = 0 /\ firm'[i] = {}
      \/ UNCHANGED <<pc, obj>>
    BY <1>1, <1>3, <1>5, Zenon
<1> QED
    BY <1>1, <1>2, <1>3, <1>4, <1>5, ReleaseStep, Zenon

\* RegisterBorrower: a borrower is firm only on an object that is held already.
LEMMA RegisterBorrowerStep ==
    ASSUME Inv, NEW w \in Borrowers, NEW i \in Ids, RegisterBorrower(w, i)
    PROVE  Inv' /\ SameNames(None)
<1> DEFINE e == AddBorrower(refs[i], w)
<1>0. TypeOK /\ refs[i] \in OwnerEntry /\ ~Fresh(i) /\ ~Coming(i)
    BY Zenon DEF Inv, TypeOK, RegisterBorrower, Fresh, Coming, MintOK
<1>1. e \in OwnerEntry /\ e.local = refs[i].local /\ e.borrowers = refs[i].borrowers \cup {w}
    BY <1>0, EntryAdd, Zenon
<1>2. /\ refs' = [refs EXCEPT ![i] = e]
      /\ firm' = [firm EXCEPT ![i] = IF Held(i) THEN firm[i] \cup {w} ELSE firm[i]]
      /\ UNCHANGED <<index, plasma, spilled, file, lock, known, met, down, pc, obj, buf, minting, todo, over>>
    BY Zenon DEF RegisterBorrower, proc
<1> HIDE DEF e
<1>3. TypeOK'
    BY <1>0, <1>1, <1>2, Zenon DEF TypeOK
<1>4. SameNames(None) /\ None \notin Procs /\ None \notin Threads
    BY <1>2, Consts, Zenon DEF SameNames, Frame
<1>5. ASSUME NEW j \in Ids
      PROVE  /\ Held(j)' => Live(j) /\ j \in index
             /\ firm'[j] \subseteq refs'[j].borrowers
             /\ Fresh(j) \/ Coming(j)' => refs'[j] = Untracked
             /\ ~down' /\ refs[j].local > 0 => refs'[j].local > 0 \/ (~Resolving(j) /\ j \in known)
    <2>1. ObjectOK(j) /\ (Coming(j)' => Coming(j))
        BY <1>4, NamesKept, Zenon DEF Inv
    <2>2. /\ refs'[j] = IF j = i THEN e ELSE refs[j]
          /\ firm'[j] = IF j = i /\ Held(i) THEN firm[i] \cup {w} ELSE firm[j]
        BY <1>0, <1>2, Zenon DEF TypeOK
    <2>3. Held(j)' => Held(j)
        BY <1>1, <2>2, Zenon DEF Held
    <2> QED
        BY <1>0, <1>1, <2>1, <2>2, <2>3, Zenon DEF ObjectOK, Live
<1> QED
    BY <1>2, <1>3, <1>4, <1>5, CountStep, Zenon

\* Shutdown: the table is drained, so nothing is held any more.
LEMMA ShutdownStep == ASSUME Inv, NEW t \in Threads, Shutdown(t) PROVE Inv' /\ SameNames(t)
<1>0. TypeOK /\ t \in Procs /\ ProcOK(t) /\ MintOK(t) /\ ThreadOK(t) /\ pc[t] = "idle"
    BY Consts, Zenon DEF Inv, Shutdown
<1>1. /\ refs' = [j \in Ids |-> Untracked] /\ firm' = [j \in Ids |-> {}] /\ down' = TRUE /\ met' = Ids
      /\ todo' = [todo EXCEPT ![t] = {j \in Ids : refs[j].tracked}]
      /\ pc' = [pc EXCEPT ![t] = "evict"] /\ obj' = obj
      /\ UNCHANGED <<index, plasma, spilled, file, lock, known, buf, minting, over>>
    BY Zenon DEF Shutdown, Goto
<1>2. Untracked \in OwnerEntry /\ Untracked.local = 0 /\ ~Untracked.tracked
    BY Zenon DEF Untracked, OwnerEntry
<1>3. TypeOK'
    BY <1>0, <1>1, <1>2, Zenon DEF TypeOK, EvictSteps
<1>4. SameNames(t)
    BY <1>0, <1>1, Zenon DEF SameNames, Frame, TypeOK
<1>5. ASSUME NEW j \in Ids
      PROVE  /\ ~Held(j)' /\ firm'[j] = {} /\ refs'[j] = Untracked
             /\ Fresh(j)' <=> Fresh(j)
             /\ Live(j)' => Coming(j)
             /\ refs[j].tracked => ~Fresh(j) /\ ~Coming(j)
    <2>1. ObjectOK(j) /\ (Fresh(j)' <=> Fresh(j)) /\ (Coming(j)' => Coming(j))
        BY <1>4, NamesKept, Zenon DEF Inv
    <2>2. firm'[j] = {} /\ refs'[j] = Untracked
        BY <1>1, Zenon
    <2>3. ~Held(j)'
        BY <1>2, <2>2 DEF Held
    <2> QED
        BY <1>2, <2>1, <2>2, <2>3, Zenon DEF ObjectOK, Live
<1>6. ProcOK(t)'
    BY <1>0, <1>1, <1>5, Consts DEF ProcOK, Restoring, Copying, TypeOK
<1>7. MintOK(t)'
    BY <1>0, <1>1, Zenon DEF MintOK, TypeOK, PutSteps, SpillSteps
<1>8. ThreadOK(t)'
    <2>1. pc'[t] = "evict" /\ todo'[t] = {j \in Ids : refs[j].tracked} /\ down'
        BY <1>0, <1>1, Zenon DEF TypeOK
    <2> QED
        BY <1>5, <2>1, Zenon DEF ThreadOK, FreeSteps
<1> QED
    BY <1>1, <1>3, <1>4, <1>5, <1>6, <1>7, <1>8, CountStep, Zenon

-----------------------------------------------------------------------------
(* The theorems.                                                           *)

\* The invariant holds at first.
LEMMA InvInit == Init => Inv
<1> SUFFICES ASSUME Init PROVE Inv
    BY Zenon
<1>1. TypeOK
    <2>1. Untracked \in OwnerEntry /\ Absent \in PlasmaEntry
        BY Zenon DEF Untracked, OwnerEntry, Absent, PlasmaEntry, Contents
    <2> QED
        BY <2>1, Zenon DEF Init, TypeOK, Contents
<1>2. ASSUME NEW t \in Threads PROVE MintOK(t) /\ ThreadOK(t)
    BY Consts, Zenon DEF Init, MintOK, ThreadOK, PutSteps, SpillSteps, FreeSteps, GetSteps
<1>3. ASSUME NEW p \in Procs PROVE ProcOK(p)
    BY Zenon DEF Init, ProcOK, Restoring, Copying
<1>4. ASSUME NEW i \in Ids PROVE ObjectOK(i)
    <2>1. ~Live(i)
        BY SMTT(30) DEF Init, Live, Held, Coming, Untracked, Procs
    <2> QED
        BY <2>1, Zenon DEF Init, ObjectOK, Absent, Live
<1> QED
    BY <1>1, <1>2, <1>3, <1>4, Zenon DEF Inv

\* It does not depend on anything else.
LEMMA InvStutter == ASSUME Inv, UNCHANGED vars PROVE Inv'
<1>1. UNCHANGED <<refs, index, plasma, spilled, file, lock, known, met, down, firm, pc, obj, buf,
                  minting, todo, over>>
    BY Zenon DEF vars, proc
<1>2. TypeOK'
    BY <1>1, Zenon DEF Inv, TypeOK
<1>3. \A i : /\ Fresh(i)' <=> Fresh(i)
             /\ Coming(i)' <=> Coming(i)
             /\ Held(i)' <=> Held(i)
             /\ OnDisk(i)' <=> OnDisk(i)
    BY <1>1, Zenon DEF Fresh, Coming, Held, OnDisk
<1>4. \A i : Live(i)' <=> Live(i)
    BY <1>3, Zenon DEF Live
<1>5. \A t \in Threads : MintOK(t)' /\ ThreadOK(t)'
    BY <1>1, <1>3, <1>4, Zenon DEF Inv, MintOK, ThreadOK
<1>6. \A p \in Procs : ProcOK(p)'
    BY <1>1, <1>3, <1>4, Zenon DEF Inv, ProcOK
<1>7. \A i \in Ids : ObjectOK(i)'
    BY <1>1, <1>3, <1>4, Zenon DEF Inv, ObjectOK
<1> QED
    BY <1>2, <1>5, <1>6, <1>7, Zenon DEF Inv

\* Every step keeps it.
LEMMA InvStep == ASSUME Inv, Next PROVE Inv'
<1>1. ASSUME NEW t \in Threads, NEW i \in Ids,
             Put(t, i) \/ PickVictim(t, i) \/ Get(t, i) \/ DropRef(t, i) \/ EvictIndex(t, i)
      PROVE  Inv'
    BY <1>1, PutStep, PickVictimStep, GetStep, DropRefStep, EvictIndexStep, Zenon
<1>2. ASSUME NEW t \in Threads, NEW i \in Ids, NEW w \in Borrowers, DropBorrower(t, w, i) PROVE Inv'
    BY <1>2, DropBorrowerStep, Zenon
<1>3. ASSUME NEW t \in Threads, PutIndex(t) \/ PutOwn(t) \/ PressureCheck(t) \/ PressureDone(t) PROVE Inv'
    BY <1>3, PutIndexStep, PutOwnStep, PressureCheckStep, PressureDoneStep, Zenon
<1>4. ASSUME NEW t \in Threads,
             SpillRead(t) \/ SpillFile(t) \/ SpillFileFails(t) \/ SpillDir(t) \/ SpillDelete(t) PROVE Inv'
    BY <1>4, SpillReadStep, SpillFileStep, SpillFileFailsStep, SpillDirStep, SpillDeleteStep, Zenon
<1>5. ASSUME NEW t \in Threads, FreeIndex(t) \/ FreePlasma(t) \/ ForgetDir(t) \/ ForgetFile(t) PROVE Inv'
    BY <1>5, FreeIndexStep, FreePlasmaStep, ForgetDirStep, ForgetFileStep, Zenon
<1>6. ASSUME NEW t \in Threads, Shutdown(t) \/ EvictPlasma(t) \/ EvictDone(t) PROVE Inv'
    BY <1>6, ShutdownStep, EvictPlasmaStep, EvictDoneStep, Zenon
<1>7. ASSUME NEW r \in Pullers, PullerStep(r) PROVE Inv'
    BY <1>7, ReopenStep, PullStep, Zenon DEF PullerStep
<1>8. ASSUME NEW p \in Procs,
             ReadPlasma(p) \/ RestoreLookup(p) \/ RestoreRead(p) \/ RestoreFails(p) \/ RestorePurge(p)
      PROVE  Inv'
    BY <1>8, ReadPlasmaStep, RestoreLookupStep, RestoreReadStep, RestoreFailsStep, RestorePurgeStep,
       Zenon
<1>9. ASSUME NEW p \in Procs,
             ResealCheck(p) \/ ResealInsert(p) \/ ResealWrite(p) \/ ResealSeal(p) \/ Return(p) PROVE Inv'
    BY <1>9, ResealCheckStep, ResealInsertStep, ResealWriteStep, ResealSealStep, ReturnStep, Zenon
<1>10. ASSUME NEW w \in Borrowers, NEW i \in Ids, RegisterBorrower(w, i) PROVE Inv'
    BY <1>10, RegisterBorrowerStep, Zenon
<1>11. ASSUME NEW t \in Threads, ThreadStep(t) PROVE Inv'
    BY <1>1, <1>2, <1>3, <1>4, <1>5, <1>6, <1>11, Zenon DEF ThreadStep
<1>12. ASSUME NEW p \in Procs, ResolveStep(p) PROVE Inv'
    BY <1>8, <1>9, <1>12, Zenon DEF ResolveStep
<1> QED
    BY <1>7, <1>10, <1>11, <1>12, Zenon DEF Next

\* In every execution of put, spill, restore, get, Pull, free, borrowing and
\* shutdown the inductive invariant holds.
THEOREM Placed == Spec => []Inv
<1>1. Inv /\ [Next]_vars => Inv'
    BY InvStep, InvStutter, Zenon
<1> QED
    BY <1>1, InvInit, PTL DEF Spec

\* Types.
THEOREM TypeCorrect == Spec => []TypeOK
<1>1. Inv => TypeOK
    BY Zenon DEF Inv
<1> QED
    BY <1>1, Placed, PTL

\* An object that the owner answers for stays in the index, and its bytes stay in
\* plasma or on disk: spill deletes the plasma copy last, restore keeps the
\* record, and only the drop of the last pin frees.
THEOREM HeldIsStored == Spec => []NotForgotten
<1>1. Inv => NotForgotten
    BY Zenon DEF Inv, NotForgotten, ObjectOK, Live, OnDisk
<1> QED
    BY <1>1, Placed, PTL
=============================================================================
