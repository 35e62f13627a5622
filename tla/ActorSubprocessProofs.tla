------------------------ MODULE ActorSubprocessProofs -----------------------
(***************************************************************************)
(* Proofs about ActorSubprocess for any number of calls, restarts and      *)
(* crashes, wherever the process may crash: an actor never has two         *)
(* processes, none is left once terminate has returned, the restart budget *)
(* bounds the incarnations, and until terminate a result that the driver's *)
(* store knows of stays in the shared store.                               *)
(***************************************************************************)
EXTENDS ActorSubprocess, TLAPS

CrashPath == {"seal", "reap", "respawn"}

\* Only the present incarnation is active; older ones are over, younger ones
\* not yet there.
Generations ==
    /\ \A g \in Gens : g < gen => proc[g] = "gone" /\ reader[g].pc = "closed"
    /\ \A g \in Gens : g > gen => proc[g] = "unborn" /\ reader[g].pc = "none"
    /\ proc[gen] # "unborn"

\* The crash path holds _state_lock, runs only if nobody terminated the actor
\* before, and reaps before it decides; the restarts paid for so far are the
\* incarnations after the first.
Crashing ==
    /\ reader[gen].pc \in CrashPath => lock = gen /\ ~terminated
    /\ reader[gen].pc \in {"reap", "respawn"} => proc[gen] = "gone"
    /\ reader[gen].pc \in {"reading", "record", "seal", "reap"} => restarts + 1 = gen
    /\ reader[gen].pc = "respawn" => restarts = gen

\* terminate works on the incarnation it met, which stays the last one.
Terminating ==
    /\ terminated <=> term.pc # "none"
    /\ terminated => term.gen = gen
    /\ term.pc \in {"close", "done"} => proc[gen] = "gone"

\* A process in a method, and a reader that records, have a call.
Busy ==
    /\ \A g \in Gens : proc[g] \in {"method", "sealed"} => running[g] \in Calls
    /\ \A g \in Gens : reader[g].pc = "record" => reader[g].oid \in Calls

Typed == TypeOK /\ Busy

Inv == Typed /\ Generations /\ Crashing /\ Terminating

-----------------------------------------------------------------------------
\* Incarnations are counted from one; none of them is None.
LEMMA GensType ==
    /\ Gens \subseteq Nat /\ 1 \in Gens /\ None \notin Gens
    /\ \A g \in Gens : g >= 1 /\ (g <= MaxRestarts => g + 1 \in Gens)
BY ActorAssumption DEF Gens

\* Frames are queued and taken one at a time.
LEMMA SeqType ==
    ASSUME NEW S, NEW f \in [Gens -> Seq(S)], NEW g \in Gens
    PROVE  /\ \A x \in S : [f EXCEPT ![g] = Append(@, x)] \in [Gens -> Seq(S)]
           /\ [f EXCEPT ![g] = <<>>] \in [Gens -> Seq(S)]
           /\ f[g] # <<>> => /\ [f EXCEPT ![g] = Tail(@)] \in [Gens -> Seq(S)]
                             /\ Head(f[g]) \in S
<1>1. f[g] \in Seq(S)
    OBVIOUS
<1>2. \A x \in S : Append(f[g], x) \in Seq(S)
    BY <1>1
<1>3. f[g] # <<>> => Tail(f[g]) \in Seq(S) /\ Head(f[g]) \in S
    BY <1>1
<1>4. <<>> \in Seq(S)
    OBVIOUS
<1> QED
    BY <1>2, <1>3, <1>4

\* What becomes of a call.
CallTable == [Calls -> [pc : {"new", "send", "sent", "raised"}, gen : Gens]]

\* A call moves on within its table.
LEMMA CallMoves ==
    ASSUME NEW f \in CallTable, NEW c \in Calls, NEW p \in {"new", "send", "sent", "raised"}, NEW g \in Gens
    PROVE  [f EXCEPT ![c].pc = p] \in CallTable /\ [f EXCEPT ![c] = [pc |-> p, gen |-> g]] \in CallTable
BY DEF CallTable

\* The first process is spawned by the constructor.
LEMMA InitInv == Init => Inv
<1> SUFFICES ASSUME Init PROVE Inv
    OBVIOUS
<1>1. TypeOK
    <2>1. wire \in [Gens -> Seq(Calls \cup {"shutdown"})] /\ replies \in [Gens -> Seq(Calls)]
        BY DEF Init
    <2>2. restarts \in 0 .. MaxRestarts /\ crashes \in 0 .. MaxCrashes /\ gen \in Gens
        BY GensType, ActorAssumption DEF Init
    <2>3. reader \in [Gens -> [pc : ReaderPcs, oid : Calls \cup {None}, todo : SUBSET Calls]]
        BY DEF Init, ReaderPcs
    <2> QED
        BY <2>1, <2>2, <2>3, GensType, Zenon DEF Init, TypeOK, ProcPcs, TermPcs
<1>4. Busy
    BY DEF Init, Busy
<1>2. Generations
    <2>1. gen = 1 /\ \A g \in Gens : ~(g < 1) /\ (g > 1 => g # 1)
        BY GensType DEF Init
    <2>2. proc[1] = "spawning"
        BY GensType DEF Init
    <2>3. \A g \in Gens : g # 1 => proc[g] = "unborn" /\ reader[g].pc = "none"
        BY DEF Init
    <2> QED
        BY <2>1, <2>2, <2>3 DEF Generations
<1>3. Crashing /\ Terminating
    BY GensType DEF Init, Crashing, Terminating, CrashPath
<1> QED
    BY <1>1, <1>2, <1>3, <1>4 DEF Inv, Typed

\* Steps that leave incarnations, readers' places and terminate alone.
LEMMA Frame ==
    ASSUME Inv, Typed',
           \A g \in Gens : reader'[g].pc = reader[g].pc
                           \/ (g = gen /\ {reader'[g].pc, reader[g].pc} \subseteq {"reading", "record"}),
           \A g \in Gens : proc'[g] = proc[g]
                           \/ (proc[g] \notin {"unborn", "gone"} /\ proc'[g] # "unborn"),
           UNCHANGED <<terminated, restarts, gen, lock, term>>
    PROVE  Inv'
<1>1. Generations'
    BY ZenonT(30) DEF Inv, Typed, TypeOK, Generations
<1>2. Crashing'
    BY ZenonT(30) DEF Inv, Typed, TypeOK, Crashing, CrashPath
<1>3. Terminating'
    BY DEF Inv, Typed, TypeOK, Terminating
<1> QED
    BY <1>1, <1>2, <1>3 DEF Inv

\* The calling threads.
LEMMA CallInv == ASSUME Inv, NEW c \in Calls, DispatchCall(c) \/ SendCall(c) PROVE Inv'
<1>1. CASE DispatchCall(c)
    <2>1. Typed'
        <3>1. call' \in CallTable
            <4>1. \/ call' = [call EXCEPT ![c].pc = "raised"]
                  \/ call' = [call EXCEPT ![c] = [pc |-> "send", gen |-> gen]]
                BY <1>1 DEF DispatchCall
            <4>2. call \in CallTable /\ gen \in Gens
                BY DEF Inv, Typed, TypeOK, CallTable
            <4>3. [call EXCEPT ![c].pc = "raised"] \in CallTable
                BY <4>2, CallMoves, Zenon
            <4>4. [call EXCEPT ![c] = [pc |-> "send", gen |-> gen]] \in CallTable
                BY <4>2 DEF CallTable
            <4> QED
                BY <4>1, <4>3, <4>4, Zenon
        <3>2. inFlight' \subseteq Calls
            BY <1>1 DEF Inv, Typed, TypeOK, DispatchCall
        <3> QED
            BY <1>1, <3>1, <3>2, Zenon
               DEF Inv, Typed, TypeOK, Busy, CallTable, DispatchCall, procs, socks, stores
    <2> QED
        BY <1>1, <2>1, Frame DEF DispatchCall, procs
<1>2. CASE SendCall(c)
    <2>1. call[c].gen \in Gens
        BY DEF Inv, Typed, TypeOK
    <2>2. wire' \in [Gens -> Seq(Calls \cup {"shutdown"})]
        <3>1. wire' = wire \/ wire' = [wire EXCEPT ![call[c].gen] = Append(@, c)]
            BY <1>2 DEF SendCall
        <3>2. wire \in [Gens -> Seq(Calls \cup {"shutdown"})] /\ c \in Calls \cup {"shutdown"}
            BY DEF Inv, Typed, TypeOK
        <3>3. [wire EXCEPT ![call[c].gen] = Append(@, c)] \in [Gens -> Seq(Calls \cup {"shutdown"})]
            BY <2>1, <3>2, SeqType
        <3> QED
            BY <3>1, <3>2, <3>3, ZenonT(30)
    <2>3. Typed'
        <3>1. call' \in CallTable
            <4>1. call' = [call EXCEPT ![c].pc = "sent"] \/ call' = [call EXCEPT ![c].pc = "raised"]
                BY <1>2 DEF SendCall
            <4>2. call \in CallTable /\ gen \in Gens
                BY DEF Inv, Typed, TypeOK, CallTable
            <4> QED
                BY <4>1, <4>2, CallMoves, ZenonT(30)
        <3> QED
            BY <1>2, <2>2, <3>1, Zenon
               DEF Inv, Typed, TypeOK, Busy, CallTable, SendCall, runner, procs, stores
    <2> QED
        BY <1>2, <2>3, Frame DEF SendCall, runner, procs
<1> QED
    BY <1>1, <1>2

\* The actor process: it moves on, and ends.
LEMMA ActorInv == ASSUME Inv, NEW g \in Gens, ActorStep(g) \/ Crash(g) PROVE Inv'
<1>1. CASE ActorSpawn(g)
    <2>1. Typed'
        BY <1>1, ZenonT(30) DEF Inv, Typed, TypeOK, Busy, ActorSpawn, runner, socks, stores, ProcPcs
    <2> QED
        BY <1>1, <2>1, Frame, Zenon DEF ActorSpawn, runner, Inv, Typed, TypeOK
<1>2. CASE ActorSpawnRaises(g)
    <2>1. Typed'
        BY <1>2, ZenonT(30)
           DEF Inv, Typed, TypeOK, Busy, ActorSpawnRaises, runner, socks, stores, ProcPcs
    <2> QED
        BY <1>2, <2>1, Frame, Zenon DEF ActorSpawnRaises, runner, Inv, Typed, TypeOK
<1>3. CASE ActorRecv(g)
    <2>1. wire' \in [Gens -> Seq(Calls \cup {"shutdown"})]
        <3>1. wire' = wire \/ (wire[g] # <<>> /\ wire' = [wire EXCEPT ![g] = Tail(@)])
            BY <1>3 DEF ActorRecv
        <3>2. wire \in [Gens -> Seq(Calls \cup {"shutdown"})]
            BY DEF Inv, Typed, TypeOK
        <3>3. wire[g] # <<>> => [wire EXCEPT ![g] = Tail(@)] \in [Gens -> Seq(Calls \cup {"shutdown"})]
            BY <3>2, SeqType
        <3> QED
            BY <3>1, <3>2, <3>3, Zenon
    <2>2. running' \in [Gens -> Calls \cup {None}]
        BY <1>3, ZenonT(30) DEF Inv, Typed, TypeOK, ActorRecv
    <2>3. Typed'
        BY <1>3, <2>1, <2>2, ZenonT(30) DEF Inv, Typed, TypeOK, Busy, ActorRecv, runner, stores, ProcPcs
    <2> QED
        BY <1>3, <2>3, Frame, ZenonT(30) DEF ActorRecv, runner, Inv, Typed, TypeOK
<1>4. CASE ActorSeal(g)
    <2>1. running[g] \in Calls
        BY <1>4 DEF Inv, Typed, Busy, ActorSeal
    <2>2. Typed'
        BY <1>4, <2>1, ZenonT(30) DEF Inv, Typed, TypeOK, Busy, ActorSeal, runner, socks, ProcPcs
    <2> QED
        BY <1>4, <2>2, Frame, ZenonT(30) DEF ActorSeal, runner, Inv, Typed, TypeOK
<1>5. CASE ActorReply(g)
    <2>1. running[g] \in Calls
        BY <1>5 DEF Inv, Typed, Busy, ActorReply
    <2>3. replies' \in [Gens -> Seq(Calls)]
        BY <1>5, <2>1, SeqType DEF Inv, Typed, TypeOK, ActorReply
    <2>2. Typed'
        BY <1>5, <2>3, ZenonT(30) DEF Inv, Typed, TypeOK, Busy, ActorReply, runner, stores, ProcPcs
    <2> QED
        BY <1>5, <2>2, Frame, Zenon DEF ActorReply, runner, Inv, Typed, TypeOK
<1>6. CASE ActorExit(g)
    <2>1. Typed'
        BY <1>6, SMTT(30) DEF Inv, Typed, TypeOK, Busy, ActorExit, runner, stores, ProcPcs
    <2> QED
        BY <1>6, <2>1, Frame, ZenonT(30) DEF ActorExit, runner, Inv, Typed, TypeOK
<1>7. CASE ActorEvict(g)
    <2>1. Typed'
        BY <1>7, ZenonT(30) DEF Inv, Typed, TypeOK, Busy, ActorEvict, runner, socks, ProcPcs
    <2> QED
        BY <1>7, <2>1, Frame, Zenon DEF ActorEvict, runner, Inv, Typed, TypeOK
<1>8. CASE Crash(g)
    <2>1. Typed'
        <3>1. crashes' \in 0 .. MaxCrashes
            BY <1>8, ActorAssumption, SMTT(30) DEF Inv, Typed, TypeOK, Crash
        <3>2. wire' \in [Gens -> Seq(Calls \cup {"shutdown"})]
            BY <1>8, SeqType DEF Inv, Typed, TypeOK, Crash, Die
        <3> QED
            BY <1>8, <3>1, <3>2, ZenonT(30)
               DEF Inv, Typed, TypeOK, Busy, Crash, Die, runner, stores, ProcPcs
    <2>2. proc[g] \notin {"unborn", "gone"}
        BY <1>8, ActorAssumption DEF Crash
    <2> QED
        BY <1>8, <2>1, <2>2, Frame, Zenon DEF Crash, Die, runner, Inv, Typed, TypeOK
<1> QED
    BY <1>1, <1>2, <1>3, <1>4, <1>5, <1>6, <1>7, <1>8 DEF ActorStep

\* The reader of another incarnation than the present one is over or not there.
LEMMA ReaderIsPresent ==
    ASSUME Inv, NEW g \in Gens, reader[g].pc \notin {"none", "closed"}
    PROVE  g = gen
BY GensType DEF Inv, Typed, TypeOK, Generations

\* The reader's record, wherever it goes.
LEMMA ReaderMoves ==
    ASSUME TypeOK, NEW g \in Gens, NEW p \in ReaderPcs, NEW o \in Calls \cup {None}, NEW T \in SUBSET Calls
    PROVE  LET R == [Gens -> [pc : ReaderPcs, oid : Calls \cup {None}, todo : SUBSET Calls]]
           IN  /\ [reader EXCEPT ![g].pc = p] \in R
               /\ [reader EXCEPT ![g].todo = T] \in R
               /\ [reader EXCEPT ![g].pc = p, ![g].oid = o] \in R
               /\ [reader EXCEPT ![g].pc = p, ![g].todo = T] \in R
<1> DEFINE R == [pc : ReaderPcs, oid : Calls \cup {None}, todo : SUBSET Calls]
<1>1. reader \in [Gens -> R]
    BY DEF TypeOK
<1>2. \A x \in R : /\ [x EXCEPT !.pc = p] \in R
                   /\ [x EXCEPT !.todo = T] \in R
                   /\ [x EXCEPT !.pc = p, !.oid = o] \in R
                   /\ [x EXCEPT !.pc = p, !.todo = T] \in R
    BY ZenonT(30)
<1> HIDE DEF R
<1>3. /\ [reader EXCEPT ![g].pc = p] \in [Gens -> R]
      /\ [reader EXCEPT ![g].todo = T] \in [Gens -> R]
    BY <1>1, <1>2, Zenon
<1>4. [reader EXCEPT ![g].pc = p, ![g].oid = o] \in [Gens -> R]
    BY <1>1, <1>2, ZenonT(30)
<1>5. [reader EXCEPT ![g].pc = p, ![g].todo = T] \in [Gens -> R]
    BY <1>1, <1>2, Zenon
<1> QED
    BY <1>3, <1>4, <1>5 DEF R

\* Completions.
LEMMA ReaderReplyInv == ASSUME Inv, NEW g \in Gens, ReaderRecv(g) \/ ReaderRecord(g) PROVE Inv'
<1>1. g = gen /\ gen' = gen
    BY ReaderIsPresent DEF ReaderRecv, ReaderRecord, runner
<1>2. CASE ReaderRecv(g)
    <2>1. replies \in [Gens -> Seq(Calls)] /\ replies[g] # <<>>
        BY <1>2 DEF Inv, Typed, TypeOK, ReaderRecv
    <2>2. Head(replies[g]) \in Calls /\ [replies EXCEPT ![g] = Tail(@)] \in [Gens -> Seq(Calls)]
        BY <2>1, SeqType
    <2>3. reader' \in [Gens -> [pc : ReaderPcs, oid : Calls \cup {None}, todo : SUBSET Calls]]
        BY <1>2, <2>2, ReaderMoves, Zenon DEF ReaderRecv, ReaderPcs, Inv, Typed
    <2>4. TypeOK'
        BY <1>2, <2>2, <2>3, Zenon DEF Inv, Typed, TypeOK, ReaderRecv, procs, stores
    <2>5. /\ \A h \in Gens : h # g => reader'[h] = reader[h]
          /\ reader'[g].pc = "record" /\ reader'[g].oid = Head(replies[g]) /\ reader[g].pc = "reading"
        BY <1>2 DEF Inv, Typed, TypeOK, ReaderRecv
    <2>6. Typed'
        BY <1>2, <2>2, <2>4, <2>5, Zenon DEF Inv, Typed, Busy, ReaderRecv, procs
    <2> QED
        BY <1>1, <1>2, <2>5, <2>6, Frame, Zenon DEF ReaderRecv, procs
<1>3. CASE ReaderRecord(g)
    <2>1. reader' \in [Gens -> [pc : ReaderPcs, oid : Calls \cup {None}, todo : SUBSET Calls]]
        BY <1>3, ReaderMoves, ZenonT(30) DEF ReaderRecord, ReaderPcs, Inv, Typed
    <2>2. reader[g].oid \in Calls
        BY <1>3 DEF Inv, Typed, Busy, ReaderRecord
    <2>3. TypeOK'
        BY <1>3, <2>1, <2>2, Zenon DEF Inv, Typed, TypeOK, ReaderRecord, runner, procs, socks
    <2>4. /\ \A h \in Gens : h # g => reader'[h] = reader[h]
          /\ reader'[g].pc = "reading" /\ reader[g].pc = "record"
        BY <1>3 DEF Inv, Typed, TypeOK, ReaderRecord
    <2>5. Typed'
        BY <1>3, <2>3, <2>4, Zenon DEF Inv, Typed, Busy, ReaderRecord, procs
    <2> QED
        BY <1>1, <1>3, <2>4, <2>5, Frame, Zenon DEF ReaderRecord, runner, procs
<1> QED
    BY <1>2, <1>3

\* What the present incarnation does leaves the others as they are.
LEMMA OthersStay ==
    ASSUME Inv, gen' = gen, proc'[gen] # "unborn",
           \A h \in Gens : h # gen => reader'[h] = reader[h] /\ proc'[h] = proc[h]
    PROVE  Generations'
<1>1. gen \in Nat /\ Gens \subseteq Nat
    BY GensType DEF Inv, Typed, TypeOK
<1>2. \A h \in Gens : (h < gen \/ h > gen) => h # gen
    BY <1>1
<1> QED
    BY <1>2 DEF Inv, Generations

\* End of file, the sealing of what was in flight, and the reaping.
LEMMA ReaderCrashInv ==
    ASSUME Inv, NEW g \in Gens, ReaderEof(g) \/ ReaderSeal(g) \/ ReaderReap(g)
    PROVE  Inv'
<1> DEFINE R == [Gens -> [pc : ReaderPcs, oid : Calls \cup {None}, todo : SUBSET Calls]]
<1>1. g = gen
    BY ReaderIsPresent DEF ReaderEof, ReaderSeal, ReaderReap
<1>2. CASE ReaderEof(g)
    <2>1. \/ terminated /\ reader' = [reader EXCEPT ![g].pc = "closed"] /\ lock' = lock /\ inFlight' = inFlight
          \/ /\ ~terminated /\ lock' = g /\ inFlight' = {}
             /\ reader' = [reader EXCEPT ![g].pc = "seal", ![g].todo = inFlight]
        BY <1>2 DEF ReaderEof
    <2>2. reader' \in R
        <3>1. TypeOK /\ inFlight \in SUBSET Calls /\ None \in Calls \cup {None}
            BY ZenonT(30) DEF Inv, Typed, TypeOK
        <3>2. {"closed", "seal"} \subseteq ReaderPcs
            BY DEF ReaderPcs
        <3>3. [reader EXCEPT ![g].pc = "closed"] \in R
            BY <3>1, <3>2, ReaderMoves, Zenon
        <3>4. [reader EXCEPT ![g].pc = "seal", ![g].todo = inFlight] \in R
            BY <3>1, <3>2, ReaderMoves, Zenon
        <3> QED
            BY <2>1, <3>3, <3>4, ZenonT(30)
    <2>3. TypeOK'
        BY <1>2, <2>1, <2>2, Zenon DEF Inv, Typed, TypeOK, ReaderEof, procs, socks, stores
    <2>4. /\ \A h \in Gens : h # g => reader'[h] = reader[h]
          /\ reader'[g].pc = "closed" \/ (reader'[g].pc = "seal" /\ ~terminated /\ lock' = g)
          /\ reader[g].pc = "reading"
        BY <1>2, <2>1 DEF Inv, Typed, TypeOK, ReaderEof
    <2>5. UNCHANGED <<terminated, restarts, gen, term, proc, running>>
        BY <1>2 DEF ReaderEof, procs
    <2>6. Typed' /\ Generations'
        <3>1. Typed'
            BY <1>1, <2>3, <2>4, <2>5 DEF Inv, Typed, Busy
        <3>2. Generations'
            BY <1>1, <2>3, <2>4, <2>5, OthersStay DEF Inv, Generations
        <3> QED
            BY <3>1, <3>2
    <2>7. Crashing' /\ Terminating'
        BY <1>1, <2>4, <2>5 DEF Inv, Typed, TypeOK, Crashing, CrashPath, Terminating
    <2> QED
        BY <2>6, <2>7 DEF Inv
<1>3. CASE ReaderSeal(g)
    <2>1. PICK c \in reader[g].todo :
              \/ /\ plasma' = [plasma EXCEPT ![c] = "error"] /\ index' = index \cup {c}
                 /\ reader' = [reader EXCEPT ![g].todo = @ \ {c}] /\ lock' = lock
              \/ /\ reader' = [reader EXCEPT ![g].pc = "closed", ![g].todo = {}]
                 /\ lock' = None /\ plasma' = plasma /\ index' = index
        BY <1>3 DEF ReaderSeal, stores
    <2>2. reader[g].todo \subseteq Calls /\ reader[g].pc = "seal"
        BY <1>3 DEF Inv, Typed, TypeOK, ReaderSeal
    <2>3. reader' \in R
        <3>1. [reader EXCEPT ![g].todo = reader[g].todo \ {c}] \in R
            <4>1. TypeOK /\ reader[g].todo \ {c} \in SUBSET Calls /\ "seal" \in ReaderPcs
                  /\ None \in Calls \cup {None}
                BY <2>2, SMTT(30) DEF Inv, Typed, ReaderPcs
            <4> QED
                BY <4>1, ReaderMoves, Zenon
        <3>2. [reader EXCEPT ![g].pc = "closed", ![g].todo = {}] \in R
            BY ReaderMoves, Zenon DEF Inv, Typed, ReaderPcs
        <3> QED
            BY <2>1, <3>1, <3>2, Zenon
    <2>4. TypeOK'
        <3>1. plasma' \in [Calls -> {"absent", "value", "error"}] /\ index' \subseteq Calls
            BY <2>1, <2>2, ZenonT(30) DEF Inv, Typed, TypeOK
        <3>2. lock' \in Gens \cup {None}
            BY <2>1 DEF Inv, Typed, TypeOK
        <3> QED
            BY <1>3, <2>3, <3>1, <3>2, ZenonT(30) DEF Inv, Typed, TypeOK, ReaderSeal, procs, socks
    <2>5. /\ \A h \in Gens : h # g => reader'[h] = reader[h]
          /\ reader'[g].pc = "closed" \/ (reader'[g].pc = "seal" /\ lock' = lock)
        BY <2>1, <2>2 DEF Inv, Typed, TypeOK
    <2>6. UNCHANGED <<terminated, restarts, gen, term, proc, running>>
        BY <1>3 DEF ReaderSeal, procs
    <2>7. Typed' /\ Generations'
        <3>1. Typed'
            BY <1>1, <2>2, <2>4, <2>5, <2>6 DEF Inv, Typed, Busy
        <3>2. Generations'
            BY <1>1, <2>2, <2>4, <2>5, <2>6, OthersStay, SMTT(30) DEF Inv, Generations
        <3> QED
            BY <3>1, <3>2
    <2>8. Crashing' /\ Terminating'
        BY <1>1, <2>2, <2>5, <2>6, SMTT(30) DEF Inv, Typed, TypeOK, Crashing, CrashPath, Terminating
    <2> QED
        BY <2>7, <2>8 DEF Inv
<1>4. CASE ReaderReap(g)
    <2>1. reader' \in R
        BY <1>4, ReaderMoves, Zenon DEF ReaderReap, Inv, Typed, ReaderPcs
    <2>2. /\ proc' \in [Gens -> ProcPcs] /\ running' \in [Gens -> Calls \cup {None}]
          /\ owned' \in [Gens -> SUBSET Calls]
        BY <1>4, Zenon DEF Inv, Typed, TypeOK, ReaderReap, Die, procs, ProcPcs
    <2>3. wire' \in [Gens -> Seq(Calls \cup {"shutdown"})]
        <3>1. wire \in [Gens -> Seq(Calls \cup {"shutdown"})]
            BY DEF Inv, Typed, TypeOK
        <3>2. wire' = wire \/ wire' = [wire EXCEPT ![g] = <<>>]
            BY <1>4 DEF ReaderReap, Die
        <3>3. [wire EXCEPT ![g] = <<>>] \in [Gens -> Seq(Calls \cup {"shutdown"})]
            BY <3>1, SeqType
        <3> QED
            BY <3>1, <3>2, <3>3, Zenon
    <2>4. TypeOK'
        BY <1>4, <2>1, <2>2, <2>3, Zenon DEF Inv, Typed, TypeOK, ReaderReap, runner, stores
    <2>5. /\ \A h \in Gens : h # g => reader'[h] = reader[h] /\ proc'[h] = proc[h] /\ running'[h] = running[h]
          /\ reader[g].pc = "seal" /\ reader'[g].pc = "reap" /\ proc'[g] = "gone"
        BY <1>4 DEF Inv, Typed, TypeOK, ReaderReap, Die, procs
    <2>6. UNCHANGED <<terminated, restarts, gen, lock, term>>
        BY <1>4 DEF ReaderReap, runner
    <2>7. Typed' /\ Generations'
        <3>1. Typed'
            BY <1>1, <2>4, <2>5, <2>6, SMTT(30) DEF Inv, Typed, Busy
        <3>2. Generations'
            BY <1>1, <2>4, <2>5, <2>6, OthersStay, SMTT(30) DEF Inv, Generations
        <3> QED
            BY <3>1, <3>2
    <2>8. Crashing' /\ Terminating'
        BY <1>1, <2>5, <2>6 DEF Inv, Typed, TypeOK, Crashing, CrashPath, Terminating
    <2> QED
        BY <2>7, <2>8 DEF Inv
<1> QED
    BY <1>2, <1>3, <1>4

\* The decision, the respawn and its failure.
LEMMA ReaderDecideInv ==
    ASSUME Inv, NEW g \in Gens, ReaderDecide(g) \/ Respawn(g) \/ RespawnFails(g)
    PROVE  Inv'
<1> DEFINE R == [Gens -> [pc : ReaderPcs, oid : Calls \cup {None}, todo : SUBSET Calls]]
<1>1. g = gen /\ gen \in Nat /\ restarts \in Nat /\ restarts <= MaxRestarts
    <2>1. g = gen
        BY ReaderIsPresent DEF ReaderDecide, Respawn, RespawnFails
    <2>2. restarts \in 0 .. MaxRestarts
        BY DEF Inv, Typed, TypeOK
    <2> QED
        BY <2>1, <2>2, GensType, ActorAssumption
<1>2. CASE ReaderDecide(g) \/ RespawnFails(g)
    <2>1. reader' \in R
        <3>1. reader' = [reader EXCEPT ![g].pc = "closed"] \/ reader' = [reader EXCEPT ![g].pc = "respawn"]
            BY <1>2 DEF ReaderDecide, RespawnFails
        <3>2. TypeOK /\ {"closed", "respawn"} \subseteq ReaderPcs /\ {} \in SUBSET Calls
              /\ None \in Calls \cup {None}
            BY SMTT(30) DEF Inv, Typed, ReaderPcs
        <3>3. [reader EXCEPT ![g].pc = "closed"] \in R
            BY <3>2, ReaderMoves, ZenonT(30)
        <3>4. [reader EXCEPT ![g].pc = "respawn"] \in R
            BY <3>2, ReaderMoves, Zenon
        <3> QED
            BY <3>1, <3>3, <3>4
    <2>2. restarts' \in 0 .. MaxRestarts /\ dead' \in BOOLEAN /\ registered' \in BOOLEAN
          /\ lock' \in Gens \cup {None}
        <3>1. restarts' = restarts \/ (restarts' = restarts + 1 /\ ~(restarts >= MaxRestarts))
            BY <1>2 DEF ReaderDecide, RespawnFails
        <3>2. restarts' \in 0 .. MaxRestarts
            BY <1>1, <3>1, ActorAssumption
        <3> QED
            BY <1>2, <3>2, Zenon DEF ReaderDecide, RespawnFails, Inv, Typed, TypeOK
    <2>3. TypeOK'
        BY <1>2, <2>1, <2>2, ZenonT(30)
           DEF Inv, Typed, TypeOK, ReaderDecide, RespawnFails, procs, socks, stores
    <2>4. /\ \A h \in Gens : h # g => reader'[h] = reader[h]
          /\ UNCHANGED <<terminated, gen, term, proc, running>>
          /\ \/ reader'[g].pc = "closed" /\ restarts' = restarts /\ reader[g].pc = "reap"
             \/ reader'[g].pc = "closed" /\ restarts' = restarts /\ reader[g].pc = "respawn"
             \/ reader'[g].pc = "respawn" /\ restarts' = restarts + 1 /\ reader[g].pc = "reap" /\ lock' = lock
        BY <1>2 DEF Inv, Typed, TypeOK, ReaderDecide, RespawnFails, procs
    <2>5. Typed' /\ Generations'
        <3>1. Typed'
            BY <1>1, <2>3, <2>4 DEF Inv, Typed, Busy
        <3>2. Generations'
            BY <1>1, <2>3, <2>4, OthersStay, SMTT(30) DEF Inv, Generations
        <3> QED
            BY <3>1, <3>2
    <2>6. Terminating'
        BY <1>1, <2>4 DEF Inv, Typed, TypeOK, Terminating
    <2>7. Crashing'
        <3>1. CASE reader'[g].pc = "closed"
            BY <1>1, <2>4, <3>1 DEF Crashing, CrashPath
        <3>2. CASE reader'[g].pc = "respawn"
            BY <1>1, <2>4, <3>2 DEF Inv, Crashing, CrashPath
        <3> QED
            BY <2>4, <3>1, <3>2
    <2> QED
        BY <2>5, <2>6, <2>7 DEF Inv
<1>3. CASE Respawn(g)
    <2>1. g + 1 \in Gens /\ restarts = g
        BY <1>1, <1>3, GensType DEF Inv, Crashing, Respawn
    <2>2. reader' \in R
        <3> DEFINE f == [reader EXCEPT ![g].pc = "closed"]
        <3> DEFINE Row == [pc : ReaderPcs, oid : Calls \cup {None}, todo : SUBSET Calls]
        <3>1. reader \in [Gens -> Row] /\ {"closed", "reading"} \subseteq ReaderPcs
            BY DEF Inv, Typed, TypeOK, ReaderPcs
        <3>2. \A x \in Row, q \in ReaderPcs : [x EXCEPT !.pc = q] \in Row
            OBVIOUS
        <3> HIDE DEF Row
        <3>3. f \in [Gens -> Row]
            BY <3>1, <3>2
        <3>4. reader' = [f EXCEPT ![g + 1].pc = "reading"]
            BY <1>3 DEF Respawn
        <3> HIDE DEF f
        <3>5. reader' \in [Gens -> Row]
            BY <2>1, <3>1, <3>2, <3>3, <3>4
        <3> QED
            BY <3>5 DEF Row
    <2>3. TypeOK'
        BY <1>3, <2>1, <2>2, Zenon DEF Inv, Typed, TypeOK, Respawn, ProcPcs, socks, stores
    <2>4. /\ \A h \in Gens : h \notin {g, g + 1} => reader'[h] = reader[h] /\ proc'[h] = proc[h]
          /\ reader'[g].pc = "closed" /\ reader'[g + 1].pc = "reading" /\ reader[g].pc = "respawn"
          /\ proc'[g] = proc[g] /\ proc'[g + 1] = "spawning"
          /\ gen' = g + 1
          /\ UNCHANGED <<terminated, restarts, term, running>>
        BY <1>1, <1>3, <2>1 DEF Inv, Typed, TypeOK, Respawn
    <2>5. proc[g] = "gone" /\ ~terminated /\ ~terminated'
        BY <1>1, <2>4 DEF Inv, Crashing, CrashPath
    <2>6. Typed'
        BY <2>1, <2>3, <2>4, SMTT(30) DEF Inv, Typed, Busy
    <2>7. Generations'
        <3>1. Gens \subseteq Nat /\ g \in Nat /\ Generations
            BY GensType DEF Inv
        <3>2. \A h \in Gens : h < g + 1 => h = g \/ (h < g /\ h \notin {g, g + 1})
            BY <3>1
        <3>3. \A h \in Gens : h > g + 1 => h > g /\ h \notin {g, g + 1}
            BY <3>1
        <3>4. \A h \in Gens : h < gen' => proc'[h] = "gone" /\ reader'[h].pc = "closed"
            BY <1>1, <2>4, <2>5, <3>1, <3>2 DEF Generations
        <3>5. \A h \in Gens : h > gen' => proc'[h] = "unborn" /\ reader'[h].pc = "none"
            <4> SUFFICES ASSUME NEW h \in Gens, h > g + 1
                         PROVE  proc'[h] = "unborn" /\ reader'[h].pc = "none"
                BY <2>4
            <4>1. h > gen /\ h \notin {g, g + 1}
                BY <1>1, <3>3
            <4>2. proc[h] = "unborn" /\ reader[h].pc = "none"
                BY <3>1, <4>1, SMTT(30) DEF Generations
            <4> QED
                BY <2>4, <4>1, <4>2
        <3> QED
            BY <2>4, <3>4, <3>5 DEF Generations
    <2>8. Crashing' /\ Terminating'
        BY <1>1, <2>1, <2>4, <2>5 DEF Inv, Typed, TypeOK, Crashing, CrashPath, Terminating
    <2> QED
        BY <2>6, <2>7, <2>8 DEF Inv
<1> QED
    BY <1>2, <1>3

\* terminate starts with _state_lock free, so no crash path is under way and
\* the incarnation it meets stays the last one.
LEMMA TerminateInv == ASSUME Inv, Terminate PROVE Inv'
<1>1. TypeOK'
    BY SMTT(30) DEF Inv, Typed, TypeOK, Terminate, TermPcs, procs, socks, stores
<1>2. Typed'
    BY <1>1 DEF Inv, Typed, Busy, Terminate, procs
<1>3. Generations'
    BY DEF Inv, Generations, Terminate, procs
<1>4. reader[gen].pc \notin CrashPath
    BY GensType, SMTT(30) DEF Inv, Typed, TypeOK, Crashing, Terminate
<1>5. Crashing'
    BY <1>4 DEF Inv, Crashing, Terminate, procs, CrashPath
<1>6. Terminating'
    BY DEF Inv, Terminating, Terminate
<1> QED
    BY <1>2, <1>3, <1>5, <1>6, SMTT(30) DEF Inv

\* terminate sends, shuts the socket down, joins, waits or kills, and closes.
LEMMA TermStepInv == ASSUME Inv, TermStep PROVE Inv'
<1>1. terminated /\ term.gen = gen /\ gen \in Gens
    BY DEF Inv, Typed, TypeOK, Terminating, TermStep, TermSend, TermShut, TermJoin, TermWait, TermClose
<1>2. /\ UNCHANGED <<terminated, restarts, gen, lock, reader>>
      /\ term' \in [pc : TermPcs, gen : Gens] /\ term'.gen = term.gen /\ term'.pc # "none"
    BY
       DEF Inv, Typed, TypeOK, TermPcs, TermStep, TermSend, TermShut, TermJoin, TermWait, TermClose,
           runner
<1>3. wire' \in [Gens -> Seq(Calls \cup {"shutdown"})]
    <2>1. wire \in [Gens -> Seq(Calls \cup {"shutdown"})]
        BY DEF Inv, Typed, TypeOK
    <2>2. \/ wire' = wire
          \/ wire' = [wire EXCEPT ![gen] = Append(@, "shutdown")]
          \/ wire' = [wire EXCEPT ![gen] = <<>>]
        BY <1>1, Zenon DEF TermStep, TermSend, TermShut, TermJoin, TermWait, TermClose, Die, socks
    <2>3. [wire EXCEPT ![gen] = Append(@, "shutdown")] \in [Gens -> Seq(Calls \cup {"shutdown"})]
        BY <1>1, <2>1, SeqType
    <2>4. [wire EXCEPT ![gen] = <<>>] \in [Gens -> Seq(Calls \cup {"shutdown"})]
        BY <1>1, <2>1, SeqType
    <2> QED
        BY <2>1, <2>2, <2>3, <2>4, Zenon
<1>4. /\ proc' \in [Gens -> ProcPcs] /\ running' \in [Gens -> Calls \cup {None}]
      /\ owned' \in [Gens -> SUBSET Calls]
    BY <1>1, ZenonT(30)
       DEF Inv, Typed, TypeOK, ProcPcs, TermStep, TermSend, TermShut, TermJoin, TermWait, TermClose,
                Die, procs
<1>5. TypeOK'
    BY <1>1, <1>2, <1>3, <1>4
      , Zenon DEF Inv, Typed, TypeOK, TermStep, TermSend, TermShut, TermJoin, TermWait, TermClose,
           runner, socks, stores
<1>6. /\ \A h \in Gens : h # gen => proc'[h] = proc[h]
      /\ \A h \in Gens : proc'[h] # "gone" => proc'[h] = proc[h] /\ running'[h] = running[h]
      /\ proc'[gen] \in {proc[gen], "gone"}
      /\ term'.pc \in {"close", "done"} => proc'[gen] = "gone"
    <2>1. proc \in [Gens -> ProcPcs] /\ running \in [Gens -> Calls \cup {None}]
        BY DEF Inv, Typed, TypeOK
    <2>2. CASE TermWait
        <3>1. \/ proc[gen] = "gone" /\ proc' = proc /\ running' = running
              \/ proc' = [proc EXCEPT ![gen] = "gone"] /\ running' = [running EXCEPT ![gen] = None]
            BY <1>1, <2>2 DEF TermWait, Die, procs
        <3> QED
            BY <1>1, <2>1, <3>1
    <2>3. CASE TermSend \/ TermShut \/ TermJoin \/ TermClose
        <3>1. proc' = proc /\ running' = running
            BY <2>3 DEF TermSend, TermShut, TermJoin, TermClose, procs
        <3>2. term'.pc \in {"close", "done"} => term.pc = "close"
            BY <2>3 DEF Inv, Typed, TypeOK, TermSend, TermShut, TermJoin, TermClose
        <3> QED
            BY <3>1, <3>2 DEF Inv, Terminating
    <2> QED
        BY <2>2, <2>3 DEF TermStep
<1>7. Typed'
    BY <1>2, <1>5, <1>6 DEF Inv, Typed, Busy
<1>8. Generations'
    BY <1>2, <1>6, OthersStay, SMTT(30) DEF Inv, Generations
<1>9. Crashing' /\ Terminating'
    BY <1>1, <1>2, <1>6 DEF Inv, Crashing, CrashPath, Terminating
<1> QED
    BY <1>7, <1>8, <1>9 DEF Inv

\* Every step keeps the invariant.
LEMMA NextInv == Inv /\ [Next]_vars => Inv'
<1> SUFFICES ASSUME Inv, [Next]_vars PROVE Inv'
    BY SMTT(30)
<1>1. CASE UNCHANGED vars
    BY <1>1, Frame, ZenonT(30) DEF Inv, Typed, TypeOK, Busy, vars, runner, procs, socks, stores
<1>2. ASSUME NEW c \in Calls, DispatchCall(c) \/ SendCall(c) PROVE Inv'
    BY <1>2, CallInv
<1>3. ASSUME NEW g \in Gens, ActorStep(g) \/ Crash(g) PROVE Inv'
    BY <1>3, ActorInv
<1>4. ASSUME NEW g \in Gens, ReaderStep(g) PROVE Inv'
    BY <1>4, ReaderReplyInv, ReaderCrashInv, ReaderDecideInv DEF ReaderStep
<1>5. CASE Terminate
    BY <1>5, TerminateInv
<1>6. CASE TermStep
    BY <1>6, TermStepInv
<1> QED
    BY <1>1, <1>2, <1>3, <1>4, <1>5, <1>6 DEF Next

-----------------------------------------------------------------------------
\* Type correctness: in particular _restarts never exceeds max_restarts and no
\* incarnation beyond the budget is spawned.
THEOREM TypeCorrect == Spec => []TypeOK
<1>1. Inv => TypeOK
    BY DEF Inv, Typed
<1> QED
    BY InitInv, NextInv, <1>1, PTL DEF Spec

\* An actor never has two processes, and has none once terminate has returned:
\* the respawn of a crashed actor and a terminate exclude each other.
THEOREM NeverTwoProcesses == Spec => []OneProcess
<1>1. Inv => OneProcess
    <2> SUFFICES ASSUME Inv PROVE OneProcess
        OBVIOUS
    <2>1. \A g \in Gens : g = gen \/ g < gen \/ g > gen
        BY GensType DEF Inv, Typed, TypeOK
    <2>2. \A g \in Gens : proc[g] \notin {"unborn", "gone"} => g = gen
        BY <2>1 DEF Inv, Generations
    <2>3. term.pc = "done" => proc[gen] = "gone"
        BY DEF Inv, Terminating
    <2> QED
        BY <2>2, <2>3 DEF OneProcess
<1> QED
    BY InitInv, NextInv, <1>1, PTL DEF Spec

-----------------------------------------------------------------------------
\* A result object that is in the shared store.
Stored == {c \in Calls : plasma[c] # "absent"}

\* Until terminate is called, incarnation g reports and records only stored
\* results, is sent calls only, and owns nothing when it comes to evict: then
\* it can end only by failing to spawn.
Keeps(g) ==
    /\ reader[g].pc = "record" => reader[g].oid \in Stored
    /\ proc[g] = "sealed" => running[g] \in Stored
    /\ replies[g] \in Seq(Stored)
    /\ wire[g] \in Seq(Calls) /\ ~shut[g]
    /\ proc[g] \in {"unborn", "spawning", "exit", "evict"} => owned[g] = {}

Results == ~terminated => index \subseteq Stored /\ \A g \in Gens : Keeps(g)

\* A sequence over a set is one over a larger set.
LEMMA SeqGrows == ASSUME NEW S, NEW T, S \subseteq T, NEW s \in Seq(S) PROVE s \in Seq(T)
<1>1. s \in [1 .. Len(s) -> S] /\ Len(s) \in Nat
    OBVIOUS
<1>2. s \in [1 .. Len(s) -> T]
    BY <1>1
<1> QED
    BY <1>1, <1>2

\* An incarnation that a step leaves alone keeps what it keeps while nothing
\* leaves the store.
LEMMA KeepsOn ==
    ASSUME NEW g \in Gens, Keeps(g), Stored \subseteq Stored',
           UNCHANGED <<proc[g], running[g], reader[g], replies[g], wire[g], shut[g], owned[g]>>
    PROVE  Keeps(g)'
<1>1. replies[g] \in Seq(Stored')
    BY SeqGrows, Zenon DEF Keeps
<1> QED
    BY <1>1, Zenon DEF Keeps

\* At first there are no results.
LEMMA InitResults == Init => Results
<1> SUFFICES ASSUME Init PROVE Results
    OBVIOUS
<1>1. ASSUME NEW g \in Gens PROVE Keeps(g)
    <2>1. /\ reader[g].pc # "record" /\ proc[g] # "sealed" /\ ~shut[g] /\ owned[g] = {}
          /\ replies[g] = <<>> /\ wire[g] = <<>>
        BY Zenon DEF Init
    <2> QED
        BY <2>1 DEF Keeps
<1> QED
    BY <1>1, Zenon DEF Init, Results

\* A step of one incarnation and its reader, or of a caller: the rest of the
\* invariant follows.
LEMMA OneKeeps ==
    ASSUME Results, ~terminated, NEW g \in Gens, Keeps(g)',
           Stored \subseteq Stored', index' \subseteq Stored',
           \A h \in Gens : h # g => UNCHANGED <<proc[h], running[h], reader[h], replies[h],
                                                wire[h], shut[h], owned[h]>>
    PROVE  Results'
<1>1. ASSUME NEW h \in Gens PROVE Keeps(h)'
    <2>1. CASE h = g
        BY <2>1, Zenon
    <2>2. CASE h # g
        BY <2>2, KeepsOn DEF Results
    <2> QED
        BY <2>1, <2>2
<1> QED
    BY <1>1, Zenon DEF Results

\* The calling threads send calls only.
LEMMA CallKeeps ==
    ASSUME Inv, Results, ~terminated, NEW c \in Calls, DispatchCall(c) \/ SendCall(c)
    PROVE  Results'
<1>1. plasma' = plasma /\ index' = index /\ Stored' = Stored
    BY Zenon DEF DispatchCall, SendCall, stores, Stored
<1>2. UNCHANGED <<proc, running, reader, replies, shut, owned>>
    BY Zenon DEF DispatchCall, SendCall, procs, socks
<1>3. PICK g \in Gens : wire' = wire \/ wire' = [wire EXCEPT ![g] = Append(@, c)]
    <2>1. call[c].gen \in Gens
        BY DEF Inv, Typed, TypeOK
    <2>2. wire' = wire \/ wire' = [wire EXCEPT ![call[c].gen] = Append(@, c)]
        BY Zenon DEF DispatchCall, SendCall, socks
    <2> QED
        BY <2>1, <2>2
<1>4. Keeps(g)
    BY DEF Results
<1>5. wire'[g] \in Seq(Calls)
    <2>1. wire[g] \in Seq(Calls) /\ Append(wire[g], c) \in Seq(Calls)
        BY <1>4 DEF Keeps
    <2>2. wire'[g] = wire[g] \/ wire'[g] = Append(wire[g], c)
        BY <1>3 DEF Inv, Typed, TypeOK
    <2> QED
        BY <2>1, <2>2, Zenon
<1>6. Keeps(g)'
    BY <1>1, <1>2, <1>4, <1>5 DEF Keeps
<1>7. \A h \in Gens : h # g => wire'[h] = wire[h]
    BY <1>3 DEF Inv, Typed, TypeOK
<1> QED
    BY <1>1, <1>2, <1>6, <1>7, OneKeeps DEF Results

\* The actor process seals before it reports, and has nothing to evict unless
\* it was told to end.
LEMMA ActorKeeps ==
    ASSUME Inv, Results, ~terminated, NEW g \in Gens, ActorStep(g) \/ Crash(g)
    PROVE  Results'
<1>1. Keeps(g) /\ index \subseteq Stored
    BY Zenon DEF Results
<1>2. UNCHANGED <<reader, shut, index>>
    BY
       DEF ActorStep, ActorSpawn, ActorSpawnRaises, ActorRecv, ActorSeal, ActorReply, ActorExit,
           ActorEvict, Crash,
           socks, stores
<1>3. \A h \in Gens : h # g => UNCHANGED <<proc[h], running[h], replies[h], wire[h], owned[h]>>
    <2>1. CASE ActorSpawn(g) \/ ActorSpawnRaises(g)
        BY <2>1 DEF Inv, Typed, TypeOK, ActorSpawn, ActorSpawnRaises, socks
    <2>2. CASE ActorRecv(g)
        BY <2>2 DEF Inv, Typed, TypeOK, ActorRecv
    <2>3. CASE ActorSeal(g)
        BY <2>3 DEF Inv, Typed, TypeOK, ActorSeal, socks
    <2>4. CASE ActorReply(g)
        BY <2>4 DEF Inv, Typed, TypeOK, ActorReply
    <2>5. CASE ActorExit(g)
        BY <2>5 DEF Inv, Typed, TypeOK, ActorExit
    <2>6. CASE ActorEvict(g)
        BY <2>6 DEF Inv, Typed, TypeOK, ActorEvict, socks
    <2>7. CASE Crash(g)
        BY <2>7 DEF Inv, Typed, TypeOK, Crash, Die
    <2> QED
        BY <2>1, <2>2, <2>3, <2>4, <2>5, <2>6, <2>7 DEF ActorStep
<1>4. SUFFICES Stored \subseteq Stored' /\ Keeps(g)'
    BY <1>1, <1>2, <1>3, OneKeeps
<1>5. CASE ActorSpawn(g)
    <2>1. proc'[g] = "ready" /\ UNCHANGED <<running, owned, wire, replies, plasma>>
        BY <1>5 DEF ActorSpawn, Inv, Typed, TypeOK, socks, stores
    <2> QED
        BY <1>1, <1>2, <2>1 DEF Keeps, Stored
<1>6. CASE ActorSpawnRaises(g)
    <2>1. proc[g] = "spawning" /\ proc'[g] = "exit" /\ UNCHANGED <<running, owned, wire, replies, plasma>>
        BY <1>6 DEF ActorSpawnRaises, Inv, Typed, TypeOK, socks, stores
    <2> QED
        BY <1>1, <1>2, <2>1 DEF Keeps, Stored
<1>7. CASE ActorRecv(g)
    <2>1. UNCHANGED <<owned, replies, plasma>>
        BY <1>7 DEF ActorRecv, stores
    <2>2. /\ wire[g] \in Seq(Calls) /\ ~shut[g]
          /\ wire[g] # <<>> => Head(wire[g]) \in Calls /\ Tail(wire[g]) \in Seq(Calls)
        BY <1>1 DEF Keeps
    <2>3. wire[g] # <<>> /\ wire' = [wire EXCEPT ![g] = Tail(@)] /\ proc' = [proc EXCEPT ![g] = "method"]
        BY <1>7, <2>2, ActorAssumption DEF ActorRecv
    <2>4. wire'[g] \in Seq(Calls) /\ proc'[g] = "method"
        BY <2>2, <2>3 DEF Inv, Typed, TypeOK
    <2> QED
        BY <1>1, <1>2, <2>1, <2>4 DEF Keeps, Stored
<1>8. CASE ActorSeal(g)
    <2>1. UNCHANGED <<replies, wire, running>> /\ running[g] \in Calls
        BY <1>8 DEF ActorSeal, socks, Inv, Typed, Busy
    <2>2. proc'[g] = "sealed" /\ plasma' = [plasma EXCEPT ![running[g]] = "value"]
        BY <1>8 DEF ActorSeal, Inv, Typed, TypeOK
    <2>3. Stored \subseteq Stored' /\ running[g] \in Stored'
        BY <2>1, <2>2 DEF Inv, Typed, TypeOK, Stored
    <2>4. replies[g] \in Seq(Stored')
        BY <1>1, <2>3, SeqGrows DEF Keeps
    <2> QED
        BY <1>1, <1>2, <2>1, <2>2, <2>3, <2>4 DEF Keeps
<1>9. CASE ActorReply(g)
    <2>1. UNCHANGED <<wire, owned, plasma>> /\ Stored' = Stored /\ proc[g] = "sealed"
        BY <1>9 DEF ActorReply, stores, Stored
    <2>2. proc'[g] = "ready" /\ replies'[g] = Append(replies[g], running[g])
        BY <1>9 DEF ActorReply, Inv, Typed, TypeOK
    <2>3. replies'[g] \in Seq(Stored)
        BY <1>1, <2>1, <2>2 DEF Keeps
    <2> QED
        BY <1>1, <1>2, <2>1, <2>2, <2>3 DEF Keeps
<1>10. CASE ActorExit(g)
    <2>1. UNCHANGED <<running, replies, owned, plasma>> /\ Stored' = Stored /\ proc[g] = "exit"
        BY <1>10 DEF ActorExit, stores, Stored
    <2>2. proc'[g] = "evict" /\ wire'[g] = <<>>
        BY <1>10 DEF ActorExit, Inv, Typed, TypeOK
    <2>3. wire'[g] \in Seq(Calls)
        BY <2>2
    <2> QED
        BY <1>1, <1>2, <2>1, <2>2, <2>3 DEF Keeps
<1>11. CASE ActorEvict(g)
    <2>1. owned[g] = {} /\ plasma \in [Calls -> {"absent", "value", "error"}]
        BY <1>1, <1>11 DEF ActorEvict, Keeps, Inv, Typed, TypeOK
    <2>2. plasma' = plasma /\ Stored' = Stored
        BY <1>11, <2>1 DEF ActorEvict, Stored
    <2>3. proc'[g] = "gone" /\ UNCHANGED <<running, replies, wire>>
        BY <1>11 DEF ActorEvict, Inv, Typed, TypeOK, socks
    <2> QED
        BY <1>1, <1>2, <2>2, <2>3 DEF Keeps
<1>12. CASE Crash(g)
    <2>1. UNCHANGED <<replies, plasma>> /\ Stored' = Stored
        BY <1>12 DEF Crash, stores, Stored
    <2>2. proc'[g] = "gone" /\ wire'[g] = <<>>
        BY <1>12 DEF Crash, Die, Inv, Typed, TypeOK
    <2>3. wire'[g] \in Seq(Calls)
        BY <2>2
    <2> QED
        BY <1>1, <1>2, <2>1, <2>2, <2>3 DEF Keeps
<1> QED
    BY <1>5, <1>6, <1>7, <1>8, <1>9, <1>10, <1>11, <1>12 DEF ActorStep

\* The reader records what was reported, and what it seals is stored.
LEMMA ReaderKeeps ==
    ASSUME Inv, Results, ~terminated, NEW g \in Gens, ReaderStep(g)
    PROVE  Results'
<1>1. Keeps(g) /\ index \subseteq Stored
    BY DEF Results
<1>2. UNCHANGED shut
    BY Zenon
       DEF ReaderStep, ReaderRecv, ReaderRecord, ReaderEof, ReaderSeal, ReaderReap, ReaderDecide,
           Respawn,
                 RespawnFails, socks
<1>3. CASE ReaderRecv(g)
    <2>1. UNCHANGED <<proc, running, owned, wire, plasma, index>> /\ Stored' = Stored
        BY <1>3, Zenon DEF ReaderRecv, procs, stores, Stored
    <2>2. replies[g] \in Seq(Stored) /\ replies[g] # <<>>
        BY <1>1, <1>3, Zenon DEF ReaderRecv, Keeps
    <2>3. Head(replies[g]) \in Stored /\ Tail(replies[g]) \in Seq(Stored)
        BY <2>2
    <2>4. replies'[g] = Tail(replies[g]) /\ reader'[g].oid = Head(replies[g])
        BY <1>3 DEF ReaderRecv, Inv, Typed, TypeOK
    <2>5. Keeps(g)'
        BY <1>1, <1>2, <2>1, <2>3, <2>4, Zenon DEF Keeps
    <2>6. \A h \in Gens : h # g => UNCHANGED <<reader[h], replies[h]>>
        BY <1>3 DEF ReaderRecv, Inv, Typed, TypeOK
    <2> QED
        BY <1>1, <1>2, <2>1, <2>5, <2>6, OneKeeps
<1>4. CASE ReaderRecord(g)
    <2>1. UNCHANGED <<proc, running, owned, wire, replies, plasma>> /\ Stored' = Stored
        BY <1>4, Zenon DEF ReaderRecord, procs, socks, Stored
    <2>2. index' \subseteq Stored
        BY <1>1, <1>4, Zenon DEF ReaderRecord, Keeps
    <2>3. reader'[g].pc = "reading" /\ \A h \in Gens : h # g => reader'[h] = reader[h]
        BY <1>4 DEF ReaderRecord, Inv, Typed, TypeOK
    <2>4. Keeps(g)'
        BY <1>1, <1>2, <2>1, <2>3, Zenon DEF Keeps
    <2> QED
        BY <1>2, <2>1, <2>2, <2>3, <2>4, OneKeeps
<1>5. CASE ReaderEof(g)
    <2>1. UNCHANGED <<proc, running, owned, wire, replies, plasma, index>> /\ Stored' = Stored
        BY <1>5, Zenon DEF ReaderEof, procs, socks, stores, Stored
    <2>2. reader'[g].pc = "seal" /\ \A h \in Gens : h # g => reader'[h] = reader[h]
        BY <1>5 DEF ReaderEof, Inv, Typed, TypeOK
    <2>3. Keeps(g)'
        BY <1>1, <1>2, <2>1, <2>2 DEF Keeps
    <2> QED
        BY <1>1, <1>2, <2>1, <2>2, <2>3, OneKeeps
<1>6. CASE ReaderSeal(g)
    <2>1. UNCHANGED <<proc, running, owned, wire, replies>>
        BY <1>6, Zenon DEF ReaderSeal, procs, socks
    <2>2. PICK c \in reader[g].todo :
            IF plasma[c] = "absent"
            THEN /\ plasma' = [plasma EXCEPT ![c] = "error"] /\ index' = index \cup {c}
                 /\ reader' = [reader EXCEPT ![g].todo = @ \ {c}]
            ELSE /\ reader' = [reader EXCEPT ![g].pc = "closed", ![g].todo = {}]
                 /\ UNCHANGED stores
        BY <1>6, Zenon DEF ReaderSeal
    <2>3. c \in Calls
        BY Zenon DEF Inv, Typed, TypeOK
    <2>4. Stored \subseteq Stored' /\ index' \subseteq Stored'
        <3>1. CASE plasma[c] = "absent"
            <4>1. plasma' = [plasma EXCEPT ![c] = "error"] /\ index' = index \cup {c}
                BY <2>2, <3>1
            <4>2. plasma'[c] = "error" /\ \A d \in Calls : d # c => plasma'[d] = plasma[d]
                BY <2>3, <4>1 DEF Inv, Typed, TypeOK
            <4> QED
                BY <1>1, <2>3, <4>1, <4>2 DEF Stored
        <3>2. CASE plasma[c] # "absent"
            BY <1>1, <2>2, <3>2 DEF Stored, stores
        <3> QED
            BY <3>1, <3>2
    <2>5. reader'[g].pc # "record" /\ \A h \in Gens : h # g => reader'[h] = reader[h]
        <3>1. \/ reader' = [reader EXCEPT ![g].todo = @ \ {c}]
              \/ reader' = [reader EXCEPT ![g].pc = "closed", ![g].todo = {}]
            BY <2>2
        <3>2. reader[g].pc = "seal"
            BY <1>6 DEF ReaderSeal
        <3>3. reader \in [Gens -> [pc : ReaderPcs, oid : Calls \cup {None}, todo : SUBSET Calls]]
            BY DEF Inv, Typed, TypeOK
        <3> QED
            BY <3>1, <3>2, <3>3
    <2>6. replies[g] \in Seq(Stored')
        BY <1>1, <2>4, SeqGrows DEF Keeps
    <2>7. proc[g] = "sealed" => running[g] \in Stored'
        BY <1>1, <2>4 DEF Keeps
    <2>8. Keeps(g)'
        BY <1>1, <1>2, <2>1, <2>5, <2>6, <2>7 DEF Keeps
    <2> QED
        BY <1>2, <2>1, <2>4, <2>5, <2>8, OneKeeps
<1>7. CASE ReaderReap(g)
    <2>1. UNCHANGED <<replies, plasma, index>> /\ Stored' = Stored
        BY <1>7 DEF ReaderReap, stores, Stored
    <2>2. /\ reader'[g].pc = "reap" /\ proc'[g] = "gone" /\ (wire'[g] = <<>> \/ wire'[g] = wire[g])
          /\ \A h \in Gens : h # g => UNCHANGED <<proc[h], running[h], reader[h], wire[h], owned[h]>>
        BY <1>7 DEF ReaderReap, Die, procs, Inv, Typed, TypeOK
    <2>3. wire'[g] \in Seq(Calls)
        <3>1. wire[g] \in Seq(Calls) /\ <<>> \in Seq(Calls)
            BY <1>1 DEF Keeps
        <3> QED
            BY <2>2, <3>1, Zenon
    <2>4. Keeps(g)'
        BY <1>1, <1>2, <2>1, <2>2, <2>3 DEF Keeps
    <2> QED
        BY <1>1, <1>2, <2>1, <2>2, <2>4, OneKeeps
<1>8. CASE ReaderDecide(g) \/ RespawnFails(g)
    <2>1. UNCHANGED <<proc, running, owned, wire, replies, plasma, index>> /\ Stored' = Stored
        BY <1>8 DEF ReaderDecide, RespawnFails, procs, socks, stores, Stored
    <2>2. reader'[g].pc \in {"closed", "respawn"} /\ \A h \in Gens : h # g => reader'[h] = reader[h]
        <3>1. reader' = [reader EXCEPT ![g].pc = "closed"] \/ reader' = [reader EXCEPT ![g].pc = "respawn"]
            BY <1>8 DEF ReaderDecide, RespawnFails
        <3>2. reader \in [Gens -> [pc : ReaderPcs, oid : Calls \cup {None}, todo : SUBSET Calls]]
            BY DEF Inv, Typed, TypeOK
        <3> QED
            BY <3>1, <3>2
    <2>3. Keeps(g)'
        BY <1>1, <1>2, <2>1, <2>2 DEF Keeps
    <2> QED
        BY <1>1, <1>2, <2>1, <2>2, <2>3, OneKeeps
<1>9. CASE Respawn(g)
    <2>1. UNCHANGED <<running, owned, wire, replies, plasma, index>> /\ Stored' = Stored
        BY <1>9 DEF Respawn, procs, socks, stores, Stored
    <2>2. ASSUME NEW h \in Gens PROVE Keeps(h)'
        <3>1. Keeps(h)
            BY DEF Results
        <3>2. proc'[h] = proc[h] \/ (h = g + 1 /\ proc'[h] = "spawning")
            BY <1>9 DEF Respawn, Inv, Typed, TypeOK
        <3>3. /\ reader'[h].pc = "record" => reader[h].pc = "record"
              /\ reader'[h].oid = reader[h].oid
            <4>1. reader' = [reader EXCEPT ![g].pc = "closed", ![g + 1].pc = "reading"]
                BY <1>9 DEF Respawn
            <4>2. reader \in [Gens -> [pc : ReaderPcs, oid : Calls \cup {None}, todo : SUBSET Calls]]
                BY DEF Inv, Typed, TypeOK
            <4> DEFINE mid == [reader EXCEPT ![g].pc = "closed"]
            <4>3. /\ mid \in [Gens -> [pc : ReaderPcs, oid : Calls \cup {None}, todo : SUBSET Calls]]
                  /\ mid[h].oid = reader[h].oid /\ (mid[h].pc = "record" => reader[h].pc = "record")
                BY <4>2 DEF ReaderPcs
            <4>4. reader' = [mid EXCEPT ![g + 1].pc = "reading"]
                BY <4>1
            <4> HIDE DEF mid
            <4> QED
                BY <4>3, <4>4
        <3>4. h = g + 1 => owned[h] = {}
            <4>1. g = gen
                BY <1>9, ReaderIsPresent DEF Respawn
            <4>2. h = g + 1 => h > gen
                BY <4>1, GensType
            <4>3. h = g + 1 => proc[h] = "unborn"
                BY <4>2 DEF Inv, Generations
            <4> QED
                BY <3>1, <4>3 DEF Keeps
        <3> QED
            BY <1>2, <2>1, <3>1, <3>2, <3>3, <3>4 DEF Keeps
    <2> QED
        BY <1>1, <2>1, <2>2 DEF Results
<1> QED
    BY <1>3, <1>4, <1>5, <1>6, <1>7, <1>8, <1>9 DEF ReaderStep

\* Nothing is claimed once terminate is called; until then every step keeps
\* the results.
LEMMA NextResults == Inv /\ Results /\ [Next]_vars => Results'
<1> SUFFICES ASSUME Inv, Results, [Next]_vars PROVE Results'
    BY Zenon
<1>1. CASE terminated
    <2>1. ASSUME NEW c \in Calls, DispatchCall(c) \/ SendCall(c) PROVE terminated' = terminated
        BY <2>1, Zenon DEF DispatchCall, SendCall, runner
    <2>2. ASSUME NEW g \in Gens, ActorStep(g) \/ Crash(g) PROVE terminated' = terminated
        BY <2>2, Zenon
           DEF ActorStep, ActorSpawn, ActorSpawnRaises, ActorRecv, ActorSeal, ActorReply, ActorExit,
                           ActorEvict, Crash, runner
    <2>3. ASSUME NEW g \in Gens, ReaderStep(g) PROVE terminated' = terminated
        BY <2>3, Zenon
           DEF ReaderStep, ReaderRecv, ReaderRecord, ReaderEof, ReaderSeal, ReaderReap, ReaderDecide,
                           Respawn, RespawnFails, runner
    <2>4. ASSUME TermStep PROVE terminated' = terminated
        BY <2>4, Zenon DEF TermStep, TermSend, TermShut, TermJoin, TermWait, TermClose, runner
    <2>5. terminated'
        BY <1>1, <2>1, <2>2, <2>3, <2>4, Zenon DEF Next, Terminate, vars, runner
    <2> QED
        BY <2>5 DEF Results
<1>2. CASE ~terminated /\ UNCHANGED vars
    <2>1. UNCHANGED <<proc, running, reader, replies, wire, shut, owned, plasma, index>> /\ Stored' = Stored
        BY <1>2, Zenon DEF vars, procs, socks, stores, Stored
    <2> QED
        BY <1>2, <2>1, KeepsOn, Zenon DEF Results
<1>3. CASE ~terminated /\ Terminate
    BY <1>3, Zenon DEF Terminate, Results
<1>4. CASE ~terminated /\ TermStep
    BY <1>4, Zenon DEF Inv, Terminating, TermStep, TermSend, TermShut, TermJoin, TermWait, TermClose
<1> QED
    BY <1>1, <1>2, <1>3, <1>4, CallKeeps, ActorKeeps, ReaderKeeps, Zenon DEF Next

\* Until terminate is called, a result the driver's store has stays in the
\* shared store, through crashes and respawns: a process that fails to spawn
\* evicts, but it owns nothing yet.
THEOREM ResultsStay == Spec => []ResultKept
<1>1. Results => ResultKept
    BY DEF Results, ResultKept, Stored
<1> QED
    BY InitInv, NextInv, InitResults, NextResults, <1>1, PTL DEF Spec
=============================================================================
