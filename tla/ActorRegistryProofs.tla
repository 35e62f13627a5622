------------------------ MODULE ActorRegistryProofs -------------------------
(***************************************************************************)
(* Proofs about ActorRegistry for any number of drivers, names, actors,    *)
(* ports and faults: a name stays with the actor that registered it until  *)
(* that actor gives it up, every actor reaches the point where it does,    *)
(* and a remote caller is told the truth.                                  *)
(***************************************************************************)
EXTENDS ActorRegistry, TLAPS

\* An id in circulation belongs to an actor that was constructed, and one that
\* was constructed has an owner.
Born(i) == i # None => actor[i].at # "none"

Births ==
    /\ \A n \in Names : Born(gcs[n].id)
    /\ \A d \in Drivers : Born(handle[d].id) /\ Born(call[d].info.id)
    /\ \A a \in Actors : actor[a].at # "none" => actor[a].owner \in Drivers

\* Why the listener did not find the actor.
NotThere(d) ==
    LET a == call[d].info.id IN
    /\ a # None
    /\ \/ actor[a].at = "gone"
       \/ ~Alive(actor[a].owner)
       \/ call[d].server # actor[a].owner

\* What a call knows of the subprocess, from the dialling on.
Told(d) ==
    /\ call[d].step \in {"idle", "lookup", "sent", "found"} => ~call[d].ran
    /\ call[d].step \in {"sent", "found"} => call[d].server \in Drivers /\ call[d].info.id # None
    /\ call[d].step \in {"replied", "done"} =>
          /\ call[d].reply = "ack" => call[d].ran
          /\ call[d].reply \in {"unknown", "reject"} => ~call[d].ran
          /\ call[d].reply = "unknown" => NotThere(d)

Inv == TypeOK /\ NamesHeld /\ NameKept /\ Births /\ \A d \in Drivers : Told(d)

-----------------------------------------------------------------------------
(* Records.                                                                *)

\* Entries of the name table, and the record of an actor nobody constructed.
LEMMA InfoType ==
    /\ NoInfo \in Handles /\ NoInfo.id = None /\ NoInfo.port = None
    /\ \A i \in Info : i # NoInfo /\ i.id \in Actors /\ i.id # None
    /\ \A a \in Actors, p \in Ports \cup {None} :
          /\ [id |-> a, port |-> p] \in Info
          /\ [id |-> a, port |-> p].id = a
    /\ \A i \in Info \cup {NoInfo} : i.port # None => i \in Handles
    /\ Handles \subseteq Info \cup {NoInfo}
BY RegistryAssumption DEF Info, NoInfo, Handles

\* A call that is not under way.
LEMMA CallType ==
    /\ NoCall \in CallRec /\ NoCall.step = "idle" /\ ~NoCall.ran /\ NoCall.info = NoInfo
BY InfoType DEF NoCall, CallRec

\* Before any driver opens a session the table is empty and nobody calls.
LEMMA InitInv == Init => Inv
<1> SUFFICES ASSUME Init PROVE Inv
    OBVIOUS
<1>1. TypeOK
    BY RegistryAssumption, InfoType, CallType DEF Init, TypeOK, Unborn, ActorRec, Stages
<1>2. NamesHeld
    BY DEF Init, NamesHeld
<1>3. NameKept
    BY DEF Init, NameKept
<1>4. Births
    BY InfoType, CallType DEF Init, Births, Born, Unborn
<1>5. ASSUME NEW d \in Drivers PROVE Told(d)
    BY CallType DEF Init, Told
<1> QED
    BY <1>1, <1>2, <1>3, <1>4, <1>5 DEF Inv

-----------------------------------------------------------------------------
(* The steps of a driver leave the name table and the actors alone.        *)

\* A step that touches one call, and handles at most.
LEMMA CallFrame ==
    ASSUME Inv, NEW d \in Drivers, NEW c \in CallRec, call' = [call EXCEPT ![d] = c],
           handle' = handle \/ handle' = [handle EXCEPT ![d] = call[d].info],
           handle' \in [Drivers -> Handles],
           Born(c.info.id), Told(d)', UNCHANGED <<gcs, actor, driver, loose, kept, faults>>
    PROVE  Inv'
<1>1. TypeOK'
    BY Zenon DEF Inv, TypeOK
<1>2. NamesHeld' /\ NameKept'
    BY DEF Inv, NamesHeld, NameKept
<1>3. Births'
    <2>1. \A e \in Drivers : call'[e].info = call[e].info \/ (e = d /\ call'[e].info = c.info)
        BY DEF Inv, TypeOK
    <2>2. \A e \in Drivers : handle'[e] = handle[e] \/ (e = d /\ handle'[e] = call[e].info)
        BY Zenon DEF Inv, TypeOK
    <2> QED
        BY <2>1, <2>2 DEF Inv, Births, Born
<1>4. ASSUME NEW e \in Drivers PROVE Told(e)'
    BY <1>4, Zenon DEF Inv, TypeOK, Told, NotThere, Alive
<1> QED
    BY <1>1, <1>2, <1>3, <1>4 DEF Inv

\* Looking a name up, and what is made of the answer.
LEMMA LookupInv == ASSUME NEW d \in Drivers, Inv, (\E n \in Names : Lookup(d, n)) \/ GotActor(d)
                   PROVE  Inv'
<1>1. ASSUME NEW n \in Names, Lookup(d, n) PROVE Inv'
    <2> DEFINE c == [NoCall EXCEPT !.step = "lookup", !.info = gcs[n]]
    <2>1. /\ c \in CallRec /\ c.info = gcs[n] /\ c.step = "lookup" /\ ~c.ran
          /\ call' = [call EXCEPT ![d] = c] /\ handle' = handle
          /\ UNCHANGED <<gcs, actor, driver, loose, kept, faults>>
        BY <1>1, Zenon DEF Lookup, SetCall, Inv, TypeOK, NoCall, CallRec
    <2>2. Born(c.info.id) /\ Told(d)'
        BY <2>1 DEF Inv, TypeOK, Births, Told
    <2> HIDE DEF c
    <2> QED
        BY <2>1, <2>2, CallFrame, Zenon DEF Inv, TypeOK
<1>2. CASE GotActor(d)
    <2>1. /\ NoCall \in CallRec /\ call' = [call EXCEPT ![d] = NoCall]
          /\ handle' = handle \/ (call[d].info.port # None /\ handle' = [handle EXCEPT ![d] = call[d].info])
          /\ UNCHANGED <<gcs, actor, driver, loose, kept, faults>>
        BY <1>2, CallType DEF GotActor, SetCall
    <2>2. call[d].info \in Info \cup {NoInfo}
        BY DEF Inv, TypeOK, CallRec
    <2>3. handle' \in [Drivers -> Handles]
        BY <2>1, <2>2, InfoType DEF Inv, TypeOK
    <2>4. Born(NoCall.info.id) /\ Told(d)'
        BY <2>1, InfoType, CallType DEF Inv, TypeOK, Born, Told
    <2> QED
        BY <2>1, <2>3, <2>4, CallFrame, Zenon
<1> QED
    BY <1>1, <1>2

\* What a caller is told rests on the calls, the actors and the drivers alone.
LEMMA ToldKept == ASSUME NEW e \in Drivers, Told(e), UNCHANGED <<actor, driver, call>> PROVE Told(e)'
BY Zenon DEF Told, NotThere, Alive

\* An unpickled handle is one of a constructed actor.
LEMMA RebuildInv == ASSUME NEW d \in Drivers, NEW a \in Actors, Inv, Rebuild(d, a) PROVE Inv'
<1> DEFINE h == [id |-> a, port |-> driver[actor[a].owner].port]
<1>1. /\ actor[a].at # "none" /\ handle' = [handle EXCEPT ![d] = h] /\ driver[actor[a].owner].port # None
      /\ UNCHANGED <<gcs, actor, driver, call, loose, kept, faults>>
    BY DEF Rebuild
<1>2. h \in Handles
    <2>1. actor[a].owner \in Drivers
        BY <1>1 DEF Inv, Births
    <2>2. driver[actor[a].owner].port \in Ports
        BY <1>1, <2>1 DEF Inv, TypeOK, Rebuild
    <2> QED
        BY <2>2 DEF Handles
<1>3. h.id = a
    OBVIOUS
<1> HIDE DEF h
<1>4. TypeOK'
    BY <1>1, <1>2, SMTT(30) DEF Inv, TypeOK
<1>5. NamesHeld' /\ NameKept' /\ \A e \in Drivers : Told(e)'
    BY <1>1, ToldKept DEF Inv, NamesHeld, NameKept
<1>6. Births'
    BY <1>1, <1>2, <1>3 DEF Inv, TypeOK, Births, Born
<1> QED
    BY <1>4, <1>5, <1>6 DEF Inv

\* A call that moves on without its info: a step of a call that was dialled.
LEMMA CallStep ==
    ASSUME Inv, NEW d \in Drivers, NEW c \in CallRec, call' = [call EXCEPT ![d] = c],
           c.info = call[d].info \/ c.info = handle[d] \/ c.info = NoInfo, Told(d)',
           UNCHANGED <<gcs, actor, driver, handle, loose, kept, faults>>
    PROVE  Inv'
<1>1. Born(c.info.id)
    BY InfoType DEF Inv, Births, Born
<1> QED
    BY <1>1, CallFrame, ZenonT(30) DEF Inv, TypeOK

\* A call that is dialled has run nothing yet; a refused one never will.
LEMMA DialInv == ASSUME NEW d \in Drivers, Inv, Dial(d) PROVE Inv'
<1> DEFINE open == [NoCall EXCEPT !.info = handle[d], !.waiting = TRUE]
           refused == [open EXCEPT !.step = "replied", !.reply = "oserror"]
           sent(e) == [open EXCEPT !.step = "sent", !.server = e]
<1>1. handle[d] \in Info
    BY InfoType, ZenonT(30) DEF Dial, Inv, TypeOK
<1>2. CASE call' = [call EXCEPT ![d] = refused]
    <2>1. /\ refused \in CallRec /\ refused.info = handle[d] /\ refused.step = "replied"
          /\ refused.reply = "oserror"
        BY <1>1, Zenon DEF NoCall, CallRec
    <2> HIDE DEF refused
    <2>2. Told(d)'
        BY <1>2, <2>1 DEF Inv, TypeOK, Told
    <2> QED
        BY <1>2, <2>1, <2>2, CallStep, Zenon DEF Dial
<1>3. ASSUME NEW e \in Drivers, call' = [call EXCEPT ![d] = sent(e)] PROVE Inv'
    <2>1. /\ sent(e) \in CallRec /\ sent(e).info = handle[d] /\ sent(e).step = "sent"
          /\ sent(e).server = e /\ ~sent(e).ran
        BY <1>1, Zenon DEF NoCall, CallRec
    <2> HIDE DEF sent
    <2>2. Told(d)'
        BY <1>1, <1>3, <2>1, InfoType DEF Inv, TypeOK, Told
    <2> QED
        BY <1>3, <2>1, <2>2, CallStep, Zenon DEF Dial
<1> QED
    BY <1>2, <1>3, Zenon DEF Dial, SetCall

\* The listener's answers, the caller's deadline and the end of a call.
LEMMA ServedInv ==
    ASSUME NEW d \in Drivers, Inv,
           LookupInvoked(d) \/ Unserved(d) \/ Dispatch(d) \/ TimesOut(d) \/ Answered(d) \/ NextCall(d)
    PROVE  Inv'
<1> DEFINE old == call[d]
<1>1. old \in CallRec /\ Told(d)
    BY DEF Inv, TypeOK
<1>2. ASSUME NEW c \in CallRec, c.info = old.info \/ c.info = NoInfo, call' = [call EXCEPT ![d] = c],
             UNCHANGED <<gcs, actor, driver, handle, loose, kept, faults>>,
             c.step = "idle" => ~c.ran,
             c.step # "idle" => Told(d)'
      PROVE  Inv'
    <2>1. Told(d)'
        BY <1>2 DEF Inv, TypeOK, Told
    <2> QED
        BY <1>2, <2>1, CallStep, Zenon
<1>3. CASE LookupInvoked(d)
    <2>1. CASE Listed(old.server, old.info.id)
        <3> DEFINE c == [old EXCEPT !.step = "found"]
        <3>1. call' = [call EXCEPT ![d] = c] /\ c \in CallRec /\ c.info = old.info /\ c.step = "found"
              /\ c.ran = old.ran /\ c.server = old.server /\ old.step = "sent"
            BY <1>1, <1>3, <2>1 DEF LookupInvoked, SetCall, CallRec
        <3> HIDE DEF c
        <3>2. Told(d)'
            BY <1>1, <3>1 DEF Inv, TypeOK, Told
        <3> QED
            BY <1>2, <1>3, <3>1, <3>2, Zenon DEF LookupInvoked
    <2>2. CASE ~Listed(old.server, old.info.id)
        <3> DEFINE c == [old EXCEPT !.step = "replied", !.reply = "unknown"]
        <3>1. call' = [call EXCEPT ![d] = c] /\ c \in CallRec /\ c.info = old.info /\ c.step = "replied"
              /\ c.ran = old.ran /\ c.server = old.server /\ c.reply = "unknown" /\ old.step = "sent"
            BY <1>1, <1>3, <2>2, Zenon DEF LookupInvoked, SetCall, Reply, CallRec
        <3> HIDE DEF c
        <3>2. old.info.id # None /\ actor[old.info.id].at # "none"
            BY <1>1, <3>1, SMTT(30) DEF Told, Inv, Births, Born
        <3>3. NotThere(d)'
            <4>1. call'[d] = c /\ UNCHANGED <<actor, driver>>
                BY <1>3, <3>1 DEF Inv, TypeOK, LookupInvoked
            <4> QED
                BY <2>2, <3>1, <3>2, <4>1, Zenon DEF NotThere, Listed, Alive
        <3>4. Told(d)'
            BY <1>1, <3>1, <3>3 DEF Inv, TypeOK, Told
        <3> QED
            BY <1>2, <1>3, <3>1, <3>4, Zenon DEF LookupInvoked
    <2> QED
        BY <2>1, <2>2
<1>4. ASSUME NEW r \in {"reject", "oserror"}, old.step \in {"sent", "found"},
             Reply(d, r), UNCHANGED <<gcs, actor, driver, handle, loose, kept, faults>>
      PROVE  Inv'
    <2> DEFINE c == [old EXCEPT !.step = "replied", !.reply = r]
    <2>1. call' = [call EXCEPT ![d] = c] /\ c \in CallRec /\ c.info = old.info /\ c.step = "replied"
          /\ c.ran = old.ran /\ c.reply = r
        BY <1>1, <1>4, Zenon DEF Reply, SetCall, CallRec
    <2> HIDE DEF c
    <2>2. Told(d)'
        BY <1>1, <1>4, <2>1, SMTT(30) DEF Inv, TypeOK, Told
    <2> QED
        BY <1>2, <1>4, <2>1, <2>2, Zenon
<1>5. CASE Unserved(d)
    BY <1>4, <1>5 DEF Unserved
<1>6. CASE Dispatch(d)
    <2> DEFINE c == [old EXCEPT !.step = "replied", !.reply = "ack", !.ran = TRUE]
    <2>1. CASE call' = [call EXCEPT ![d] = c]
        <3>1. c \in CallRec /\ c.info = old.info /\ c.step = "replied" /\ c.ran /\ c.reply = "ack"
            BY <1>1, Zenon DEF CallRec
        <3> HIDE DEF c
        <3>2. Told(d)'
            BY <2>1, <3>1 DEF Inv, TypeOK, Told
        <3> QED
            BY <1>2, <1>6, <2>1, <3>1, <3>2, Zenon DEF Dispatch
    <2>2. call' = [call EXCEPT ![d] = c] \/ Reply(d, "reject")
        BY <1>6 DEF Dispatch, SetCall
    <2> QED
        BY <1>4, <1>6, <2>1, <2>2 DEF Dispatch
<1>7. CASE TimesOut(d)
    <2> DEFINE c == [old EXCEPT !.waiting = FALSE]
    <2>1. call' = [call EXCEPT ![d] = c] /\ c \in CallRec /\ c.info = old.info /\ c.step = old.step
          /\ c.ran = old.ran /\ c.server = old.server /\ old.step \in {"sent", "found"}
        BY <1>1, <1>7, Zenon DEF TimesOut, SetCall, CallRec
    <2> HIDE DEF c
    <2>2. Told(d)'
        BY <1>1, <2>1 DEF Inv, TypeOK, Told
    <2> QED
        BY <1>2, <1>7, <2>1, <2>2, Zenon DEF TimesOut
<1>8. CASE call' = [call EXCEPT ![d] = NoCall] /\ UNCHANGED <<gcs, actor, driver, handle, loose, kept, faults>>
    BY <1>2, <1>8, CallType, Zenon
<1>9. CASE Answered(d) /\ old.waiting
    <2> DEFINE c == [old EXCEPT !.step = "done"]
    <2>1. call' = [call EXCEPT ![d] = c] /\ c \in CallRec /\ c.info = old.info /\ c.step = "done"
          /\ c.ran = old.ran /\ c.server = old.server /\ c.reply = old.reply /\ old.step = "replied"
        BY <1>1, <1>9, SMTT(30) DEF Answered, SetCall, CallRec
    <2> HIDE DEF c
    <2>2. Told(d)'
        BY <1>1, <1>9, <2>1, Zenon DEF Inv, TypeOK, Told, NotThere, Alive, Answered
    <2> QED
        BY <1>2, <1>9, <2>1, <2>2, ZenonT(30) DEF Answered
<1> QED
    BY <1>3, <1>5, <1>6, <1>7, <1>8, <1>9 DEF Answered, NextCall, SetCall

\* Opening and closing the session, with the listener in between.
LEMMA SessionInv ==
    ASSUME NEW d \in Drivers, Inv,
           OpenSession(d) \/ EnsureRpcServer(d) \/ StopRpcServer(d) \/ CloseSession(d)
    PROVE  Inv'
<1>1. /\ UNCHANGED <<gcs, actor, handle, call, loose, kept, faults>>
      /\ driver' \in [Drivers -> [session : {"up", "down", "gone"}, port : Ports \cup {None}]]
    BY DEF Inv, TypeOK, OpenSession, EnsureRpcServer, StopRpcServer, CloseSession
<1>2. \A e \in Drivers : ~Alive(e) => driver'[e].session = "gone"
    <2>1. driver[d].session # "gone" /\ \A e \in Drivers : e # d => driver'[e] = driver[e]
        BY DEF Inv, TypeOK, HasGcs, OpenSession, EnsureRpcServer, StopRpcServer, CloseSession
    <2> QED
        BY <2>1 DEF Alive
<1>3. TypeOK'
    BY <1>1 DEF Inv, TypeOK
<1>4. NamesHeld' /\ NameKept' /\ Births'
    BY <1>1 DEF Inv, NamesHeld, NameKept, Births, Born
<1>5. ASSUME NEW e \in Drivers PROVE Told(e)'
    <2>1. call[e].info.id \in Actors \cup {None} /\ Born(call[e].info.id) /\ Told(e)
        BY InfoType DEF Inv, TypeOK, CallRec, Info, Births
    <2>2. call[e].info.id # None => actor[call[e].info.id].owner \in Drivers
        BY <2>1 DEF Inv, Births, Born
    <2>3. NotThere(e) => NotThere(e)'
        BY <1>1, <1>2, <2>2, Zenon DEF NotThere, Alive
    <2> QED
        BY <1>1, <2>1, <2>3 DEF Told
<1> QED
    BY <1>3, <1>4, <1>5 DEF Inv

\* A driver that crashes answers nobody and gives up no name.
LEMMA CrashInv == ASSUME NEW d \in Drivers, Inv, Crash(d) PROVE Inv'
<1> DEFINE cut(e) == [call[e] EXCEPT !.step = "replied", !.reply = "oserror"]
<1>1. /\ UNCHANGED <<gcs, actor, kept>> /\ loose \subseteq loose' /\ loose' \subseteq Actors
      /\ faults' \in 0..MaxFaults
      /\ driver' \in [Drivers -> [session : {"up", "down", "gone"}, port : Ports \cup {None}]]
      /\ handle' \in [Drivers -> Handles]
    <2>1. UNCHANGED <<gcs, actor, kept>> /\ loose \subseteq loose' /\ loose' \subseteq Actors
        BY Zenon DEF Inv, TypeOK, Crash
    <2>2. faults' \in 0..MaxFaults
        <3>1. faults < MaxFaults /\ faults' = faults + 1 /\ faults \in 0..MaxFaults
            BY ZenonT(30) DEF Inv, TypeOK, Crash
        <3> QED
            BY <3>1, RegistryAssumption, SMTT(30)
    <2>3. driver' \in [Drivers -> [session : {"up", "down", "gone"}, port : Ports \cup {None}]]
        BY ZenonT(30) DEF Inv, TypeOK, Crash
    <2>4. handle' \in [Drivers -> Handles]
        BY InfoType, ZenonT(30) DEF Inv, TypeOK, Crash
    <2> QED
        BY <2>1, <2>2, <2>3, <2>4, SMTT(30)
<1>2. \A e \in Drivers : ~Alive(e) => driver'[e].session = "gone"
    BY Zenon DEF Inv, TypeOK, Alive, Crash
<1>3. \A e \in Drivers : /\ cut(e) \in CallRec /\ cut(e).info = call[e].info
                         /\ cut(e).step = "replied" /\ cut(e).reply = "oserror"
    <2>1. \A r \in CallRec : LET q == [r EXCEPT !.step = "replied", !.reply = "oserror"] IN
              q \in CallRec /\ q.info = r.info /\ q.step = "replied" /\ q.reply = "oserror"
        BY Zenon DEF CallRec
    <2> QED
        BY <2>1, Zenon DEF Inv, TypeOK
<1>4. /\ call' = [e \in Drivers |-> IF e = d THEN NoCall
                     ELSE IF call[e].server = d /\ call[e].step \in {"sent", "found"} THEN cut(e)
                          ELSE call[e]]
      /\ handle' = [handle EXCEPT ![d] = NoInfo]
    BY Zenon DEF Crash
<1> HIDE DEF cut
<1>5. call' \in [Drivers -> CallRec]
    BY <1>3, <1>4, CallType DEF Inv, TypeOK
<1>6. TypeOK'
    BY <1>1, <1>5 DEF Inv, TypeOK
<1>7. NamesHeld' /\ NameKept'
    BY <1>1 DEF Inv, NamesHeld, NameKept
<1>8. Births'
    <2>1. \A e \in Drivers : call'[e].info \in {call[e].info, NoInfo} /\ handle'[e] \in {handle[e], NoInfo}
        BY <1>3, <1>4, CallType DEF Inv, TypeOK
    <2> QED
        BY <1>1, <2>1, InfoType DEF Inv, Births, Born
<1>9. ASSUME NEW e \in Drivers PROVE Told(e)'
    <2>1. CASE call'[e] = call[e]
        <3>1. call[e].info.id \in Actors \cup {None}
            BY InfoType, SMTT(30) DEF Inv, TypeOK, CallRec, Info
        <3>2. NotThere(e) => NotThere(e)'
            BY <1>1, <1>2, <2>1, <3>1, Zenon DEF Inv, Births, Born, NotThere, Alive
        <3> QED
            BY <2>1, <3>2 DEF Inv, Told
    <2>2. CASE call'[e] = NoCall
        BY <2>2, CallType DEF Told
    <2>3. CASE call'[e] = cut(e)
        BY <1>3, <2>3 DEF Told
    <2> QED
        BY <1>4, <2>1, <2>2, <2>3
<1> QED
    BY <1>6, <1>7, <1>8, <1>9 DEF Inv

\* A restarted GCS remembers no name.
LEMMA RestartGcsInv == ASSUME Inv, RestartGcs PROVE Inv'
<1>1. TypeOK'
    BY RegistryAssumption, SMTT(30) DEF Inv, TypeOK, RestartGcs
<1>2. NamesHeld' /\ NameKept' /\ Births'
    BY InfoType, SMTT(30) DEF Inv, NamesHeld, NameKept, Births, Born, RestartGcs
<1>3. ASSUME NEW e \in Drivers PROVE Told(e)'
    BY ToldKept DEF Inv, RestartGcs
<1> QED
    BY <1>1, <1>2, <1>3 DEF Inv

\* Every step of a driver process.
LEMMA DriverInv == ASSUME NEW d \in Drivers, Inv, DriverStep(d) PROVE Inv'
BY SessionInv, CrashInv, LookupInv, RebuildInv, DialInv, ServedInv DEF DriverStep

-----------------------------------------------------------------------------
(* The steps of an actor leave handles and calls alone.                    *)

\* What any step of actor a that keeps the table's promises must do: a stays
\* constructed, with its owner, and does not come back once it is gone.
LEMMA ActorFrame ==
    ASSUME Inv, NEW a \in Actors, NEW r \in ActorRec, actor' = [actor EXCEPT ![a] = r],
           r.at # "none", r.owner \in Drivers,
           actor[a].at # "none" => r.owner = actor[a].owner,
           actor[a].at # "gone",
           gcs' \in [Names -> Info \cup {NoInfo}],
           \A n \in Names : gcs'[n].id \in {gcs[n].id, a, None},
           loose' \subseteq Actors, kept' \subseteq Actors, faults' \in 0..MaxFaults,
           NamesHeld', NameKept', UNCHANGED <<driver, handle, call>>
    PROVE  Inv'
<1>1. TypeOK'
    BY SMTT(30) DEF Inv, TypeOK
<1>2. \A b \in Actors : /\ actor[b].at # "none" => actor'[b].at # "none" /\ actor'[b].owner = actor[b].owner
                        /\ actor[b].at = "gone" => actor'[b].at = "gone"
                        /\ actor'[b].at # "none" => actor'[b].owner \in Drivers
    BY DEF Inv, TypeOK, Births
<1>3. actor'[a].at # "none"
    BY SMTT(30) DEF Inv, TypeOK
<1>4. Births'
    <2>1. \A n \in Names : gcs[n].id \in Actors \cup {None}
        BY InfoType DEF Inv, TypeOK, Info
    <2>2. \A d \in Drivers : handle[d].id \in Actors \cup {None} /\ call[d].info.id \in Actors \cup {None}
        BY InfoType DEF Inv, TypeOK, Info, CallRec
    <2> QED
        BY <1>2, <1>3, <2>1, <2>2 DEF Inv, Births, Born
<1>5. ASSUME NEW e \in Drivers PROVE Told(e)'
    <2>1. call[e].info.id \in Actors \cup {None}
        BY InfoType, SMTT(30) DEF Inv, TypeOK, CallRec, Info
    <2>2. NotThere(e) => NotThere(e)'
        BY <1>2, <2>1, ZenonT(30) DEF Inv, Births, Born, NotThere, Alive
    <2> QED
        BY <2>2 DEF Inv, Told
<1> QED
    BY <1>1, <1>4, <1>5 DEF Inv

Holding == {"spawning", "live", "respawning"} \cup Unnaming

\* A step that only moves the actor on, from where its name is not its own to
\* keep, or within the stages that hold it.
LEMMA MoveInv ==
    ASSUME Inv, NEW a \in Actors, NEW s \in Stages \ {"none"}, Goto(a, s),
           actor[a].at \notin {"none", "gone"},
           s \in Holding \/ actor[a].at \notin Holding \/ actor[a].name = None,
           UNCHANGED <<gcs, driver, handle, call, loose, kept, faults>>
    PROVE  Inv'
<1> DEFINE r == [actor[a] EXCEPT !.at = s]
<1>1. /\ r \in ActorRec /\ r.at = s /\ r.owner = actor[a].owner /\ r.name = actor[a].name
      /\ actor' = [actor EXCEPT ![a] = r]
    <2>1. actor[a] \in ActorRec /\ actor \in [Actors -> ActorRec]
        BY DEF Inv, TypeOK
    <2>2. actor' = [actor EXCEPT ![a] = r]
        BY <2>1, Zenon DEF Goto
    <2> QED
        BY <2>1, <2>2, Zenon DEF ActorRec
<1> HIDE DEF r
<1>2. NamesHeld'
    <2> SUFFICES ASSUME NEW n \in Names, gcs[n] # NoInfo, gcs[n].id \notin loose
                 PROVE  actor'[gcs[n].id].name = n /\ actor'[gcs[n].id].at \in Holding
        BY DEF NamesHeld, Holding, Unnaming
    <2>1. actor[gcs[n].id].name = n /\ actor[gcs[n].id].at \in Holding /\ n # None
        BY RegistryAssumption DEF Inv, NamesHeld, Holding
    <2>2. gcs[n].id \in Actors
        BY InfoType DEF Inv, TypeOK
    <2> QED
        BY <1>1, <2>1, <2>2 DEF Inv, TypeOK
<1>3. NameKept'
    BY <1>1 DEF Inv, TypeOK, NameKept
<1>4. \A n \in Names : gcs'[n].id \in {gcs[n].id, a, None}
    BY SMTT(30)
<1>5. actor[a].owner \in Drivers
    BY DEF Inv, Births
<1> QED
    BY <1>1, <1>2, <1>3, <1>4, <1>5, ActorFrame, Zenon DEF Inv, TypeOK

\* The spawn, the reader's decision, terminate, and the end of an actor that has
\* no name to give up or has given it up.
LEMMA MovesInv ==
    ASSUME Inv, NEW a \in Actors,
           Spawn(a) \/ ReaderDecides(a) \/ Terminate(a) \/ Nameless(a) \/ Unlist(a)
    PROVE  Inv'
<1>1. CASE Spawn(a)
    BY <1>1, MoveInv DEF Spawn, SpawnRaises, Stages, Holding, Unnaming
<1>2. CASE ReaderDecides(a)
    BY <1>2, MoveInv, SMTT(30) DEF ReaderDecides, Stages, Holding, Unnaming
<1>3. CASE Terminate(a)
    BY <1>3, MoveInv, SMTT(30) DEF Terminate, Stages, Holding, Unnaming
<1>4. CASE Nameless(a)
    BY <1>4, MoveInv, SMTT(30) DEF Nameless, AfterUnname, Stages, Holding, Unnaming
<1>5. CASE Unlist(a)
    BY <1>5, MoveInv, SMTT(30) DEF Unlist, Stages, Holding, Unnaming
<1> QED
    BY <1>1, <1>2, <1>3, <1>4, <1>5, SMTT(30)

\* A new actor holds no name yet.
LEMMA ConstructInv ==
    ASSUME Inv, NEW a \in Actors, NEW d \in Drivers, NEW named \in BOOLEAN, Construct(d, a, named)
    PROVE  Inv'
<1> DEFINE r == [at |-> IF named THEN "naming" ELSE "spawning", owner |-> d, name |-> None,
                 port |-> IF named THEN driver[d].port ELSE None]
<1>1. /\ r \in ActorRec /\ r.at \notin {"none", "gone"} /\ r.owner = d /\ r.name = None
      /\ actor' = [actor EXCEPT ![a] = r]
    BY DEF Inv, TypeOK, ActorRec, Stages, Construct
<1> HIDE DEF r
<1>2. actor[a].at = "none" /\ UNCHANGED <<gcs, driver, handle, call, loose, kept, faults>>
    BY DEF Construct
<1>3. NamesHeld'
    <2> SUFFICES ASSUME NEW n \in Names, gcs[n] # NoInfo, gcs[n].id \notin loose
                 PROVE  actor'[gcs[n].id] = actor[gcs[n].id]
        BY <1>2 DEF Inv, NamesHeld
    <2>1. gcs[n].id # a
        BY <1>2 DEF Inv, NamesHeld, Unnaming
    <2>2. gcs[n].id \in Actors
        BY InfoType DEF Inv, TypeOK
    <2> QED
        BY <1>1, <2>1, <2>2, SMTT(30) DEF Inv, TypeOK
<1>4. NameKept'
    BY <1>1, <1>2 DEF Inv, TypeOK, NameKept
<1>5. \A n \in Names : gcs'[n].id \in {gcs[n].id, a, None}
    BY <1>2, SMTT(30)
<1> QED
    BY <1>1, <1>2, <1>3, <1>4, <1>5, ActorFrame, Zenon DEF Inv, TypeOK

\* The GCS's answer to a registration: a free name becomes the actor's, and so
\* no other actor loses one.
LEMMA Registered ==
    ASSUME Inv, NEW a \in Actors, NEW n \in Names, Accepts(n, a),
           RegisterActor(n, [id |-> a, port |-> actor[a].port])
    PROVE  /\ gcs' \in [Names -> Info \cup {NoInfo}]
           /\ gcs'[n].id = a /\ gcs'[n] # NoInfo
           /\ \A m \in Names : m # n => gcs'[m] = gcs[m]
           /\ gcs[n].id \in {None, a}
<1>1. [id |-> a, port |-> actor[a].port] \in Info /\ [id |-> a, port |-> actor[a].port].id = a
    BY InfoType DEF Inv, TypeOK, ActorRec
<1> QED
    BY <1>1, InfoType, RegistryAssumption, SMTT(30) DEF Inv, TypeOK, Accepts, RegisterActor

\* The GCS's answer to an unregistration removes the actor's own entry only.
LEMMA Unregistered ==
    ASSUME Inv, NEW a \in Actors, NEW n \in Names, UnregisterActor(n, a)
    PROVE  /\ gcs' \in [Names -> Info \cup {NoInfo}]
           /\ \A m \in Names : gcs'[m] = gcs[m] \/ (m = n /\ gcs[m].id = a /\ gcs'[m] = NoInfo)
           /\ gcs'[n].id # a
BY InfoType, RegistryAssumption, SMTT(30) DEF Inv, TypeOK, UnregisterActor

\* A granted name is the actor's, and no other actor's name is touched.
LEMMA ReserveInv == ASSUME Inv, NEW a \in Actors, NEW n \in Names, Reserve(a, n) PROVE Inv'
<1> DEFINE r == [actor[a] EXCEPT !.at = "spawning", !.name = n, !.port = None]
<1>1. /\ r \in ActorRec /\ r.at = "spawning" /\ r.owner = actor[a].owner /\ r.name = n
      /\ actor' = [actor EXCEPT ![a] = r]
    <2>1. actor[a] \in ActorRec /\ actor \in [Actors -> ActorRec]
        BY DEF Inv, TypeOK
    <2>2. actor' = [actor EXCEPT ![a] = r]
        BY <2>1, Zenon DEF Reserve
    <2> QED
        BY <2>1, <2>2, Zenon DEF ActorRec, Stages
<1> HIDE DEF r
<1>2. actor[a].at = "naming" /\ kept' = kept \cup {a} /\ UNCHANGED <<driver, handle, call, loose, faults>>
    BY DEF Reserve
<1>3. /\ gcs' \in [Names -> Info \cup {NoInfo}]
      /\ gcs'[n].id = a
      /\ \A m \in Names : m # n => gcs'[m] = gcs[m]
      /\ gcs[n].id \in {None, a}
    BY Registered DEF Reserve
<1>4. NamesHeld'
    <2> SUFFICES ASSUME NEW m \in Names, gcs'[m] # NoInfo, gcs'[m].id \notin loose
                 PROVE  actor'[gcs'[m].id].name = m /\ actor'[gcs'[m].id].at \in Holding
        BY <1>2 DEF NamesHeld, Holding, Unnaming
    <2>1. CASE m = n
        BY <1>1, <1>3, <2>1, SMTT(30) DEF Inv, TypeOK, Holding
    <2>2. CASE m # n
        <3>1. gcs'[m] = gcs[m] /\ gcs[m].id # a /\ gcs[m].id \in Actors
            BY <1>2, <1>3, <2>2, InfoType DEF Inv, TypeOK, NamesHeld, Unnaming
        <3> QED
            BY <1>1, <3>1 DEF Inv, TypeOK, NamesHeld, Holding
    <2> QED
        BY <2>1, <2>2
<1>5. NameKept'
    <2> SUFFICES ASSUME NEW b \in Actors, actor'[b].name # None, b \in kept'
                 PROVE  gcs'[actor'[b].name].id = b
        BY SMTT(30) DEF NameKept
    <2>1. CASE b = a
        BY <1>1, <1>3, <2>1, SMTT(30) DEF Inv, TypeOK
    <2>2. CASE b # a
        <3>1. actor'[b] = actor[b] /\ b \in kept /\ gcs[actor[b].name].id = b /\ b # None
            BY <1>1, <1>2, <2>2, RegistryAssumption, SMTT(30) DEF Inv, TypeOK, NameKept
        <3>2. actor[b].name \in Names /\ actor[b].name # n
            BY <1>3, <2>2, <3>1 DEF Inv, TypeOK, ActorRec
        <3> QED
            BY <1>3, <3>1, <3>2, SMTT(30)
    <2> QED
        BY <2>1, <2>2
<1>6. \A m \in Names : gcs'[m].id \in {gcs[m].id, a, None}
    BY <1>3
<1>7. actor[a].owner \in Drivers
    BY <1>2 DEF Inv, Births
<1>8. kept' \subseteq Actors
    BY <1>2, SMTT(30) DEF Inv, TypeOK
<1> QED
    BY <1>1, <1>2, <1>3, <1>4, <1>5, <1>6, <1>7, <1>8, ActorFrame, Zenon DEF Inv, TypeOK

\* A refused name, or a call that failed on the way there or back: the actor
\* holds none, and where the GCS may have taken it, it is loose.
LEMMA RefusedInv ==
    ASSUME Inv, NEW a \in Actors, NEW n \in Names, NameRefused(a, n) \/ NameCallFails(a, n)
    PROVE  Inv'
<1> DEFINE r == [actor[a] EXCEPT !.at = "raised", !.port = None]
<1>1. /\ r \in ActorRec /\ r.at = "raised" /\ r.owner = actor[a].owner /\ r.name = actor[a].name
      /\ actor' = [actor EXCEPT ![a] = r]
    <2>1. actor[a] \in ActorRec /\ actor \in [Actors -> ActorRec]
        BY DEF Inv, TypeOK
    <2>2. actor' = [actor EXCEPT ![a] = r]
        BY <2>1, Zenon DEF NameRefused, NameCallFails
    <2> QED
        BY <2>1, <2>2, Zenon DEF ActorRec, Stages
<1> HIDE DEF r
<1>2. actor[a].at = "naming" /\ kept' = kept /\ UNCHANGED <<driver, handle, call>>
    BY DEF NameRefused, NameCallFails
<1>3. /\ gcs' \in [Names -> Info \cup {NoInfo}]
      /\ \A m \in Names : gcs'[m] = gcs[m] \/ (gcs'[m].id = a /\ a \in loose' /\ gcs[m].id \in {None, a})
      /\ loose \subseteq loose' /\ loose' \subseteq Actors
    <2>1. CASE gcs' = gcs
        BY <2>1 DEF Inv, TypeOK, NameRefused, NameCallFails
    <2>2. CASE NameCallFails(a, n) /\ gcs' # gcs
        BY <2>2, Registered DEF NameCallFails, Inv, TypeOK
    <2> QED
        BY <2>1, <2>2 DEF NameRefused
<1>4. faults' \in 0..MaxFaults
    <2>1. faults' = faults \/ (faults < MaxFaults /\ faults' = faults + 1)
        BY DEF NameRefused, NameCallFails
    <2> QED
        BY <2>1, RegistryAssumption DEF Inv, TypeOK
<1>5. NamesHeld'
    <2> SUFFICES ASSUME NEW m \in Names, gcs'[m] # NoInfo, gcs'[m].id \notin loose'
                 PROVE  actor'[gcs'[m].id].name = m /\ actor'[gcs'[m].id].at \in Holding
        BY SMTT(30) DEF NamesHeld, Holding, Unnaming
    <2>1. gcs'[m] = gcs[m] /\ gcs[m].id \in Actors /\ gcs[m].id # a
        BY <1>2, <1>3, InfoType, SMTT(30) DEF Inv, TypeOK, NamesHeld, Unnaming
    <2> QED
        BY <1>1, <1>3, <2>1 DEF Inv, TypeOK, NamesHeld, Holding
<1>6. NameKept'
    <2> SUFFICES ASSUME NEW b \in Actors, actor'[b].name # None, b \in kept'
                 PROVE  gcs'[actor'[b].name].id = b
        BY DEF NameKept
    <2>1. actor'[b].name = actor[b].name /\ actor[b].name \in Names /\ gcs[actor[b].name].id = b /\ b # None
        BY <1>1, <1>2, RegistryAssumption DEF Inv, TypeOK, ActorRec, NameKept
    <2> QED
        BY <1>3, <2>1, SMTT(30)
<1>7. \A m \in Names : gcs'[m].id \in {gcs[m].id, a, None}
    BY <1>3, SMTT(30)
<1>8. actor[a].owner \in Drivers
    BY <1>2, SMTT(30) DEF Inv, Births
<1> QED
    BY <1>1, <1>2, <1>3, <1>4, <1>5, <1>6, <1>7, <1>8, ActorFrame, Zenon DEF Inv, TypeOK

\* Giving the name up, whether or not the GCS hears of it.
LEMMA UnnameInv == ASSUME Inv, NEW a \in Actors, Unname(a) \/ UnnameFails(a) PROVE Inv'
<1> DEFINE r == [actor[a] EXCEPT !.at = AfterUnname(@), !.name = None]
           n == actor[a].name
<1>1. /\ r \in ActorRec /\ r.at \in {"dead", "unlist"} /\ r.owner = actor[a].owner /\ r.name = None
      /\ actor' = [actor EXCEPT ![a] = r]
    BY DEF Inv, TypeOK, ActorRec, Stages, Unname, UnnameFails, AfterUnname
<1>2. n \in Names
    BY DEF Inv, TypeOK, ActorRec, Unname, UnnameFails
<1>3. actor[a].at \in Unnaming /\ kept' = kept \ {a} /\ UNCHANGED <<driver, handle, call>>
    BY DEF Unname, UnnameFails
<1>4. gcs' = gcs \/ UnregisterActor(n, a)
    BY DEF Unname, UnnameFails
<1>5. Unname(a) \/ a \in loose'
    BY DEF UnnameFails
<1>6. loose \subseteq loose' /\ loose' \subseteq Actors
    BY DEF Unname, UnnameFails, Inv, TypeOK
<1>7. faults' \in 0..MaxFaults
    <2>1. faults' = faults \/ (faults < MaxFaults /\ faults' = faults + 1)
        BY DEF Unname, UnnameFails
    <2> QED
        BY <2>1, RegistryAssumption DEF Inv, TypeOK
<1>8. Unname(a) => gcs'[n].id # a
    BY <1>2, Unregistered DEF Unname
<1>9. /\ gcs' \in [Names -> Info \cup {NoInfo}]
      /\ \A m \in Names : gcs'[m] = gcs[m] \/ (gcs[m].id = a /\ gcs'[m] = NoInfo)
    <2>1. CASE gcs' = gcs
        BY <2>1 DEF Inv, TypeOK
    <2>2. CASE UnregisterActor(n, a)
        BY <1>2, <2>2, Unregistered, SMTT(30)
    <2> QED
        BY <1>4, <2>1, <2>2
<1> HIDE DEF r
<1>10. NamesHeld'
    <2> SUFFICES ASSUME NEW m \in Names, gcs'[m] # NoInfo, gcs'[m].id \notin loose'
                 PROVE  actor'[gcs'[m].id].name = m /\ actor'[gcs'[m].id].at \in Holding
        BY DEF NamesHeld, Holding, Unnaming
    <2>1. gcs'[m] = gcs[m] /\ gcs[m].id \in Actors /\ gcs[m].id \notin loose
        BY <1>6, <1>9, InfoType, SMTT(30) DEF Inv, TypeOK
    <2>2. actor[gcs[m].id].name = m /\ actor[gcs[m].id].at \in Holding
        BY <2>1 DEF Inv, NamesHeld, Holding
    <2>3. gcs[m].id # a
        BY <1>5, <1>8, <2>1, <2>2
    <2> QED
        BY <1>1, <2>1, <2>2, <2>3, SMTT(30) DEF Inv, TypeOK
<1>11. NameKept'
    <2> SUFFICES ASSUME NEW b \in Actors, actor'[b].name # None, b \in kept'
                 PROVE  gcs'[actor'[b].name].id = b
        BY DEF NameKept
    <2>1. b # a /\ actor'[b] = actor[b] /\ actor[b].name \in Names /\ gcs[actor[b].name].id = b
        BY <1>1, <1>3, SMTT(30) DEF Inv, TypeOK, ActorRec, NameKept
    <2> QED
        BY <1>9, <2>1
<1>12. \A m \in Names : gcs'[m].id \in {gcs[m].id, a, None}
    BY <1>9, InfoType, SMTT(30)
<1>13. actor[a].owner \in Drivers /\ actor[a].at # "none" /\ actor[a].at # "gone"
    BY <1>3 DEF Inv, Births, Unnaming
<1>14. kept' \subseteq Actors
    BY <1>3 DEF Inv, TypeOK
<1> QED
    BY <1>1, <1>3, <1>6, <1>7, <1>9, <1>10, <1>11, <1>12, <1>13, <1>14, ActorFrame, Zenon

\* Every step keeps the invariant.
LEMMA NextInv == Inv /\ [Next]_vars => Inv'
<1> SUFFICES ASSUME Inv, [Next]_vars PROVE Inv'
    BY SMTT(30)
<1>1. CASE UNCHANGED vars
    BY <1>1, Zenon DEF vars, Inv, TypeOK, NamesHeld, NameKept, Births, Born, Told, NotThere, Alive
<1>2. ASSUME NEW a \in Actors, ActorStep(a) PROVE Inv'
    BY <1>2, ConstructInv, ReserveInv, RefusedInv, MovesInv, UnnameInv DEF ActorStep
<1> QED
    BY <1>1, <1>2, RestartGcsInv, DriverInv DEF Next

-----------------------------------------------------------------------------
(***************************************************************************)
(* Type correctness of the name table, the registries and the calls.       *)
(***************************************************************************)
THEOREM TypeCorrect == Spec => []TypeOK
<1>1. Inv => TypeOK
    BY DEF Inv
<1> QED
    BY InitInv, NextInv, <1>1, PTL DEF Spec

(***************************************************************************)
(* register_actor refuses a name another actor has, and unregister_actor   *)
(* refuses an id that is not the registered one: an actor keeps its name   *)
(* until it gives it up.                                                   *)
(***************************************************************************)
THEOREM NameStays == Spec => []NameKept
<1>1. Inv => NameKept
    BY DEF Inv
<1> QED
    BY InitInv, NextInv, <1>1, PTL DEF Spec

(***************************************************************************)
(* The roll back of the constructor, terminate and the crash path of the   *)
(* reader all unregister before the actor leaves _ACTOR_REGISTRY: a        *)
(* registered name has an actor that will give it up, or one whose owner   *)
(* crashed or could not reach the GCS.                                     *)
(***************************************************************************)
THEOREM NameHasHolder == Spec => []NamesHeld
<1>1. Inv => NamesHeld
    BY SMTT(30) DEF Inv
<1> QED
    BY InitInv, NextInv, <1>1, PTL DEF Spec

(***************************************************************************)
(* _handle_invoke acknowledges after the dispatch: a caller that gets a    *)
(* ref has been sent to the subprocess, one that gets ActorDiedError or    *)
(* RuntimeError has not.  The actor enters _ACTOR_REGISTRY before its name *)
(* and its handle can spread, so an owner that does not know the id has    *)
(* lost the actor for good, or is not the owner.                           *)
(***************************************************************************)
THEOREM CallerIsToldTheTruth == Spec => []AnswerTruthful
<1>1. Inv => AnswerTruthful
    BY DEF Inv, Told, NotThere, AnswerTruthful
<1> QED
    BY InitInv, NextInv, <1>1, PTL DEF Spec
=============================================================================
