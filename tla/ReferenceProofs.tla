-------------------------- MODULE ReferenceProofs --------------------------
(***************************************************************************)
(* Proofs about the reference counts, for any ids, nodes, counts and       *)
(* faults: first the methods on one entry (RefCounter), then the owner's   *)
(* table called in any order (RefTable), then one object shared between    *)
(* drivers (ObjectTransfer).                                               *)
(*                                                                         *)
(* RefTable: PresenceIffPinned is inductive with the types; each method    *)
(* maps a good entry to a good entry, and says "free" exactly when the     *)
(* pins ran out.                                                           *)
(*                                                                         *)
(* ObjectTransfer: none of its invariants is inductive.  Inv adds what a   *)
(* call at the owner has done so far and who waits for it, what each node  *)
(* has in each place of its get or drop, that the owner's table pins the   *)
(* object until it says free, and, while nothing has gone wrong, that each *)
(* node's replica, entry, ref and directory listing agree but for the step *)
(* it is in (Exact).                                                       *)
(***************************************************************************)
EXTENDS RefTable, ObjectTransfer, TLAPS

-----------------------------------------------------------------------------
\* What the methods make of the fields of an entry.
LEMMA DefaultKeeps ==
    ASSUME NEW e \in OwnerEntry
    PROVE  /\ OrDefault(e) \in OwnerEntry /\ OrDefault(e).tracked
           /\ OrDefault(e).local = e.local /\ OrDefault(e).deps = e.deps
           /\ OrDefault(e).borrowers = e.borrowers
BY Zenon DEF OwnerEntry, OrDefault

\* add_owned tracks the entry and counts one more local ref.
LEMMA OwnedFields ==
    ASSUME NEW e \in OwnerEntry
    PROVE  /\ AddOwned(e) \in OwnerEntry /\ EntryOK(AddOwned(e)) /\ AddOwned(e).tracked
           /\ AddOwned(e).local = e.local + 1 /\ AddOwned(e).deps = e.deps
           /\ AddOwned(e).borrowers = e.borrowers
<1>1. /\ AddOwned(e) \in OwnerEntry /\ AddOwned(e).tracked
      /\ AddOwned(e).local = e.local + 1 /\ AddOwned(e).deps = e.deps
      /\ AddOwned(e).borrowers = e.borrowers
    BY DefaultKeeps DEF OwnerEntry, AddOwned
<1>2. e.local + 1 # 0
    BY DEF OwnerEntry
<1> QED
    BY <1>1, <1>2, Zenon DEF EntryOK, Pinned, IsUnpinned

\* add_borrower tracks the entry and adds the borrower, once.
LEMMA BorrowerFields ==
    ASSUME NEW e \in OwnerEntry, NEW w \in Borrowers
    PROVE  /\ AddBorrower(e, w) \in OwnerEntry /\ EntryOK(AddBorrower(e, w))
           /\ AddBorrower(e, w).tracked
           /\ AddBorrower(e, w).local = e.local /\ AddBorrower(e, w).deps = e.deps
           /\ AddBorrower(e, w).borrowers = e.borrowers \cup {w}
<1>1. /\ AddBorrower(e, w) \in OwnerEntry /\ AddBorrower(e, w).tracked
      /\ AddBorrower(e, w).local = e.local /\ AddBorrower(e, w).deps = e.deps
      /\ AddBorrower(e, w).borrowers = e.borrowers \cup {w}
    BY DefaultKeeps DEF OwnerEntry, AddBorrower
<1> QED
    BY <1>1, Zenon DEF EntryOK, Pinned, IsUnpinned

\* The entry of an id that is not in the table.
LEMMA UntrackedFields ==
    /\ Untracked \in OwnerEntry /\ EntryOK(Untracked) /\ ~Untracked.tracked
    /\ Untracked.local = 0 /\ Untracked.deps = 0 /\ Untracked.borrowers = {}
BY Zenon DEF Untracked, OwnerEntry, EntryOK, Pinned, IsUnpinned

\* dec_local counts one less, never below zero, and frees by untracking.
LEMMA DecFields ==
    ASSUME NEW e \in OwnerEntry, EntryOK(e)
    PROVE  /\ DecLocal(e) \in OwnerEntry /\ EntryOK(DecLocal(e))
           /\ DecLocal(e).local = SaturatingDec(e.local) /\ DecLocal(e).deps = e.deps
           /\ DecLocal(e).borrowers = e.borrowers
           /\ DecLocalFrees(e) <=> e.tracked /\ ~DecLocal(e).tracked
<1> DEFINE d == WithoutLocal(e)
<1>1. /\ d \in OwnerEntry /\ d.tracked = e.tracked /\ d.local = SaturatingDec(e.local)
      /\ d.deps = e.deps /\ d.borrowers = e.borrowers
    BY DEF OwnerEntry, WithoutLocal, SaturatingDec
<1>2. CASE ~e.tracked
    BY <1>2, Zenon DEF DecLocal, DecLocalFrees, EntryOK, Pinned, IsUnpinned, SaturatingDec
<1>3. CASE e.tracked /\ IsUnpinned(d)
    <2>1. DecLocal(e) = Untracked /\ DecLocalFrees(e)
        BY <1>3, Zenon DEF DecLocal, DecLocalFrees, Settle
    <2> QED
        BY <1>1, <1>3, <2>1, UntrackedFields, Zenon DEF IsUnpinned
<1>4. CASE e.tracked /\ ~IsUnpinned(d)
    <2>1. DecLocal(e) = d /\ ~DecLocalFrees(e)
        BY <1>4, Zenon DEF DecLocal, DecLocalFrees, Settle
    <2> QED
        BY <1>1, <1>4, <2>1, Zenon DEF EntryOK, Pinned
<1> QED
    BY <1>2, <1>3, <1>4, Zenon

\* remove_borrower takes one borrower out, and frees by untracking.
LEMMA RemoveFields ==
    ASSUME NEW e \in OwnerEntry, EntryOK(e), NEW w \in Borrowers
    PROVE  /\ RemoveBorrower(e, w) \in OwnerEntry /\ EntryOK(RemoveBorrower(e, w))
           /\ RemoveBorrower(e, w).local = e.local /\ RemoveBorrower(e, w).deps = e.deps
           /\ RemoveBorrower(e, w).borrowers = e.borrowers \ {w}
           /\ RemoveBorrowerFrees(e, w) <=> e.tracked /\ ~RemoveBorrower(e, w).tracked
<1> DEFINE d == WithoutBorrower(e, w)
<1>1. /\ d \in OwnerEntry /\ d.tracked = e.tracked /\ d.local = e.local
      /\ d.deps = e.deps /\ d.borrowers = e.borrowers \ {w}
    BY Zenon DEF OwnerEntry, WithoutBorrower
<1>2. CASE ~e.tracked
    BY <1>2, Zenon DEF RemoveBorrower, RemoveBorrowerFrees, EntryOK, Pinned, IsUnpinned
<1>3. CASE e.tracked /\ IsUnpinned(d)
    <2>1. RemoveBorrower(e, w) = Untracked /\ RemoveBorrowerFrees(e, w)
        BY <1>3, Zenon DEF RemoveBorrower, RemoveBorrowerFrees, Settle
    <2> QED
        BY <1>1, <1>3, <2>1, UntrackedFields, Zenon DEF IsUnpinned
<1>4. CASE e.tracked /\ ~IsUnpinned(d)
    <2>1. RemoveBorrower(e, w) = d /\ ~RemoveBorrowerFrees(e, w)
        BY <1>4, Zenon DEF RemoveBorrower, RemoveBorrowerFrees, Settle
    <2> QED
        BY <1>1, <1>4, <2>1, Zenon DEF EntryOK, Pinned
<1> QED
    BY <1>2, <1>3, <1>4, Zenon

\* inc_local leaves an untracked entry alone and drops no pin.
LEMMA IncLocalKeeps ==
    ASSUME NEW e \in OwnerEntry, EntryOK(e)
    PROVE  /\ IncLocal(e) \in OwnerEntry /\ EntryOK(IncLocal(e))
           /\ Pinned(e) => Pinned(IncLocal(e))
<1>1. CASE ~e.tracked
    BY <1>1, Zenon DEF IncLocal
<1>2. CASE e.tracked
    <2>1. /\ IncLocal(e) \in OwnerEntry /\ IncLocal(e).tracked
          /\ IncLocal(e).local # 0
        BY <1>2 DEF IncLocal, OwnerEntry
    <2> QED
        BY <2>1, Zenon DEF EntryOK, Pinned, IsUnpinned
<1> QED
    BY <1>1, <1>2, Zenon

\* add_submit_dep leaves a good, pinned entry.
LEMMA AddSubmitDepKeeps ==
    ASSUME NEW e \in OwnerEntry
    PROVE  /\ AddSubmitDep(e) \in OwnerEntry
           /\ EntryOK(AddSubmitDep(e)) /\ Pinned(AddSubmitDep(e))
<1>1. /\ AddSubmitDep(e) \in OwnerEntry /\ AddSubmitDep(e).tracked
      /\ AddSubmitDep(e).deps = OrDefault(e).deps + 1
    BY DefaultKeeps DEF OwnerEntry, AddSubmitDep
<1>2. AddSubmitDep(e).deps # 0
    BY <1>1, DefaultKeeps DEF OwnerEntry
<1> QED
    BY <1>1, <1>2, Zenon DEF EntryOK, Pinned, IsUnpinned

\* An id without an entry has no pins.
LEMMA UntrackedPins == Untracked \in OwnerEntry /\ EntryOK(Untracked) /\ ~Pinned(Untracked)
BY UntrackedFields, Zenon DEF EntryOK

\* complete_submit_dep leaves a good entry, and frees it exactly when its last pin goes.
LEMMA CompleteSubmitDepKeeps ==
    ASSUME NEW e \in OwnerEntry, EntryOK(e)
    PROVE  /\ CompleteSubmitDep(e) \in OwnerEntry /\ EntryOK(CompleteSubmitDep(e))
           /\ CompleteSubmitDepFrees(e) <=> Pinned(e) /\ ~Pinned(CompleteSubmitDep(e))
<1>1. WithoutDep(e) \in OwnerEntry /\ WithoutDep(e).tracked = e.tracked
    BY DEF OwnerEntry, WithoutDep, SaturatingDec
<1> QED
    BY <1>1, UntrackedPins, Zenon DEF CompleteSubmitDep, CompleteSubmitDepFrees, Settle, EntryOK,
                                      Pinned

-----------------------------------------------------------------------------
(***************************************************************************)
(* The owner's table.                                                      *)
(***************************************************************************)

TableInv == TableTypeOK /\ PresenceIffPinned

\* The empty table is a good one.
LEMMA TableInitInv == TableInit => TableInv
BY UntrackedPins, Zenon DEF TableInit, TableInv, TableTypeOK, PresenceIffPinned

\* A call that replaces the entry of i by a good one and tells the truth.
LEMMA OneEntry ==
    ASSUME TableInv, NEW i \in Ids, NEW e \in OwnerEntry, EntryOK(e), Set(i, e),
           told' = IF Pinned(entries[i]) /\ ~Pinned(e) THEN {i} ELSE {}
    PROVE  TableInv' /\ FreeStep
<1>1. entries'[i] = e /\ \A j \in Ids : j # i => entries'[j] = entries[j]
    BY Zenon DEF Set, TableInv, TableTypeOK
<1>2. TableTypeOK'
    BY Zenon DEF Set, TableInv, TableTypeOK
<1>3. PresenceIffPinned'
    BY <1>1, Zenon DEF TableInv, PresenceIffPinned
<1>4. FreeStep
    BY <1>1, Zenon DEF FreeStep
<1> QED
    BY <1>2, <1>3, <1>4, Zenon DEF TableInv

\* Every call leaves a good table and reports the truth.
LEMMA TableStep == TableInv /\ TableNext => TableInv' /\ FreeStep
<1> SUFFICES ASSUME TableInv, TableNext PROVE TableInv' /\ FreeStep
    BY Zenon
<1>0. \A i \in Ids : entries[i] \in OwnerEntry /\ EntryOK(entries[i])
    BY Zenon DEF TableInv, TableTypeOK, PresenceIffPinned
<1>1. ASSUME NEW i \in Ids, AddOwnedCall(i) PROVE TableInv' /\ FreeStep
    BY <1>0, <1>1, OwnedFields, OneEntry, Zenon DEF EntryOK, AddOwnedCall
<1>2. ASSUME NEW i \in Ids, IncLocalCall(i) PROVE TableInv' /\ FreeStep
    BY <1>0, <1>2, IncLocalKeeps, OneEntry, Zenon DEF IncLocalCall
<1>3. ASSUME NEW i \in Ids, AddSubmitDepCall(i) PROVE TableInv' /\ FreeStep
    BY <1>0, <1>3, AddSubmitDepKeeps, OneEntry, Zenon DEF AddSubmitDepCall
<1>4. ASSUME NEW i \in Ids, NEW w \in Borrowers, AddBorrowerCall(i, w)
      PROVE  TableInv' /\ FreeStep
    BY <1>0, <1>4, BorrowerFields, OneEntry, Zenon DEF EntryOK, AddBorrowerCall
<1>5. ASSUME NEW i \in Ids, DecLocalCall(i) PROVE TableInv' /\ FreeStep
    BY <1>0, <1>5, DecFields, OneEntry, Zenon DEF EntryOK, DecLocalCall, Tell
<1>6. ASSUME NEW i \in Ids, CompleteSubmitDepCall(i) PROVE TableInv' /\ FreeStep
    BY <1>0, <1>6, CompleteSubmitDepKeeps, OneEntry, Zenon DEF CompleteSubmitDepCall, Tell
<1>7. ASSUME NEW i \in Ids, NEW w \in Borrowers, RemoveBorrowerCall(i, w)
      PROVE  TableInv' /\ FreeStep
    BY <1>0, <1>7, RemoveFields, OneEntry, Zenon DEF EntryOK, RemoveBorrowerCall, Tell
<1>8. CASE DrainIds
    <2>1. \A i \in Ids : entries'[i] = Untracked
        BY <1>8, Zenon DEF DrainIds
    <2>2. FreeStep
        BY <1>0, <1>8, UntrackedPins, Zenon DEF DrainIds, FreeStep, EntryOK
    <2>3. TableTypeOK'
        BY <1>8, UntrackedPins, Zenon DEF DrainIds, TableTypeOK
    <2>4. PresenceIffPinned'
        BY <2>1, UntrackedPins, Zenon DEF PresenceIffPinned
    <2> QED
        BY <2>2, <2>3, <2>4, Zenon DEF TableInv
<1> QED
    BY <1>1, <1>2, <1>3, <1>4, <1>5, <1>6, <1>7, <1>8, Zenon DEF TableNext

\* So the table is always good.
LEMMA TableAlways == TableSpec => []TableInv
<1>1. TableInv /\ [TableNext]_tableVars => TableInv'
    <2> SUFFICES ASSUME TableInv, [TableNext]_tableVars PROVE TableInv'
        BY Zenon
    <2>1. CASE TableNext
        BY <2>1, TableStep, Zenon
    <2>2. CASE UNCHANGED tableVars
        BY <2>2, Zenon DEF tableVars, TableInv, TableTypeOK, PresenceIffPinned
    <2> QED
        BY <2>1, <2>2, Zenon
<1> QED
    BY <1>1, TableInitInv, PTL DEF TableSpec

\* An entry is in the owner's table exactly while something pins its object.
THEOREM TablePresence == TableSpec => []PresenceIffPinned
<1>1. TableInv => PresenceIffPinned
    BY Zenon DEF TableInv
<1> QED
    BY <1>1, TableAlways, PTL

\* The caller is told to free an object by the call that takes its last pin,
\* and by no other.
THEOREM TableFrees == TableSpec => FreedByLastDrop
<1>1. TableInv /\ [TableNext]_tableVars => [FreeStep]_tableVars
    BY TableStep, Zenon
<1> QED
    BY <1>1, TableAlways, PTL DEF TableSpec, FreedByLastDrop

-----------------------------------------------------------------------------
(***************************************************************************)
(* One object shared between drivers.                                      *)
(***************************************************************************)

\* A ref's own pin is all a replica's entry ever holds.
LEMMA OnePin ==
    /\ DecLocal(Untracked) = Untracked /\ ~DecLocalFrees(Untracked)
    /\ DecLocal(AddOwned(Untracked)) = Untracked /\ DecLocalFrees(AddOwned(Untracked))
<1>1. DecLocal(Untracked) = Untracked /\ ~DecLocalFrees(Untracked)
    BY Zenon DEF Untracked, DecLocal, DecLocalFrees
<1> DEFINE e == AddOwned(Untracked)
<1>2. e \in OwnerEntry /\ e.tracked /\ e.local = 1 /\ e.borrowers = {} /\ e.deps = 0
    BY OwnedFields, UntrackedFields
<1> HIDE DEF e
<1>3. WithoutLocal(e).local = 0 /\ WithoutLocal(e).borrowers = {} /\ WithoutLocal(e).deps = 0
    BY <1>2 DEF WithoutLocal, SaturatingDec
<1>4. DecLocal(e) = Untracked /\ DecLocalFrees(e)
    BY <1>2, <1>3, Zenon DEF DecLocal, DecLocalFrees, Settle, IsUnpinned
<1> QED
    BY <1>1, <1>4, Zenon DEF e

-----------------------------------------------------------------------------
(***************************************************************************)
(* The inductive invariant.                                                *)
(***************************************************************************)

Exists == made \in {"put", "result"}

Getting == {"gate", "locate", "pull", "notfound", "seal", "register", "registering", "resolve"}
Fetched == {"register", "registering", "resolve"}
Dropping == {"free", "forget", "notify", "notifying"}

\* A call: its caller waits for it, or it was reported failed.
CallOK(c) ==
    /\ c.waiting => proc[c.from].at = IF c.op = "register" THEN "registering" ELSE "notifying"
    /\ ~c.waiting => c.step # "done" /\ ~NoFault({"late", "gone"}, c.from)
    /\ c.op = "register" => Exists
    /\ c.step \in {"free", "forget"} => doomed

CallsOK ==
    /\ \A c \in calls : CallOK(c)
    /\ \A c, d \in calls : c.waiting /\ d.waiting /\ c.from = d.from => c = d

\* A node: what its Python side is doing, and what it has.
PlaceOK(n) ==
    /\ n = Owner => proc[n].at \in {"idle", "free", "forget"}
    /\ n # Owner => proc[n].at # "forget"
    /\ proc[n].at \in Getting => held[n]
    /\ proc[n].at \in Dropping => ~held[n]
    /\ proc[n].at \in Fetched \cup {"seal"} \/ copy[n] \/ n \in dir => Exists
    /\ NoFault({"push"}, n) /\ (copy[n] \/ proc[n].at \in Fetched) => index[n]
    /\ n = Owner /\ proc[n].at \in {"free", "forget"} => doomed

\* The owner: until its table says free it has the object, listed and pinned.
TableOK ==
    /\ EntryOK(entry[Owner]) /\ entry[Owner].deps = 0 /\ entry[Owner].local <= 1
    /\ entry[Owner].tracked \/ doomed => Exists
    /\ Exists /\ ~doomed /\ NoFault({"gone"}, Owner) => entry[Owner].tracked
    /\ Exists /\ ~doomed /\ NoFault({"evict", "gone"}, Owner) => copy[Owner] /\ Owner \in dir

\* A node whose registration counts: it has its ref, and the owner its pin.
BackedOK(b) ==
    NoFault({"late", "gone"}, b) =>
        /\ held[b]
        /\ NoFault({"gone"}, Owner) => b \in entry[Owner].borrowers /\ ~doomed

\* The rest holds while nothing has gone wrong.  The owner: what is left of a
\* freed object has a step on its way that takes it.
OwnerExact ==
    /\ doomed /\ copy[Owner] => proc[Owner].at = "free" \/ \E c \in calls : c.step = "free"
    /\ doomed /\ Owner \in dir =>
          proc[Owner].at \in {"free", "forget"} \/ \E c \in calls : c.step \in {"free", "forget"}
    /\ made = "put" /\ entry[Owner].local > 0 => held[Owner]
    /\ index[Owner] => copy[Owner]

\* A borrower: replica, entry, ref and directory agree but for the step it is in.
BorrowerExact(b) ==
    /\ index[b] => copy[b]
    /\ copy[b] /\ proc[b].at # "free" => held[b] /\ entry[b] = AddOwned(Untracked)
    /\ ~copy[b] \/ proc[b].at = "free" => entry[b] = Untracked
    /\ proc[b].at \notin {"register", "registering"} \cup Dropping => (b \in dir <=> copy[b])
    /\ proc[b].at \in Fetched => copy[b]
    /\ proc[b].at \in {"notify", "notifying"} => ~copy[b]
    /\ proc[b].at = "idle" /\ ~held[b] => b \notin entry[Owner].borrowers

\* A call: what it has done so far.
CallExact(c) ==
    /\ c.step # "directory" => (c.from \in dir <=> c.op = "register")
    /\ c.op = "removed" /\ c.step \notin {"directory", "pin"} => c.from \notin entry[Owner].borrowers

Exact ==
    /\ up = Nodes
    /\ OwnerExact
    /\ \A b \in Borrowers : BorrowerExact(b)
    /\ \A c \in calls : CallExact(c)

Inv ==
    /\ TypeOK
    /\ CallsOK
    /\ \A n \in Nodes : PlaceOK(n)
    /\ TableOK
    /\ \A b \in backed : BackedOK(b)
    /\ faults = {} => Exact

-----------------------------------------------------------------------------
(***************************************************************************)
(* Types.                                                                  *)
(***************************************************************************)

ProcRec == [at : Places, holder : Nodes]

\* TypeOK, its three Boolean functions spelled out.
LEMMA Types ==
    TypeOK <=>
        /\ made \in {"fresh", "put", "pending", "result"} /\ doomed \in BOOLEAN
        /\ held \in [Nodes -> BOOLEAN] /\ copy \in [Nodes -> BOOLEAN] /\ index \in [Nodes -> BOOLEAN]
        /\ entry \in [Nodes -> OwnerEntry]
        /\ dir \subseteq Nodes /\ up \subseteq Nodes /\ backed \subseteq Borrowers
        /\ proc \in [Nodes -> ProcRec]
        /\ calls \subseteq CallRec
        /\ faults \subseteq FaultKinds \X Nodes
BY Zenon DEF TypeOK, ProcRec

\* The owner is a node and no borrower.
LEMMA Members == Owner \in Nodes /\ Borrowers \subseteq Nodes /\ Owner \notin Borrowers
BY TransferAssumption, Zenon DEF Nodes

\* A node goes to p.
LEMMA Goes ==
    ASSUME TypeOK, NEW n \in Nodes, NEW p \in Places, Goto(n, p)
    PROVE  /\ proc' \in [Nodes -> ProcRec]
           /\ proc'[n].at = p /\ \A m \in Nodes : m # n => proc'[m] = proc[m]
<1>1. [Idle EXCEPT !.at = p] = [at |-> p, holder |-> Owner]
    BY DEF Idle
<1>2. [at |-> p, holder |-> Owner] \in ProcRec
    BY Members, Zenon DEF ProcRec
<1> QED
    BY <1>1, <1>2, Types, Zenon DEF Goto

\* A call is replaced by the same call at its next step, or is over.
LEMMA ServedCalls ==
    ASSUME TypeOK, NEW c \in calls, NEW p \in {"pin", "free", "forget", "done"}, Served(c, p)
    PROVE  \E d \in CallRec :
              /\ d.op = c.op /\ d.from = c.from /\ d.step = p /\ d.waiting = c.waiting
              /\ calls' = IF p = "done" /\ ~c.waiting THEN calls \ {c} ELSE (calls \ {c}) \cup {d}
<1> DEFINE d == [c EXCEPT !.step = p]
<1>1. c \in CallRec
    BY Types, Zenon
<1>2. d \in CallRec /\ d.op = c.op /\ d.from = c.from /\ d.step = p /\ d.waiting = c.waiting
    BY <1>1, Zenon DEF CallRec
<1>3. calls' = (calls \ {c}) \cup (IF p = "done" /\ ~c.waiting THEN {} ELSE {d})
    BY Zenon DEF Served
<1> HIDE DEF d
<1> QED
    BY <1>2, <1>3, Zenon

\* A call to the owner's raylet is well-formed.
LEMMA SentCall ==
    ASSUME NEW b \in Borrowers, NEW op \in {"register", "removed"}
    PROVE  [op |-> op, from |-> b, step |-> "directory", waiting |-> TRUE] \in CallRec
BY Zenon DEF CallRec

\* A fault is recorded for good.
LEMMA FaultType ==
    ASSUME TypeOK, NEW n \in Nodes, NEW k \in FaultKinds, Fault(k, n)
    PROVE  /\ faults' \subseteq FaultKinds \X Nodes /\ faults \subseteq faults'
           /\ <<k, n>> \in faults' /\ faults' = faults \cup {<<k, n>>}
BY DEF Fault, TypeOK

\* seal_value_to_plasma and free_unpinned touch one node.
LEMMA SealedLocal ==
    ASSUME TypeOK, NEW n \in Nodes, SealLocal(n)
    PROVE  /\ copy' \in [Nodes -> BOOLEAN] /\ index' \in [Nodes -> BOOLEAN]
           /\ entry' \in [Nodes -> OwnerEntry]
           /\ copy'[n] /\ index'[n] /\ entry'[n] = AddOwned(entry[n])
           /\ \A m \in Nodes : m # n =>
                 copy'[m] = copy[m] /\ index'[m] = index[m] /\ entry'[m] = entry[m]
<1>1. AddOwned(entry[n]) \in OwnerEntry
    BY OwnedFields, Types, Zenon
<1>2. copy' = [copy EXCEPT ![n] = TRUE] /\ index' = [index EXCEPT ![n] = TRUE]
    BY Zenon DEF SealLocal
<1>3. entry' = [entry EXCEPT ![n] = AddOwned(entry[n])]
    BY Zenon DEF SealLocal
<1>4. /\ entry' \in [Nodes -> OwnerEntry] /\ entry'[n] = AddOwned(entry[n])
      /\ \A m \in Nodes : m # n => entry'[m] = entry[m]
    BY <1>1, <1>3, Types, Zenon
<1> QED
    BY <1>2, <1>4, Types, Zenon

\* delete_local takes the copy and the entry of one node.
LEMMA DeletedLocal ==
    ASSUME TypeOK, NEW n \in Nodes, DeleteLocal(n)
    PROVE  /\ copy' \in [Nodes -> BOOLEAN] /\ index' \in [Nodes -> BOOLEAN]
           /\ ~copy'[n] /\ ~index'[n]
           /\ \A m \in Nodes : m # n => copy'[m] = copy[m] /\ index'[m] = index[m]
BY Types, Zenon DEF DeleteLocal

-----------------------------------------------------------------------------
(***************************************************************************)
(* What a step leaves alone.                                               *)
(***************************************************************************)

\* Nothing is unmade or unfreed, and no fault is forgotten.
Onward == (Exists => Exists') /\ (doomed => doomed') /\ faults \subseteq faults'

SameAt(n) ==
    /\ proc'[n] = proc[n] /\ held'[n] = held[n] /\ copy'[n] = copy[n] /\ index'[n] = index[n]
    /\ n \in dir' <=> n \in dir

\* A node that a step leaves alone.
LEMMA PlaceStays ==
    ASSUME Onward, NEW n, SameAt(n), PlaceOK(n)
    PROVE  PlaceOK(n)'
BY Zenon DEF Onward, SameAt, PlaceOK, NoFault

\* A call whose caller a step leaves alone.
LEMMA CallStays ==
    ASSUME Onward, NEW c, c.waiting => proc'[c.from].at = proc[c.from].at, CallOK(c)
    PROVE  CallOK(c)'
BY Zenon DEF Onward, CallOK, NoFault

\* A registered borrower whose ref and pin a step leaves alone.
LEMMA BackedStays ==
    ASSUME Onward, NEW b, BackedOK(b), held'[b] = held[b], doomed' = doomed,
           b \in entry[Owner].borrowers => b \in entry'[Owner].borrowers
    PROVE  BackedOK(b)'
BY Zenon DEF Onward, BackedOK, NoFault

\* A borrower that a step leaves alone keeps its bookkeeping exact.
LEMMA BorrowerStays ==
    ASSUME NEW b, SameAt(b), entry'[b] = entry[b], BorrowerExact(b),
           b \in entry'[Owner].borrowers => b \in entry[Owner].borrowers
    PROVE  BorrowerExact(b)'
BY Zenon DEF SameAt, BorrowerExact

\* A call keeps what it has done while nobody undoes it.
LEMMA CallExactStays ==
    ASSUME NEW c, CallExact(c), c.from \in dir' <=> c.from \in dir,
           c.from \in entry'[Owner].borrowers => c.from \in entry[Owner].borrowers
    PROVE  CallExact(c)'
BY Zenon DEF CallExact

\* The steps in which no call begins, moves on or ends.
LEMMA CallsStay ==
    ASSUME Onward, CallsOK, calls' = calls,
           \A c \in calls : c.waiting => proc'[c.from].at = proc[c.from].at
    PROVE  CallsOK'
<1>1. \A c \in calls' : CallOK(c)'
    BY CallStays, Zenon DEF CallsOK
<1> QED
    BY <1>1, Zenon DEF CallsOK

\* Nobody waits for a call but in the two places for it.
LEMMA NotWaiting ==
    ASSUME CallsOK, NEW n, proc[n].at \notin {"registering", "notifying"}, NEW c \in calls
    PROVE  ~(c.waiting /\ c.from = n)
BY Zenon DEF CallsOK, CallOK

\* A step that leaves the owner's entry, copy and listing alone.
LEMMA TableStays ==
    ASSUME TableOK, Onward, UNCHANGED <<made, doomed>>, entry'[Owner] = entry[Owner],
           copy'[Owner] = copy[Owner], Owner \in dir' <=> Owner \in dir
    PROVE  TableOK'
BY Zenon DEF TableOK, Onward, Exists, NoFault

\* No step on its way that takes what is left of a freed object gets lost.
Pending == \A c \in calls : c.step \in {"free", "forget"} => c \in calls'

\* A step that leaves the owner alone keeps the steps that clear it on their way.
LEMMA OwnerStays ==
    ASSUME OwnerExact, SameAt(Owner), UNCHANGED <<made, doomed>>, Pending,
           entry'[Owner].local = entry[Owner].local
    PROVE  OwnerExact'
<1>1. (\E c \in calls : c.step = "free") => \E c \in calls' : c.step = "free"
    BY Zenon DEF Pending
<1>2. (\E c \in calls : c.step \in {"free", "forget"}) => \E c \in calls' : c.step \in {"free", "forget"}
    BY Zenon DEF Pending
<1> QED
    BY <1>1, <1>2, Zenon DEF OwnerExact, SameAt

-----------------------------------------------------------------------------
(***************************************************************************)
(* get.                                                                    *)
(***************************************************************************)

\* Steps of a get that only look.
LEMMA Walks ==
    ASSUME Inv, NEW n \in Borrowers, NEW r \in ProcRec, proc' = [proc EXCEPT ![n] = r],
           UNCHANGED <<state, calls, history>>, held[n],
           proc[n].at \in {"idle", "gate", "locate", "pull", "notfound", "resolve"},
           r.at \in {"idle", "gate", "locate", "pull", "notfound", "seal"}, r.at = "seal" => Exists
    PROVE  Inv'
<1>1. /\ proc' \in [Nodes -> ProcRec] /\ proc'[n] = r
      /\ \A m \in Nodes : m # n => proc'[m] = proc[m]
    BY Members, Types, Zenon DEF Inv
<1>2. TypeOK'
    BY Zenon DEF Inv, TypeOK, ProcRec, state, history
<1>3. Onward /\ Pending
    BY Zenon DEF Onward, Exists, state, history, Pending
<1>4. CallsOK'
    <2>1. \A c \in calls : c.from \in Nodes /\ ~(c.waiting /\ c.from = n)
        BY NotWaiting, Members, Types, Zenon DEF Inv, CallRec
    <2> QED
        BY <1>1, <1>3, <2>1, CallsStay, Zenon DEF Inv
<1>5. \A m \in Nodes : m # n => SameAt(m)
    BY <1>1, Zenon DEF SameAt, state
<1>6. ASSUME NEW m \in Nodes PROVE PlaceOK(m)'
    <2>1. CASE m # n
        BY <1>3, <1>5, <2>1, PlaceStays, Zenon DEF Inv
    <2>2. CASE m = n
        BY <1>1, <2>2, Members, Zenon DEF Inv, PlaceOK, Fetched, Dropping, Exists, NoFault, state,
                                          history
    <2> QED
        BY <2>1, <2>2, Zenon
<1>7. TableOK'
    BY <1>3, TableStays, Zenon DEF Inv, state, history
<1>8. \A b \in backed' : BackedOK(b)'
    BY <1>3, BackedStays, Zenon DEF Inv, state, history
<1>9. ASSUME faults' = {} PROVE Exact'
    <2>1. Exact
        BY <1>9, Zenon DEF Inv, history
    <2>2. OwnerExact'
        BY <1>3, <1>5, <2>1, Members, OwnerStays, Zenon DEF Exact, state, history
    <2>3. ASSUME NEW b \in Borrowers PROVE BorrowerExact(b)'
        <3>1. CASE b # n
            BY <1>5, <2>1, <3>1, BorrowerStays, Members, Zenon DEF Exact, state
        <3>2. CASE b = n
            BY <1>1, <2>1, <3>2, Zenon DEF Exact, BorrowerExact, Fetched, Dropping, state
        <3> QED
            BY <3>1, <3>2, Zenon
    <2>4. \A c \in calls' : CallExact(c)'
        BY <2>1, CallExactStays, Zenon DEF Exact, state
    <2> QED
        BY <2>1, <2>2, <2>3, <2>4, Zenon DEF Exact, state
<1> QED
    BY <1>2, <1>4, <1>6, <1>7, <1>8, <1>9, Zenon DEF Inv

\* A step of a get that moves nothing but its caller.
LEMMA WalksTo ==
    ASSUME Inv, NEW n \in Borrowers, NEW p \in {"idle", "gate", "locate", "notfound", "seal"}, Goto(n, p),
           UNCHANGED <<state, calls, history>>, held[n], p = "seal" => Exists,
           proc[n].at \in {"idle", "gate", "locate", "pull", "notfound", "resolve"}
    PROVE  Inv'
<1> DEFINE r == [at |-> p, holder |-> Owner]
<1>1. [Idle EXCEPT !.at = p] = r /\ r.at = p
    BY DEF Idle
<1>2. r \in ProcRec
    BY Members, Zenon DEF ProcRec, Places
<1>3. proc' = [proc EXCEPT ![n] = r]
    BY <1>1, Zenon DEF Goto
<1> HIDE DEF r
<1> QED
    BY <1>1, <1>2, <1>3, Walks, Zenon

\* Only borrowers fetch; who fetches has the ref.
LEMMA Getter ==
    ASSUME Inv, NEW n \in Nodes, proc[n].at \in Getting \cup {"notify", "notifying"}
    PROVE  n \in Borrowers /\ (proc[n].at \in Getting => held[n])
BY Zenon DEF Inv, PlaceOK, Getting, Nodes

\* The steps of a get that only look.
LEMMA LookKeeps ==
    ASSUME Inv, NEW n \in Nodes,
           \/ Get(n) \/ Gate(n) \/ Locate(n) \/ NoHolder(n) \/ ReadFails(n) \/ Pull(n)
           \/ NotFoundRaises(n) \/ Resolve(n)
    PROVE  Inv'
<1>1. CASE Get(n)
    BY <1>1, WalksTo, Zenon DEF Get, At, Nodes
<1>2. CASE Gate(n)
    BY <1>2, WalksTo, Getter, Zenon DEF Gate, At, Getting
<1>3. CASE Locate(n)
    <2>1. n \in Borrowers /\ held[n] /\ proc[n].at = "locate" /\ UNCHANGED <<state, calls, history>>
        BY <1>3, Getter, Zenon DEF Locate, At, Getting
    <2>2. PICK h \in Candidates(n) : proc' = [proc EXCEPT ![n] = [at |-> "pull", holder |-> h]]
        BY <1>3, Zenon DEF Locate
    <2>3. [at |-> "pull", holder |-> h] \in ProcRec
        BY Zenon DEF Candidates, ProcRec, Places, Inv, TypeOK
    <2> QED
        BY <2>1, <2>2, <2>3, Walks, Zenon
<1>4. CASE NoHolder(n)
    BY <1>4, WalksTo, Getter, Zenon DEF NoHolder, At, Getting
<1>5. CASE ReadFails(n)
    BY <1>5, WalksTo, Getter, Zenon DEF ReadFails, At, Getting
<1>6. CASE Pull(n)
    <2>1. n \in Borrowers /\ held[n] /\ proc[n].at = "pull" /\ UNCHANGED <<state, calls, history>>
        BY <1>6, Getter, Zenon DEF Pull, At, Getting
    <2>2. proc[n].holder \in Nodes
        BY Types, Zenon DEF Inv, ProcRec
    <2>3. copy[proc[n].holder] => Exists
        BY <2>2, Zenon DEF Inv, PlaceOK
    <2>4. CASE copy[proc[n].holder]
        BY <1>6, <2>1, <2>3, WalksTo, Zenon DEF Pull
    <2>5. CASE ~copy[proc[n].holder]
        BY <1>6, <2>1, <2>5, WalksTo, Zenon DEF Pull
    <2> QED
        BY <2>4, <2>5, Zenon
<1>7. CASE NotFoundRaises(n)
    BY <1>7, WalksTo, Getter, Zenon DEF NotFoundRaises, At, Getting
<1>8. CASE Resolve(n)
    BY <1>8, WalksTo, Getter, Zenon DEF Resolve, At, Getting
<1> QED
    BY <1>1, <1>2, <1>3, <1>4, <1>5, <1>6, <1>7, <1>8, Zenon

\* The replica is stored, indexed and pinned.
LEMMA SealKeeps == ASSUME Inv, NEW n \in Nodes, Seal(n) PROVE Inv'
<1>1. /\ n \in Borrowers /\ held[n] /\ proc[n].at = "seal" /\ Exists
      /\ UNCHANGED <<made, held, dir, up, calls, history>>
    BY Getter, Zenon DEF Seal, At, Getting, Inv, PlaceOK
<1>2. /\ proc' \in [Nodes -> ProcRec] /\ proc'[n].at = "register"
      /\ \A m \in Nodes : m # n => proc'[m] = proc[m]
    BY Goes, Zenon DEF Seal, Places, Inv
<1>3. /\ copy' \in [Nodes -> BOOLEAN] /\ index' \in [Nodes -> BOOLEAN] /\ entry' \in [Nodes -> OwnerEntry]
      /\ copy'[n] /\ (copy[n] => index'[n] = index[n] /\ entry'[n] = entry[n])
      /\ ~copy[n] => index'[n] /\ entry'[n] = AddOwned(entry[n])
      /\ \A m \in Nodes : m # n => copy'[m] = copy[m] /\ index'[m] = index[m] /\ entry'[m] = entry[m]
    <2>1. CASE copy[n]
        BY <2>1, Types, Zenon DEF Seal, Inv
    <2>2. CASE ~copy[n]
        BY <2>2, SealedLocal, Zenon DEF Seal, Inv
    <2> QED
        BY <2>1, <2>2, Zenon
<1>4. TypeOK'
    BY <1>1, <1>2, <1>3, Zenon DEF Inv, TypeOK, ProcRec, history
<1>5. Onward /\ Pending /\ \A m \in Nodes : m # n => SameAt(m)
    BY <1>1, <1>2, <1>3, Zenon DEF Onward, Exists, history, Pending, SameAt
<1>6. CallsOK'
    <2>1. \A c \in calls : c.from \in Nodes /\ ~(c.waiting /\ c.from = n)
        BY <1>1, NotWaiting, Members, Types, Zenon DEF Inv, CallRec
    <2> QED
        BY <1>1, <1>2, <1>5, <2>1, CallsStay, Zenon DEF Inv
<1>7. ASSUME NEW m \in Nodes PROVE PlaceOK(m)'
    <2>1. CASE m # n
        BY <1>5, <2>1, PlaceStays, Zenon DEF Inv
    <2>2. CASE m = n
        BY <1>1, <1>2, <1>3, <2>2, Zenon DEF Inv, PlaceOK, Dropping, Exists, NoFault, history
    <2> QED
        BY <2>1, <2>2, Zenon
<1>8. TableOK'
    BY <1>1, <1>3, <1>5, Members, TableStays, Zenon DEF Inv, history
<1>9. \A b \in backed' : BackedOK(b)'
    BY <1>1, <1>3, <1>5, Members, BackedStays, Zenon DEF Inv, history
<1>10. ASSUME faults' = {} PROVE Exact'
    <2>1. Exact
        BY <1>1, <1>10, Zenon DEF Inv, history
    <2>2. OwnerExact'
        BY <1>1, <1>3, <1>5, <2>1, Members, OwnerStays, Zenon DEF Exact, history
    <2>3. ASSUME NEW b \in Borrowers PROVE BorrowerExact(b)'
        <3>1. CASE b # n
            <4>1. SameAt(b) /\ entry'[b] = entry[b] /\ entry'[Owner] = entry[Owner] /\ BorrowerExact(b)
                BY <1>1, <1>3, <1>5, <2>1, <3>1, Members, Zenon DEF Exact
            <4> QED
                BY <4>1, BorrowerStays, Zenon
        <3>2. CASE b = n
            BY <1>1, <1>2, <1>3, <2>1, <3>2, Zenon DEF Exact, BorrowerExact
        <3> QED
            BY <3>1, <3>2, Zenon
    <2>4. \A c \in calls' : CallExact(c)'
        BY <1>1, <1>3, <2>1, Members, CallExactStays, Zenon DEF Exact
    <2> QED
        BY <1>1, <2>1, <2>2, <2>3, <2>4, Zenon DEF Exact
<1> QED
    BY <1>4, <1>6, <1>7, <1>8, <1>9, <1>10, Zenon DEF Inv

-----------------------------------------------------------------------------
(***************************************************************************)
(* Calls, at the caller.                                                   *)
(***************************************************************************)

\* A borrower moves, with its call.
LEMMA CallerMoves ==
    ASSUME Inv, NEW n \in Borrowers, NEW p \in Places, Goto(n, p), UNCHANGED <<state, history>>,
           calls' \subseteq CallRec, CallsOK', PlaceOK(n)',
           Exact => Pending /\ BorrowerExact(n)' /\ \A c \in calls' : CallExact(c)'
    PROVE  Inv'
<1>1. proc' \in [Nodes -> ProcRec] /\ \A m \in Nodes : m # n => proc'[m] = proc[m]
    BY Goes, Members DEF Inv
<1>2. TypeOK'
    BY <1>1, Zenon DEF Inv, TypeOK, ProcRec, state, history
<1>3. Onward /\ \A m \in Nodes : m # n => SameAt(m)
    BY <1>1, Zenon DEF Onward, Exists, state, history, SameAt
<1>4. \A m \in Nodes : PlaceOK(m)'
    BY <1>3, PlaceStays, Zenon DEF Inv
<1>5. TableOK'
    BY <1>3, TableStays, Zenon DEF Inv, state, history
<1>6. \A b \in backed' : BackedOK(b)'
    BY <1>3, BackedStays, Zenon DEF Inv, state, history
<1>7. ASSUME faults' = {} PROVE Exact'
    <2>1. Exact
        BY <1>7, Zenon DEF Inv, history
    <2>2. OwnerExact'
        BY <1>3, <2>1, Members, OwnerStays, Zenon DEF Exact, state, history
    <2>3. \A b \in Borrowers : b # n => BorrowerExact(b)'
        BY <1>3, <2>1, BorrowerStays, Members, Zenon DEF Exact, state
    <2> QED
        BY <2>1, <2>2, <2>3, Zenon DEF Exact, state
<1> QED
    BY <1>2, <1>4, <1>5, <1>6, <1>7, Zenon DEF Inv

\* register_object_at and notify_owner_of_drop.
LEMMA SendKeeps ==
    ASSUME Inv, NEW n \in Borrowers, NEW op \in {"register", "removed"},
           Send(n, op, IF op = "register" THEN "registering" ELSE "notifying"), UNCHANGED <<state, history>>,
           proc[n].at = IF op = "register" THEN "register" ELSE "notify"
    PROVE  Inv'
<1> DEFINE d == [op |-> op, from |-> n, step |-> "directory", waiting |-> TRUE]
           p == IF op = "register" THEN "registering" ELSE "notifying"
<1>1. d \in CallRec /\ d.op = op /\ d.from = n /\ d.step = "directory" /\ d.waiting
    BY SentCall, Zenon
<1>2. p \in Places /\ Goto(n, p) /\ calls' = calls \cup {d}
    BY Zenon DEF Places, Send
<1> HIDE DEF d
<1>3. proc'[n].at = p /\ \A m \in Nodes : m # n => proc'[m] = proc[m]
    BY <1>2, Goes, Members DEF Inv
<1>4. \A c \in calls : c.from \in Nodes /\ ~(c.waiting /\ c.from = n)
    <2>1. proc[n].at \notin {"registering", "notifying"}
        BY Zenon
    <2> QED
        BY NotWaiting, Members, Types, Zenon DEF Inv, CallRec
<1>5. Onward
    BY Zenon DEF Onward, Exists, state, history
<1>6. CallsOK'
    <2>1. \A c \in calls : CallOK(c)'
        BY <1>3, <1>4, <1>5, CallStays, Zenon DEF Inv, CallsOK
    <2>2. CallOK(d)'
        <3>1. op = "register" => Exists'
            BY Members, Zenon DEF Inv, PlaceOK, Fetched, Exists, state
        <3> QED
            BY <1>1, <1>3, <3>1, Zenon DEF CallOK
    <2> QED
        BY <1>1, <1>2, <1>4, <2>1, <2>2 DEF Inv, CallsOK
<1>7. PlaceOK(n)'
    BY <1>3, Members, Zenon DEF Inv, PlaceOK, Getting, Fetched, Dropping, Exists, NoFault, state,
                                history
<1>8. ASSUME Exact PROVE Pending /\ BorrowerExact(n)' /\ \A c \in calls' : CallExact(c)'
    <2>1. Pending
        BY <1>2, Zenon DEF Pending
    <2>2. BorrowerExact(n)'
        BY <1>3, <1>8, Zenon DEF Exact, BorrowerExact, Fetched, Dropping, state
    <2>3. CallExact(d)'
        BY <1>1, Zenon DEF CallExact
    <2> QED
        BY <1>2, <1>8, <2>1, <2>2, <2>3, CallExactStays, Zenon DEF Exact, state
<1>9. calls' \subseteq CallRec
    BY <1>1, <1>2, Types, Zenon DEF Inv
<1> QED
    BY <1>2, <1>6, <1>7, <1>8, <1>9, CallerMoves, Zenon

\* The owner cannot be reached: the fetch fails, the drop is over.
LEMMA GivesUp ==
    ASSUME Inv, NEW n \in Borrowers, Goto(n, "idle"), UNCHANGED <<state, calls, history>>,
           proc[n].at \in {"register", "notify"}, Owner \notin up
    PROVE  Inv'
<1>1. "idle" \in Places
    BY Zenon DEF Places
<1>2. proc'[n].at = "idle" /\ \A m \in Nodes : m # n => proc'[m] = proc[m]
    BY <1>1, Goes, Members, Zenon DEF Inv
<1>3. Onward
    BY Zenon DEF Onward, Exists, state, history
<1>4. CallsOK'
    <2>1. \A c \in calls : c.from \in Nodes /\ ~(c.waiting /\ c.from = n)
        BY NotWaiting, Members, Types, Zenon DEF Inv, CallRec
    <2> QED
        BY <1>2, <1>3, <2>1, CallsStay, Zenon DEF Inv
<1>5. PlaceOK(n)'
    BY <1>2, Members, Zenon DEF Inv, PlaceOK, Getting, Fetched, Dropping, Exists, NoFault, state,
                                history
<1>6. ~Exact
    BY Members, Zenon DEF Exact
<1>7. calls' \subseteq CallRec
    BY Types, Zenon DEF Inv
<1> QED
    BY <1>1, <1>4, <1>5, <1>6, <1>7, CallerMoves, Zenon

\* The steps that send a call to the owner.
LEMMA RegisterKeeps == ASSUME Inv, NEW n \in Nodes, Register(n) \/ Notify(n) PROVE Inv'
<1>1. CASE Register(n)
    <2>1. n \in Borrowers /\ proc[n].at = "register" /\ UNCHANGED <<state, history>>
        BY <1>1, Getter, Zenon DEF Register, At, Getting
    <2> QED
        BY <1>1, <2>1, SendKeeps, GivesUp, Zenon DEF Register
<1>2. CASE Notify(n)
    <2>1. n \in Borrowers /\ proc[n].at = "notify" /\ UNCHANGED <<state, history>>
        BY <1>2, Getter, Zenon DEF Notify, At
    <2> QED
        BY <1>2, <2>1, SendKeeps, GivesUp, Zenon DEF Notify
<1> QED
    BY <1>1, <1>2, Zenon

\* The reply: the directory and the owner's table are up to date by then.
LEMMA ReplyKeeps == ASSUME Inv, NEW c \in calls, Reply(c) PROVE Inv'
<1> DEFINE p == IF c.op = "register" THEN "resolve" ELSE "idle"
<1>1. /\ c.from \in Borrowers /\ c.from \in Nodes /\ c.op \in {"register", "removed"}
      /\ c.step = "done" /\ c.waiting /\ UNCHANGED <<state, history>>
    BY Members, Types, Zenon DEF Inv, CallRec, Reply
<1>2. p \in Places /\ Goto(c.from, p) /\ calls' = calls \ {c}
    BY Zenon DEF Places, Reply
<1>3. proc'[c.from].at = p /\ \A m \in Nodes : m # c.from => proc'[m] = proc[m]
    BY <1>1, <1>2, Goes, Zenon DEF Inv
<1>4. Onward
    BY <1>1, Zenon DEF Onward, Exists, state, history
<1>5. \A e \in calls' : e \in calls /\ e.from \in Nodes /\ ~(e.waiting /\ e.from = c.from)
    BY <1>1, <1>2, Members, Types, Zenon DEF Inv, CallsOK, CallRec
<1>6. CallsOK'
    <2>1. \A e \in calls' : CallOK(e)'
        BY <1>3, <1>4, <1>5, CallStays, Zenon DEF Inv, CallsOK
    <2> QED
        BY <1>2, <2>1, Zenon DEF Inv, CallsOK
<1>7. proc[c.from].at = IF c.op = "register" THEN "registering" ELSE "notifying"
    BY <1>1, Zenon DEF Inv, CallsOK, CallOK
<1>8. PlaceOK(c.from)'
    BY <1>1, <1>3, <1>7, Zenon DEF Inv, PlaceOK, Getting, Fetched, Dropping, Exists, NoFault, state,
                                   history
<1>9. ASSUME Exact PROVE Pending /\ BorrowerExact(c.from)' /\ \A e \in calls' : CallExact(e)'
    <2>1. Pending
        BY <1>1, <1>2, Zenon DEF Pending
    <2>2. CallExact(c) /\ BorrowerExact(c.from)
        BY <1>1, <1>9, Zenon DEF Exact
    <2>3. BorrowerExact(c.from)'
        <3>1. CASE c.op = "register"
            BY <1>1, <1>3, <1>7, <2>2, Zenon DEF CallExact, BorrowerExact, Fetched, state
        <3>2. CASE c.op = "removed"
            BY <1>1, <1>3, <1>7, <2>2, Zenon DEF CallExact, BorrowerExact, Fetched, state
        <3> QED
            BY <1>1, <3>1, <3>2, Zenon
    <2> QED
        BY <1>1, <1>5, <1>9, <2>1, <2>3, CallExactStays, Zenon DEF Exact, state
<1>10. calls' \subseteq CallRec
    BY <1>2, Types, Zenon DEF Inv
<1> QED
    BY <1>1, <1>2, <1>6, <1>8, <1>9, <1>10, CallerMoves, Zenon

-----------------------------------------------------------------------------
(***************************************************************************)
(* The object appears, and refs to it.                                     *)
(***************************************************************************)

\* The owner stores, lists and pins an object that was not there before.
LEMMA Appears ==
    ASSUME Inv, ~Exists, made' \in {"put", "result"}, SealLocal(Owner), dir' = dir \cup {Owner},
           UNCHANGED <<proc, calls, up, history>>, held' \in [Nodes -> BOOLEAN],
           \A m \in Borrowers : held'[m] = held[m],
           held'[Owner] = held[Owner] \/ (held'[Owner] /\ proc[Owner].at = "idle"),
           made' = "put" => held'[Owner]
    PROVE  Inv'
<1>1. /\ copy' \in [Nodes -> BOOLEAN] /\ index' \in [Nodes -> BOOLEAN]
      /\ entry' \in [Nodes -> OwnerEntry]
      /\ copy'[Owner] /\ index'[Owner] /\ entry'[Owner] = AddOwned(entry[Owner])
      /\ \A m \in Nodes : m # Owner =>
            copy'[m] = copy[m] /\ index'[m] = index[m] /\ entry'[m] = entry[m]
    BY SealedLocal, Members, Zenon DEF Inv
<1>2. TypeOK'
    BY <1>1, Members, Zenon DEF Inv, TypeOK, history
<1>3. Onward /\ Pending /\ \A m \in Borrowers : SameAt(m)
    BY <1>1, Members, Zenon DEF Onward, history, Pending, SameAt
<1>4. CallsOK'
    BY <1>3, CallsStay, Zenon DEF Inv
<1>5. ~doomed /\ ~entry[Owner].tracked /\ entry[Owner] \in OwnerEntry
    BY Members, Types, Zenon DEF Inv, TableOK
<1>6. entry[Owner].local = 0 /\ entry[Owner].deps = 0 /\ entry[Owner].borrowers = {}
    BY Zenon DEF Inv, TableOK, EntryOK, Pinned, IsUnpinned
<1>7. /\ EntryOK(entry'[Owner]) /\ entry'[Owner].tracked /\ entry'[Owner].local = 1
      /\ entry'[Owner].deps = 0 /\ entry'[Owner].borrowers = {}
    BY <1>1, <1>5, <1>6, OwnedFields
<1>8. ASSUME NEW m \in Nodes PROVE PlaceOK(m)'
    <2>1. CASE m # Owner
        BY <1>3, <2>1, PlaceStays, Zenon DEF Inv, Nodes
    <2>2. CASE m = Owner
        BY <1>1, <2>2, Zenon DEF Inv, PlaceOK, Dropping, Exists, history
    <2> QED
        BY <2>1, <2>2, Zenon
<1>9. TableOK'
    BY <1>1, <1>7 DEF TableOK, Exists
<1>10. \A b \in backed' : BackedOK(b)'
    <2>1. backed' = backed /\ backed \subseteq Borrowers /\ doomed' = doomed
        BY Types, Zenon DEF Inv, history
    <2> QED
        BY <1>3, <1>6, <2>1, BackedStays, Zenon DEF Inv
<1>11. ASSUME faults' = {} PROVE Exact'
    <2>1. Exact
        BY <1>11, Zenon DEF Inv, history
    <2>2. OwnerExact'
        BY <1>1, <1>5, Zenon DEF OwnerExact, history
    <2>3. ASSUME NEW b \in Borrowers PROVE BorrowerExact(b)'
        BY <1>1, <1>3, <1>7, <2>1, BorrowerStays, Members, Zenon DEF Exact
    <2>4. \A c \in calls' : CallExact(c)'
        <3>1. \A c \in calls : c.from \in Borrowers
            BY Types, Zenon DEF Inv, CallRec
        <3> QED
            BY <1>7, <2>1, <3>1, Members, CallExactStays, Zenon DEF Exact
    <2> QED
        BY <2>1, <2>2, <2>3, <2>4, Zenon DEF Exact
<1> QED
    BY <1>2, <1>4, <1>8, <1>9, <1>10, <1>11, Zenon DEF Inv

\* The object appears, by a put or as the result of a remote call.
LEMMA PutKeeps == ASSUME Inv, Put \/ RecordPlasmaSeal PROVE Inv'
<1>1. CASE Put
    <2>1. /\ held' \in [Nodes -> BOOLEAN] /\ held'[Owner]
          /\ \A m \in Borrowers : held'[m] = held[m]
        BY <1>1, Members, Types, Zenon DEF Put, Inv
    <2> QED
        BY <1>1, <2>1, Appears, Zenon DEF Put, At, Exists
<1>2. CASE RecordPlasmaSeal
    <2>1. held' = held /\ held \in [Nodes -> BOOLEAN]
        BY <1>2, Types, Zenon DEF RecordPlasmaSeal, Inv
    <2> QED
        BY <1>2, <2>1, Appears, Zenon DEF RecordPlasmaSeal, Exists
<1> QED
    BY <1>1, <1>2, Zenon

\* A ref arrives; it pins nothing yet.
LEMMA ReceiveKeeps == ASSUME Inv, NEW n \in Nodes, Receive(n) PROVE Inv'
<1>1. /\ proc[n].at = "idle" /\ ~held[n]
      /\ UNCHANGED <<made, copy, index, entry, dir, proc, calls, up, history>>
    BY Zenon DEF Receive, At
<1>2. held' \in [Nodes -> BOOLEAN] /\ held'[n] /\ \A m \in Nodes : m # n => held'[m] = held[m]
    BY Types, Zenon DEF Inv, Receive
<1>3. TypeOK'
    BY <1>1, <1>2, Zenon DEF Inv, TypeOK, history
<1>4. Onward /\ Pending /\ \A m \in Nodes : m # n => SameAt(m)
    BY <1>1, <1>2, Zenon DEF Onward, Exists, history, Pending, SameAt
<1>5. CallsOK'
    BY <1>1, <1>4, CallsStay, Zenon DEF Inv
<1>6. ASSUME NEW m \in Nodes PROVE PlaceOK(m)'
    <2>1. CASE m # n
        BY <1>4, <2>1, PlaceStays, Zenon DEF Inv
    <2>2. CASE m = n
        BY <1>1, <2>2, Zenon DEF Inv, PlaceOK, Dropping, Exists, NoFault, history
    <2> QED
        BY <2>1, <2>2, Zenon
<1>7. TableOK'
    BY <1>1, <1>4, TableStays, Zenon DEF Inv, history
<1>8. \A b \in backed' : BackedOK(b)'
    <2>1. backed' = backed /\ backed \subseteq Nodes
        BY <1>1, Members, Types, Zenon DEF Inv, history
    <2>2. ASSUME NEW b \in backed PROVE BackedOK(b)'
        BY <1>1, <1>2, <2>1, Zenon DEF Inv, BackedOK, NoFault, history
    <2> QED
        BY <2>1, <2>2, Zenon
<1>9. ASSUME faults' = {} PROVE Exact'
    <2>1. Exact
        BY <1>1, <1>9, Zenon DEF Inv, history
    <2>2. OwnerExact'
        BY <1>1, <1>2, <2>1, Members, Zenon DEF Exact, OwnerExact, history
    <2>3. ASSUME NEW b \in Borrowers PROVE BorrowerExact(b)'
        BY <1>1, <1>2, <2>1, Members, Zenon DEF Exact, BorrowerExact
    <2>4. \A c \in calls' : CallExact(c)'
        BY <1>1, <2>1, CallExactStays, Zenon DEF Exact
    <2> QED
        BY <1>1, <2>1, <2>2, <2>3, <2>4, Zenon DEF Exact
<1> QED
    BY <1>3, <1>5, <1>6, <1>7, <1>8, <1>9, Zenon DEF Inv

-----------------------------------------------------------------------------
(***************************************************************************)
(* Dropping a ref.                                                         *)
(***************************************************************************)

\* What every drop does to its own node.
LEMMA Drops ==
    ASSUME Inv, NEW n \in Nodes, Drop(n)
    PROVE  /\ proc[n].at = "idle" /\ held[n] /\ entry[n] \in OwnerEntry
           /\ held' \in [Nodes -> BOOLEAN] /\ ~held'[n]
           /\ proc' \in [Nodes -> ProcRec]
           /\ proc'[n].at = IF DecLocalFrees(entry[n]) THEN "free" ELSE AfterDrop(n)
           /\ entry'[n] = DecLocal(entry[n])
           /\ \A m \in Nodes : m # n => SameAt(m) /\ entry'[m] = entry[m]
           /\ backed' = backed \ {n} /\ UNCHANGED <<made, copy, index, dir, up, calls, faults>>
           /\ \A c \in calls : c.from \in Nodes /\ ~(c.waiting /\ c.from = n)
<1> DEFINE p == IF DecLocalFrees(entry[n]) THEN "free" ELSE AfterDrop(n)
<1>1. /\ proc[n].at = "idle" /\ held[n] /\ backed' = backed \ {n} /\ Goto(n, p)
      /\ UNCHANGED <<made, copy, index, dir, up, calls, faults>>
      /\ held' = [held EXCEPT ![n] = FALSE] /\ entry' = [entry EXCEPT ![n] = DecLocal(entry[n])]
    BY Zenon DEF Drop, At
<1>2. p \in Places
    BY Zenon DEF Places, AfterDrop
<1>3. /\ proc' \in [Nodes -> ProcRec] /\ proc'[n].at = p
      /\ \A m \in Nodes : m # n => proc'[m] = proc[m]
    BY <1>1, <1>2, Goes, Zenon DEF Inv
<1>4. /\ held' \in [Nodes -> BOOLEAN] /\ ~held'[n] /\ \A m \in Nodes : m # n => held'[m] = held[m]
    BY <1>1, Types, Zenon DEF Inv
<1>5. /\ entry[n] \in OwnerEntry /\ entry'[n] = DecLocal(entry[n])
      /\ \A m \in Nodes : m # n => entry'[m] = entry[m]
    BY <1>1, Types, Zenon DEF Inv
<1>6. \A c \in calls : c.from \in Nodes /\ ~(c.waiting /\ c.from = n)
    BY <1>1, NotWaiting, Members, Types, Zenon DEF Inv, CallRec
<1>7. \A m \in Nodes : m # n => SameAt(m)
    BY <1>1, <1>3, <1>4, Zenon DEF SameAt
<1> QED
    BY <1>1, <1>3, <1>4, <1>5, <1>6, <1>7, Zenon

\* The owner drops its ref: its table says free if no borrower is left.
LEMMA OwnerDropKeeps == ASSUME Inv, Drop(Owner) PROVE Inv'
<1> DEFINE frees == DecLocalFrees(entry[Owner])
<1>0. Owner \in Nodes /\ AfterDrop(Owner) = "idle"
    BY Members, Zenon DEF AfterDrop
<1>1. /\ proc[Owner].at = "idle" /\ held[Owner] /\ entry[Owner] \in OwnerEntry
      /\ held' \in [Nodes -> BOOLEAN] /\ ~held'[Owner]
      /\ proc' \in [Nodes -> ProcRec]
      /\ proc'[Owner].at = IF frees THEN "free" ELSE "idle"
      /\ entry'[Owner] = DecLocal(entry[Owner])
      /\ \A m \in Nodes : m # Owner => SameAt(m) /\ entry'[m] = entry[m]
      /\ backed' = backed \ {Owner} /\ UNCHANGED <<made, copy, index, dir, up, calls, faults>>
      /\ \A c \in calls : c.from \in Nodes /\ ~(c.waiting /\ c.from = Owner)
    BY <1>0, Drops, Zenon
<1>2. doomed' = (doomed \/ frees)
    BY Zenon DEF Drop
<1>3. EntryOK(entry[Owner]) /\ entry[Owner].deps = 0 /\ entry[Owner].local <= 1
    BY Zenon DEF Inv, TableOK
<1>4. /\ entry'[Owner] \in OwnerEntry /\ EntryOK(entry'[Owner]) /\ entry'[Owner].local = 0
      /\ entry'[Owner].deps = 0 /\ entry'[Owner].borrowers = entry[Owner].borrowers
      /\ frees <=> entry[Owner].tracked /\ ~entry'[Owner].tracked
    <2>1. SaturatingDec(entry[Owner].local) = 0
        BY <1>1, <1>3 DEF SaturatingDec, OwnerEntry
    <2> QED
        BY <1>1, <1>3, <2>1, DecFields
<1> HIDE DEF frees
<1>5. TypeOK'
    <2>1. entry' \in [Nodes -> OwnerEntry]
        BY <1>4, Types, Zenon DEF Inv, Drop
    <2>2. doomed' \in BOOLEAN
        BY <1>2, Zenon
    <2> QED
        BY <1>1, <2>1, <2>2, Zenon DEF Inv, TypeOK, ProcRec
<1>6. Onward /\ Pending
    BY <1>1, <1>2, Zenon DEF Onward, Exists, Pending
<1>7. CallsOK'
    BY <1>1, <1>6, CallsStay, Zenon DEF Inv, SameAt
<1>8. ASSUME NEW m \in Nodes PROVE PlaceOK(m)'
    <2>1. CASE m # Owner
        BY <1>1, <1>6, <2>1, PlaceStays, Zenon DEF Inv
    <2>2. CASE m = Owner
        BY <1>1, <1>2, <2>2, Zenon DEF Inv, PlaceOK, Getting, Fetched, Exists, NoFault
    <2> QED
        BY <2>1, <2>2, Zenon
<1>9. TableOK'
    <2>1. entry'[Owner].tracked \/ doomed' => entry[Owner].tracked \/ doomed
        BY <1>2, <1>4, Zenon DEF EntryOK, Pinned, IsUnpinned, Inv, TableOK
    <2>2. ~doomed' /\ entry[Owner].tracked => ~doomed /\ entry'[Owner].tracked
        BY <1>2, <1>4, Zenon
    <2>3. ~doomed' => ~doomed
        BY <1>2, Zenon
    <2> QED
        BY <1>1, <1>4, <2>1, <2>2, <2>3 DEF Inv, TableOK, Exists, NoFault
<1>10. ASSUME NEW b \in backed' PROVE BackedOK(b)'
    <2>1. b \in Nodes /\ b # Owner /\ BackedOK(b)
        BY <1>1, Types, Members, Zenon DEF Inv
    <2>2. b \in entry[Owner].borrowers => ~frees
        BY <1>4, Zenon DEF EntryOK, Pinned, IsUnpinned
    <2> QED
        BY <1>1, <1>2, <1>4, <2>1, <2>2, Zenon DEF BackedOK, NoFault, SameAt
<1>11. ASSUME faults' = {} PROVE Exact'
    <2>1. Exact
        BY <1>1, <1>11, Zenon DEF Inv
    <2>2. OwnerExact'
        <3>1. doomed' => doomed \/ proc'[Owner].at = "free"
            BY <1>1, <1>2, Zenon
        <3> QED
            BY <1>1, <1>4, <2>1, <3>1 DEF Exact, OwnerExact
    <2>3. ASSUME NEW b \in Borrowers PROVE BorrowerExact(b)'
        BY <1>1, <1>4, <2>1, BorrowerStays, Members, Zenon DEF Exact
    <2>4. \A c \in calls' : CallExact(c)'
        BY <1>1, <1>4, <2>1, CallExactStays, Zenon DEF Exact
    <2> QED
        BY <1>1, <2>1, <2>2, <2>3, <2>4, Zenon DEF Exact
<1> QED
    BY <1>5, <1>7, <1>8, <1>9, <1>10, <1>11, Zenon DEF Inv

\* A borrower drops its ref: with a replica, it frees it.
LEMMA BorrowerDropKeeps == ASSUME Inv, NEW n \in Borrowers, Drop(n) PROVE Inv'
<1> DEFINE frees == DecLocalFrees(entry[n])
<1>0. n \in Nodes /\ AfterDrop(n) = "notify"
    BY Members, Zenon DEF AfterDrop
<1>1. /\ proc[n].at = "idle" /\ held[n] /\ entry[n] \in OwnerEntry
      /\ held' \in [Nodes -> BOOLEAN] /\ ~held'[n]
      /\ proc' \in [Nodes -> ProcRec]
      /\ proc'[n].at = IF frees THEN "free" ELSE "notify"
      /\ entry'[n] = DecLocal(entry[n])
      /\ \A m \in Nodes : m # n => SameAt(m) /\ entry'[m] = entry[m]
      /\ backed' = backed \ {n} /\ UNCHANGED <<made, copy, index, dir, up, calls, faults>>
      /\ \A c \in calls : c.from \in Nodes /\ ~(c.waiting /\ c.from = n)
    BY <1>0, Drops, Zenon
<1>2. doomed' = doomed
    BY Members, Types, Zenon DEF Drop, Inv
<1>3. DecLocal(entry[n]) \in OwnerEntry
    BY <1>1 DEF DecLocal, Settle, Untracked, WithoutLocal, SaturatingDec, OwnerEntry
<1>4. TypeOK'
    <2>1. entry' \in [Nodes -> OwnerEntry]
        BY <1>3, Types, Zenon DEF Inv, Drop
    <2> QED
        BY <1>1, <1>2, <2>1, Zenon DEF Inv, TypeOK, ProcRec
<1> HIDE DEF frees
<1>5. Onward /\ Pending /\ n \in Nodes /\ entry'[Owner] = entry[Owner] /\ SameAt(Owner)
    BY <1>1, <1>2, Members, Zenon DEF Onward, Exists, Pending
<1>6. CallsOK'
    BY <1>1, <1>5, CallsStay, Zenon DEF Inv, SameAt
<1>7. ASSUME NEW m \in Nodes PROVE PlaceOK(m)'
    <2>1. CASE m # n
        BY <1>1, <1>5, <2>1, PlaceStays, Zenon DEF Inv
    <2>2. CASE m = n
        BY <1>1, <2>2, Members, Zenon DEF Inv, PlaceOK, Getting, Fetched, Exists, NoFault
    <2> QED
        BY <2>1, <2>2, Zenon
<1>8. TableOK'
    BY <1>1, <1>2, <1>5, TableStays, Zenon DEF Inv
<1>9. ASSUME NEW b \in backed' PROVE BackedOK(b)'
    <2>1. b \in Nodes /\ b # n /\ BackedOK(b)
        BY <1>1, Types, Members, Zenon DEF Inv
    <2> QED
        BY <1>1, <1>2, <1>5, <2>1, BackedStays, Zenon DEF SameAt
<1>10. ASSUME faults' = {} PROVE Exact'
    <2>1. Exact
        BY <1>1, <1>10, Zenon DEF Inv
    <2>2. OwnerExact'
        BY <1>1, <1>2, <1>5, <2>1, OwnerStays, Zenon DEF Exact
    <2>3. ASSUME NEW b \in Borrowers PROVE BorrowerExact(b)'
        <3>1. CASE b # n
            BY <1>1, <2>1, <3>1, BorrowerStays, Members, Zenon DEF Exact
        <3>2. CASE b = n
            <4>1. BorrowerExact(n)
                BY <2>1, Zenon DEF Exact
            <4>2. entry'[n] = Untracked /\ (frees <=> copy[n])
                BY <1>1, <4>1, OnePin, Zenon DEF BorrowerExact, frees
            <4> QED
                BY <1>1, <3>2, <4>1, <4>2, Zenon DEF BorrowerExact, Fetched, Dropping
        <3> QED
            BY <3>1, <3>2, Zenon
    <2>4. \A c \in calls' : CallExact(c)'
        BY <1>1, <1>5, <2>1, CallExactStays, Zenon DEF Exact
    <2> QED
        BY <1>1, <2>1, <2>2, <2>3, <2>4, Zenon DEF Exact
<1> QED
    BY <1>4, <1>6, <1>7, <1>8, <1>9, <1>10, Zenon DEF Inv

\* free_unpinned takes what is there; at the owner the listing still follows.
LEMMA FreeKeeps == ASSUME Inv, NEW n \in Nodes, Free(n) PROVE Inv'
<1> DEFINE p == IF n = Owner THEN "forget" ELSE "notify"
<1>1. /\ proc[n].at = "free" /\ p \in Places /\ Goto(n, p)
      /\ UNCHANGED <<made, held, entry, dir, up, calls, history>>
    BY Zenon DEF Free, At, Places
<1>2. /\ proc' \in [Nodes -> ProcRec] /\ proc'[n].at = p
      /\ \A m \in Nodes : m # n => proc'[m] = proc[m]
    BY <1>1, Goes, Zenon DEF Inv
<1>3. /\ copy' \in [Nodes -> BOOLEAN] /\ index' \in [Nodes -> BOOLEAN] /\ ~copy'[n] /\ ~index'[n]
      /\ \A m \in Nodes : m # n => copy'[m] = copy[m] /\ index'[m] = index[m]
    BY DeletedLocal, Zenon DEF Free, Inv
<1>4. TypeOK'
    BY <1>1, <1>2, <1>3, Zenon DEF Inv, TypeOK, ProcRec, history
<1>5. Onward /\ Pending /\ \A m \in Nodes : m # n => SameAt(m)
    BY <1>1, <1>2, <1>3, Zenon DEF Onward, Exists, history, Pending, SameAt
<1>6. CallsOK'
    <2>1. \A c \in calls : c.from \in Nodes /\ ~(c.waiting /\ c.from = n)
        BY <1>1, NotWaiting, Members, Types, Zenon DEF Inv, CallRec
    <2> QED
        BY <1>1, <1>2, <1>5, <2>1, CallsStay, Zenon DEF Inv
<1>7. n = Owner => doomed
    BY <1>1, Zenon DEF Inv, PlaceOK
<1>8. ASSUME NEW m \in Nodes PROVE PlaceOK(m)'
    <2>1. CASE m # n
        BY <1>5, <2>1, PlaceStays, Zenon DEF Inv
    <2>2. CASE m = n
        BY <1>1, <1>2, <1>3, <2>2, Zenon DEF Inv, PlaceOK, Getting, Fetched, Dropping, Exists,
                                             history
    <2> QED
        BY <2>1, <2>2, Zenon
<1>9. TableOK'
    BY <1>1, <1>3, <1>7, Members, Zenon DEF Inv, TableOK, Exists, NoFault, history
<1>10. \A b \in backed' : BackedOK(b)'
    BY <1>1, <1>5, BackedStays, Zenon DEF Inv, history
<1>11. ASSUME faults' = {} PROVE Exact'
    <2>1. Exact
        BY <1>1, <1>11, Zenon DEF Inv, history
    <2>2. OwnerExact'
        BY <1>1, <1>2, <1>3, <2>1, Members, Zenon DEF Exact, OwnerExact, history
    <2>3. ASSUME NEW b \in Borrowers PROVE BorrowerExact(b)'
        <3>1. CASE b # n
            BY <1>1, <1>5, <2>1, <3>1, BorrowerStays, Members, Zenon DEF Exact
        <3>2. CASE b = n
            BY <1>1, <1>2, <1>3, <2>1, <3>2, Zenon DEF Exact, BorrowerExact, Fetched, Dropping
        <3> QED
            BY <3>1, <3>2, Zenon
    <2>4. \A c \in calls' : CallExact(c)'
        BY <1>1, <2>1, CallExactStays, Zenon DEF Exact
    <2> QED
        BY <1>1, <2>1, <2>2, <2>3, <2>4, Zenon DEF Exact
<1> QED
    BY <1>4, <1>6, <1>8, <1>9, <1>10, <1>11, Zenon DEF Inv

\* deregister_self.
LEMMA ForgetKeeps == ASSUME Inv, Forget PROVE Inv'
<1>1. /\ proc[Owner].at = "forget" /\ dir' = dir \ {Owner} /\ Goto(Owner, "idle") /\ "idle" \in Places
      /\ UNCHANGED <<made, held, copy, index, entry, up, calls, history>>
    BY Zenon DEF Forget, At, Places
<1>2. /\ proc' \in [Nodes -> ProcRec] /\ proc'[Owner].at = "idle"
      /\ \A m \in Nodes : m # Owner => proc'[m] = proc[m]
    BY <1>1, Goes, Members, Zenon DEF Inv
<1>3. TypeOK'
    BY <1>1, <1>2, Zenon DEF Inv, TypeOK, ProcRec, history
<1>4. Onward /\ Pending /\ \A m \in Nodes : m # Owner => SameAt(m)
    BY <1>1, <1>2, Zenon DEF Onward, Exists, history, Pending, SameAt
<1>5. \A c \in calls : c.from \in Nodes /\ c.from # Owner
    BY Members, Types, Zenon DEF Inv, CallRec
<1>6. CallsOK'
    BY <1>1, <1>2, <1>4, <1>5, CallsStay, Zenon DEF Inv
<1>7. doomed
    BY <1>1, Members, Zenon DEF Inv, PlaceOK
<1>8. ASSUME NEW m \in Nodes PROVE PlaceOK(m)'
    <2>1. CASE m # Owner
        BY <1>4, <2>1, PlaceStays, Zenon DEF Inv
    <2>2. CASE m = Owner
        BY <1>1, <1>2, Zenon DEF Inv, PlaceOK, Getting, Fetched, Dropping, Exists, NoFault, history
    <2> QED
        BY <2>1, <2>2, Zenon
<1>9. TableOK'
    BY <1>1, <1>7, Zenon DEF Inv, TableOK, Exists, history
<1>10. \A b \in backed' : BackedOK(b)'
    BY <1>1, <1>4, BackedStays, Zenon DEF Inv, history
<1>11. ASSUME faults' = {} PROVE Exact'
    <2>1. Exact
        BY <1>1, <1>11, Zenon DEF Inv, history
    <2>2. OwnerExact'
        BY <1>1, <2>1, Zenon DEF Exact, OwnerExact, history
    <2>3. ASSUME NEW b \in Borrowers PROVE BorrowerExact(b)'
        BY <1>1, <1>4, <2>1, BorrowerStays, Members, Zenon DEF Exact
    <2>4. \A c \in calls' : CallExact(c)'
        BY <1>1, <1>5, <2>1, CallExactStays, Zenon DEF Exact
    <2> QED
        BY <1>1, <2>1, <2>2, <2>3, <2>4, Zenon DEF Exact
<1> QED
    BY <1>3, <1>6, <1>8, <1>9, <1>10, <1>11, Zenon DEF Inv

-----------------------------------------------------------------------------
(***************************************************************************)
(* The handlers of the owner's raylet.                                     *)
(***************************************************************************)

\* A call moves on: what CallsOK says of it still holds.
LEMMA ServedOK ==
    ASSUME Inv, NEW c \in calls, NEW p \in {"pin", "free", "forget", "done"}, Served(c, p),
           UNCHANGED proc, Onward, p \in {"free", "forget"} => doomed'
    PROVE  calls' \subseteq CallRec /\ CallsOK'
<1>1. PICK d \in CallRec :
          /\ d.op = c.op /\ d.from = c.from /\ d.step = p /\ d.waiting = c.waiting
          /\ calls' = IF p = "done" /\ ~c.waiting THEN calls \ {c} ELSE (calls \ {c}) \cup {d}
    BY ServedCalls, Zenon DEF Inv
<1>2. \A e \in calls : CallOK(e)'
    BY CallStays, Zenon DEF Inv, CallsOK
<1>3. CASE p = "done" /\ ~c.waiting
    BY <1>1, <1>2, <1>3, Types, Zenon DEF Inv, CallsOK
<1>4. CASE ~(p = "done" /\ ~c.waiting)
    <2>1. CallOK(d)'
        BY <1>1, <1>2, <1>4, Zenon DEF CallOK
    <2>2. \A e \in calls \ {c} : ~(e.waiting /\ d.waiting /\ e.from = d.from)
        BY <1>1, Zenon DEF Inv, CallsOK
    <2>3. calls' = (calls \ {c}) \cup {d}
        BY <1>1, <1>4, Zenon
    <2>4. \A e \in calls' : CallOK(e)'
        BY <1>2, <2>1, <2>3, Zenon
    <2>5. \A e, f \in calls' : e.waiting /\ f.waiting /\ e.from = f.from => e = f
        BY <2>2, <2>3 DEF Inv, CallsOK
    <2>6. calls' \subseteq CallRec
        BY <2>3, Types, Zenon DEF Inv
    <2> QED
        BY <2>4, <2>5, <2>6, Zenon DEF CallsOK
<1> QED
    BY <1>3, <1>4, Zenon

\* The calls after a step of c, while nothing has gone wrong.
LEMMA ServedExact ==
    ASSUME Inv, faults = {}, Exact, NEW c \in calls, NEW p \in {"pin", "free", "forget", "done"},
           Served(c, p),
           \A e \in calls : e.from # c.from =>
               /\ e.from \in dir' <=> e.from \in dir
               /\ e.from \in entry'[Owner].borrowers => e.from \in entry[Owner].borrowers,
           c.from \in dir' <=> c.op = "register",
           c.op = "removed" /\ p # "pin" => c.from \notin entry'[Owner].borrowers
    PROVE  /\ \A e \in calls' : CallExact(e)'
           /\ \A e \in calls : e # c => e \in calls'
           /\ \E d \in calls' : d.step = p
<1>1. PICK d \in CallRec :
          /\ d.op = c.op /\ d.from = c.from /\ d.step = p /\ d.waiting = c.waiting
          /\ calls' = IF p = "done" /\ ~c.waiting THEN calls \ {c} ELSE (calls \ {c}) \cup {d}
    BY ServedCalls, Zenon DEF Inv
<1>2. c.waiting /\ \A e \in calls : e # c => e.from # c.from
    BY Zenon DEF Inv, CallsOK, CallOK, NoFault
<1>3. calls' = (calls \ {c}) \cup {d}
    BY <1>1, <1>2, Zenon
<1>4. CallExact(d)'
    BY <1>1, Zenon DEF CallExact
<1>5. \A e \in calls : e # c => CallExact(e)'
    BY <1>2, CallExactStays, Zenon DEF Exact
<1> QED
    BY <1>1, <1>3, <1>4, <1>5, Zenon

\* The directory's half of both calls.
LEMMA ServeDirectoryKeeps == ASSUME Inv, NEW c \in calls, ServeDirectory(c) PROVE Inv'
<1>1. /\ c.step = "directory" /\ Served(c, "pin")
      /\ dir' = IF c.op = "register" THEN dir \cup {c.from} ELSE dir \ {c.from}
      /\ UNCHANGED <<made, held, copy, index, entry, up, proc, history>>
    BY Zenon DEF ServeDirectory
<1>2. c.from \in Borrowers /\ c.from \in Nodes /\ c.from # Owner /\ c.op \in {"register", "removed"}
    BY Members, Types, Zenon DEF Inv, CallRec
<1>3. Onward
    BY <1>1, Zenon DEF Onward, Exists, history
<1>4. calls' \subseteq CallRec /\ CallsOK'
    BY <1>1, <1>3, ServedOK, Zenon
<1>5. dir' \subseteq Nodes
    BY <1>1, <1>2, Types, Zenon DEF Inv
<1>6. TypeOK'
    BY <1>1, <1>4, <1>5, Zenon DEF Inv, TypeOK, history
<1>7. \A m \in Nodes : m # c.from => SameAt(m)
    BY <1>1, Zenon DEF SameAt
<1>8. ASSUME NEW m \in Nodes PROVE PlaceOK(m)'
    <2>1. CASE m # c.from
        BY <1>3, <1>7, <2>1, PlaceStays, Zenon DEF Inv
    <2>2. CASE m = c.from
        <3>1. m \in dir' => m \in dir \/ Exists
            BY <1>1, Zenon DEF Inv, CallsOK, CallOK
        <3> QED
            BY <1>1, <2>2, <3>1, Zenon DEF Inv, PlaceOK, Exists, NoFault, history
    <2> QED
        BY <2>1, <2>2, Zenon
<1>9. TableOK'
    BY <1>1, <1>2, <1>3, TableStays, Zenon DEF Inv, history
<1>10. \A b \in backed' : BackedOK(b)'
    BY <1>1, <1>3, BackedStays, Zenon DEF Inv, history
<1>11. ASSUME faults' = {} PROVE Exact'
    <2>1. faults = {} /\ Exact
        BY <1>1, <1>11, Zenon DEF Inv, history
    <2>2. /\ \A e \in calls' : CallExact(e)'
          /\ \A e \in calls : e # c => e \in calls'
        BY <1>1, <2>1, ServedExact, Zenon
    <2>3. OwnerExact'
        BY <1>1, <1>2, <1>7, <2>1, <2>2, Members, OwnerStays, Zenon DEF Exact, Pending, history
    <2>4. c.waiting /\ proc[c.from].at \in {"registering", "notifying"}
        BY <2>1, Zenon DEF Inv, CallsOK, CallOK, NoFault
    <2>5. ASSUME NEW b \in Borrowers PROVE BorrowerExact(b)'
        <3>1. CASE b # c.from
            BY <1>1, <1>7, <2>1, <3>1, BorrowerStays, Members, Zenon DEF Exact
        <3>2. CASE b = c.from
            BY <1>1, <2>1, <2>4, Zenon DEF Exact, BorrowerExact, Dropping
        <3> QED
            BY <3>1, <3>2, Zenon
    <2> QED
        BY <1>1, <2>1, <2>2, <2>3, <2>5, Zenon DEF Exact
<1> QED
    BY <1>4, <1>6, <1>8, <1>9, <1>10, <1>11, Zenon DEF Inv

\* The owner's entry changes, and nothing at any node.
LEMMA SameEverywhere ==
    ASSUME UNCHANGED <<held, copy, index, dir, proc>>
    PROVE  \A m \in Nodes : SameAt(m)
BY Zenon DEF SameAt

\* sink.add_borrower.
LEMMA AddPinKeeps == ASSUME Inv, NEW c \in calls, AddPin(c) PROVE Inv'
<1>1. /\ c.op = "register" /\ c.step = "pin" /\ Served(c, "done")
      /\ entry' = [entry EXCEPT ![Owner] = AddBorrower(entry[Owner], c.from)]
      /\ backed' = IF doomed THEN backed ELSE backed \cup {c.from}
      /\ UNCHANGED <<made, held, copy, index, dir, up, proc, doomed, faults>>
    BY Zenon DEF AddPin
<1>2. c.from \in Borrowers /\ c.from \in Nodes /\ c.from # Owner /\ entry[Owner] \in OwnerEntry
    BY Members, Types, Zenon DEF Inv, CallRec
<1> DEFINE e1 == AddBorrower(entry[Owner], c.from)
<1>3. /\ e1 \in OwnerEntry /\ EntryOK(e1) /\ e1.tracked
      /\ e1.local = entry[Owner].local /\ e1.deps = entry[Owner].deps
      /\ e1.borrowers = entry[Owner].borrowers \cup {c.from}
    BY <1>2, BorrowerFields
<1>4. /\ entry' \in [Nodes -> OwnerEntry] /\ entry'[Owner] = e1
      /\ \A m \in Nodes : m # Owner => entry'[m] = entry[m]
    BY <1>1, <1>3, Members, Types, Zenon DEF Inv
<1> HIDE DEF e1
<1>5. Onward /\ \A m \in Nodes : SameAt(m)
    BY <1>1, SameEverywhere, Zenon DEF Onward, Exists
<1>6. calls' \subseteq CallRec /\ CallsOK'
    BY <1>1, <1>5, ServedOK, Zenon
<1>7. TypeOK'
    <2>1. backed' \subseteq Borrowers
        BY <1>1, <1>2, Types, Zenon DEF Inv
    <2> QED
        BY <1>1, <1>4, <1>6, <2>1, Zenon DEF Inv, TypeOK
<1>8. \A m \in Nodes : PlaceOK(m)'
    BY <1>5, PlaceStays, Zenon DEF Inv
<1>9. Exists /\ CallOK(c)
    BY <1>1, Zenon DEF Inv, CallsOK, CallOK
<1>10. TableOK'
    BY <1>1, <1>3, <1>4, <1>9, Zenon DEF Inv, TableOK, Exists, NoFault
<1>11. ASSUME NEW b \in backed' PROVE BackedOK(b)'
    <2>1. CASE b \in backed
        BY <1>1, <1>3, <1>4, <1>5, <2>1, BackedStays, Zenon DEF Inv
    <2>2. CASE b \notin backed
        <3>1. b = c.from /\ ~doomed /\ b \in entry'[Owner].borrowers
            BY <1>1, <1>3, <1>4, <2>2, Zenon
        <3>2. NoFault({"late", "gone"}, b) => held[b]
            BY <1>1, <1>2, <1>9, <3>1, Zenon DEF CallOK, Inv, PlaceOK, Getting
        <3> QED
            BY <1>1, <3>1, <3>2, Zenon DEF BackedOK, NoFault
    <2> QED
        BY <2>1, <2>2, Zenon
<1>12. ASSUME faults' = {} PROVE Exact'
    <2>1. faults = {} /\ Exact
        BY <1>1, <1>12, Zenon DEF Inv
    <2>2. c.waiting /\ proc[c.from].at = "registering" /\ c.from \in dir
        BY <1>1, <1>9, <2>1, Zenon DEF CallOK, NoFault, Exact, CallExact
    <2>3. /\ \A e \in calls' : CallExact(e)'
          /\ \A e \in calls : e # c => e \in calls'
        BY <1>1, <1>3, <1>4, <2>1, <2>2, ServedExact, Zenon
    <2>4. OwnerExact'
        BY <1>1, <1>3, <1>4, <1>5, <2>1, <2>3, Members, OwnerStays, Zenon DEF Exact, Pending
    <2>5. ASSUME NEW b \in Borrowers PROVE BorrowerExact(b)'
        <3>1. b \in Nodes /\ SameAt(b) /\ entry'[b] = entry[b] /\ BorrowerExact(b)
            BY <1>4, <1>5, <2>1, Members, Zenon DEF Exact
        <3>2. CASE b # c.from
            BY <1>3, <1>4, <3>1, <3>2, BorrowerStays, Zenon
        <3>3. CASE b = c.from
            BY <1>1, <2>2, <3>1, <3>3, Zenon DEF BorrowerExact
        <3> QED
            BY <3>2, <3>3, Zenon
    <2> QED
        BY <1>1, <2>1, <2>3, <2>4, <2>5, Zenon DEF Exact
<1> QED
    BY <1>6, <1>7, <1>8, <1>10, <1>11, <1>12, Zenon DEF Inv

\* sink.remove_borrower: a node whose registration counts is not the one removed.
LEMMA PinRemovalKeeps == ASSUME Inv, NEW c \in calls, RemovePin(c) PROVE Inv'
<1> DEFINE frees == RemoveBorrowerFrees(entry[Owner], c.from)
           e1 == RemoveBorrower(entry[Owner], c.from)
           p == IF frees THEN "free" ELSE "done"
<1>1. /\ c.op = "removed" /\ c.step = "pin" /\ Served(c, p) /\ p \in {"free", "done"}
      /\ entry' = [entry EXCEPT ![Owner] = e1]
      /\ UNCHANGED <<made, held, copy, index, dir, up, proc, backed, faults>>
    BY Zenon DEF RemovePin
<1>2. doomed' = (doomed \/ frees)
    BY Zenon DEF RemovePin
<1>3. c.from \in Borrowers /\ c.from \in Nodes /\ c.from # Owner /\ entry[Owner] \in OwnerEntry
    BY Members, Types, Zenon DEF Inv, CallRec
<1>4. EntryOK(entry[Owner])
    BY Zenon DEF Inv, TableOK
<1>5. /\ e1 \in OwnerEntry /\ EntryOK(e1)
      /\ e1.local = entry[Owner].local /\ e1.deps = entry[Owner].deps
      /\ e1.borrowers = entry[Owner].borrowers \ {c.from}
      /\ frees <=> entry[Owner].tracked /\ ~e1.tracked
    BY <1>3, <1>4, RemoveFields, Zenon
<1>6. /\ entry' \in [Nodes -> OwnerEntry] /\ entry'[Owner] = e1
      /\ \A m \in Nodes : m # Owner => entry'[m] = entry[m]
    BY <1>1, <1>5, Members, Types, Zenon DEF Inv
<1>7. p = "free" <=> frees
    BY Zenon
<1> HIDE DEF e1, frees, p
<1>8. Onward /\ \A m \in Nodes : SameAt(m)
    BY <1>1, <1>2, SameEverywhere, Zenon DEF Onward, Exists
<1>9. calls' \subseteq CallRec /\ CallsOK'
    <2>1. p \in {"free", "forget"} => doomed'
        BY <1>1, <1>2, <1>7, Zenon
    <2> QED
        BY <1>1, <1>8, <2>1, ServedOK, Zenon
<1>10. TypeOK'
    <2>1. doomed' \in BOOLEAN
        BY <1>2, Zenon
    <2> QED
        BY <1>1, <1>6, <1>9, <2>1, Zenon DEF Inv, TypeOK
<1>11. \A m \in Nodes : PlaceOK(m)'
    BY <1>8, PlaceStays, Zenon DEF Inv
<1>12. TableOK'
    <2>1. e1.tracked \/ doomed' => entry[Owner].tracked \/ doomed
        BY <1>2, <1>4, <1>5, Zenon DEF EntryOK, Pinned, IsUnpinned
    <2>2. ~doomed' /\ entry[Owner].tracked => ~doomed /\ e1.tracked
        BY <1>2, <1>5, Zenon
    <2>3. ~doomed' => ~doomed
        BY <1>2, Zenon
    <2> QED
        BY <1>1, <1>5, <1>6, <2>1, <2>2, <2>3, Zenon DEF Inv, TableOK, Exists, NoFault
<1>13. ASSUME NEW b \in backed' PROVE BackedOK(b)'
    <2>1. b \in backed /\ BackedOK(b) /\ b \in Nodes
        BY <1>1, Types, Members, Zenon DEF Inv
    <2>2. NoFault({"late", "gone"}, b) => b # c.from
        BY <1>1, <1>3, ZenonT(30) DEF Inv, CallsOK, CallOK, PlaceOK, Dropping, BackedOK
    <2>3. b \in entry[Owner].borrowers /\ b # c.from => b \in e1.borrowers /\ ~frees
        BY <1>5, Zenon DEF EntryOK, Pinned, IsUnpinned
    <2> QED
        BY <1>1, <1>2, <1>6, <2>1, <2>2, <2>3, Zenon DEF BackedOK, NoFault
<1>14. ASSUME faults' = {} PROVE Exact'
    <2>1. faults = {} /\ Exact
        BY <1>1, <1>14, Zenon DEF Inv
    <2>2. c.from \notin dir
        BY <1>1, <2>1, Zenon DEF Exact, CallExact
    <2>3. /\ \A e \in calls' : CallExact(e)'
          /\ \A e \in calls : e # c => e \in calls'
          /\ \E d \in calls' : d.step = p
        BY <1>1, <1>5, <1>6, <2>1, <2>2, ServedExact
    <2>4. OwnerExact'
        <3>1. CASE frees
            <4>1. \E d \in calls' : d.step = "free"
                BY <1>7, <2>3, <3>1, Zenon
            <4> QED
                BY <1>1, <1>5, <1>6, <2>1, <4>1, Zenon DEF Exact, OwnerExact
        <3>2. CASE ~frees
            BY <1>1, <1>2, <1>5, <1>8, <2>1, <2>3, <3>2, Members, Types, OwnerStays, Zenon DEF
                   Exact, Pending, Inv
        <3> QED
            BY <3>1, <3>2, Zenon
    <2>5. ASSUME NEW b \in Borrowers PROVE BorrowerExact(b)'
        BY <1>5, <1>6, <1>8, <2>1, Members, BorrowerStays, Zenon DEF Exact
    <2> QED
        BY <1>1, <2>1, <2>3, <2>4, <2>5, Zenon DEF Exact
<1> QED
    BY <1>9, <1>10, <1>11, <1>12, <1>13, <1>14, Zenon DEF Inv

\* free_unpinned on behalf of a handler.
LEMMA ServeFreeKeeps == ASSUME Inv, NEW c \in calls, ServeFree(c) PROVE Inv'
<1>1. /\ c.step = "free" /\ Served(c, "forget")
      /\ UNCHANGED <<made, held, entry, dir, up, proc, history>>
    BY Zenon DEF ServeFree
<1>2. /\ copy' \in [Nodes -> BOOLEAN] /\ index' \in [Nodes -> BOOLEAN] /\ ~copy'[Owner] /\ ~index'[Owner]
      /\ \A m \in Nodes : m # Owner => copy'[m] = copy[m] /\ index'[m] = index[m]
    BY DeletedLocal, Members, Zenon DEF ServeFree, Inv
<1>3. doomed /\ Onward /\ \A m \in Nodes : m # Owner => SameAt(m)
    BY <1>1, <1>2, Zenon DEF Onward, Exists, history, SameAt, Inv, CallsOK, CallOK
<1>4. calls' \subseteq CallRec /\ CallsOK'
    BY <1>1, <1>3, ServedOK, Zenon DEF history
<1>5. TypeOK'
    BY <1>1, <1>2, <1>4, Zenon DEF Inv, TypeOK, history
<1>6. ASSUME NEW m \in Nodes PROVE PlaceOK(m)'
    <2>1. CASE m # Owner
        BY <1>3, <2>1, PlaceStays, Zenon DEF Inv
    <2>2. CASE m = Owner
        BY <1>1, <1>2, Zenon DEF Inv, PlaceOK, Getting, Fetched, Dropping, Exists, NoFault, history
    <2> QED
        BY <2>1, <2>2, Zenon
<1>7. TableOK'
    BY <1>1, <1>3, Zenon DEF Inv, TableOK, Exists, history
<1>8. \A b \in backed' : BackedOK(b)'
    BY <1>1, <1>3, BackedStays, Zenon DEF Inv, history
<1>9. ASSUME faults' = {} PROVE Exact'
    <2>1. faults = {} /\ Exact /\ CallExact(c)
        BY <1>1, <1>9, Zenon DEF Inv, Exact, history
    <2>2. /\ \A e \in calls' : CallExact(e)'
          /\ \A e \in calls : e # c => e \in calls'
          /\ \E d \in calls' : d.step = "forget"
        BY <1>1, <2>1, ServedExact, Zenon DEF CallExact
    <2>3. OwnerExact'
        BY <1>1, <1>2, <2>1, <2>2, Zenon DEF Exact, OwnerExact
    <2>4. ASSUME NEW b \in Borrowers PROVE BorrowerExact(b)'
        BY <1>1, <1>3, <2>1, Members, BorrowerStays, Zenon DEF Exact
    <2> QED
        BY <1>1, <2>1, <2>2, <2>3, <2>4, Zenon DEF Exact
<1> QED
    BY <1>4, <1>5, <1>6, <1>7, <1>8, <1>9, Zenon DEF Inv

\* deregister_self on behalf of a handler.
LEMMA ServeForgetKeeps == ASSUME Inv, NEW c \in calls, ServeForget(c) PROVE Inv'
<1>1. /\ c.step = "forget" /\ Served(c, "done") /\ dir' = dir \ {Owner}
      /\ UNCHANGED <<made, held, copy, index, entry, up, proc, history>>
    BY Zenon DEF ServeForget
<1>2. doomed /\ Onward /\ \A m \in Nodes : m # Owner => SameAt(m)
    BY <1>1, Zenon DEF Onward, Exists, history, SameAt, Inv, CallsOK, CallOK
<1>3. calls' \subseteq CallRec /\ CallsOK'
    BY <1>1, <1>2, ServedOK, Zenon
<1>4. TypeOK'
    BY <1>1, <1>3, Zenon DEF Inv, TypeOK, history
<1>5. ASSUME NEW m \in Nodes PROVE PlaceOK(m)'
    <2>1. CASE m # Owner
        BY <1>2, <2>1, PlaceStays, Zenon DEF Inv
    <2>2. CASE m = Owner
        BY <1>1, Zenon DEF Inv, PlaceOK, Exists, NoFault, history
    <2> QED
        BY <2>1, <2>2, Zenon
<1>6. TableOK'
    BY <1>1, <1>2, Zenon DEF Inv, TableOK, Exists, history
<1>7. \A b \in backed' : BackedOK(b)'
    BY <1>1, <1>2, BackedStays, Zenon DEF Inv, history
<1>8. ASSUME faults' = {} PROVE Exact'
    <2>1. faults = {} /\ Exact /\ CallExact(c)
        BY <1>1, <1>8, Zenon DEF Inv, Exact, history
    <2>2. \A e \in calls : e.from # Owner
        BY Types, Members, Zenon DEF Inv, CallRec
    <2>3. /\ \A e \in calls' : CallExact(e)'
          /\ \A e \in calls : e # c => e \in calls'
        BY <1>1, <2>1, <2>2, ServedExact, Zenon DEF CallExact
    <2>4. OwnerExact'
        <3>1. (\E e \in calls : e.step = "free") => \E e \in calls' : e.step = "free"
            BY <1>1, <2>3, Zenon
        <3> QED
            BY <1>1, <2>1, <3>1, Zenon DEF Exact, OwnerExact, history
    <2>5. ASSUME NEW b \in Borrowers PROVE BorrowerExact(b)'
        BY <1>1, <1>2, <2>1, Members, BorrowerStays, Zenon DEF Exact
    <2> QED
        BY <1>1, <2>1, <2>3, <2>4, <2>5, Zenon DEF Exact
<1> QED
    BY <1>3, <1>4, <1>5, <1>6, <1>7, <1>8, Zenon DEF Inv

-----------------------------------------------------------------------------
(***************************************************************************)
(* Faults: Exact has nothing to say after one.                             *)
(***************************************************************************)

\* A call is lost, or goes on without its caller.
LEMMA CallFailsKeeps == ASSUME Inv, NEW c \in calls, CallFails(c) PROVE Inv'
<1>1. /\ c.from \in Borrowers /\ c.from \in Nodes /\ c.waiting /\ c.step = "directory" /\ c \in CallRec
      /\ UNCHANGED <<state, doomed, backed>> /\ Goto(c.from, "idle") /\ "idle" \in Places
    BY Members, Types, Zenon DEF Inv, CallRec, CallFails, Places
<1>2. /\ proc' \in [Nodes -> ProcRec] /\ proc'[c.from].at = "idle"
      /\ \A m \in Nodes : m # c.from => proc'[m] = proc[m]
    BY <1>1, Goes, Zenon DEF Inv
<1> DEFINE d == [c EXCEPT !.waiting = FALSE]
<1>3. d \in CallRec /\ d.op = c.op /\ d.from = c.from /\ d.step = c.step /\ ~d.waiting
    BY <1>1, Zenon DEF CallRec
<1>4. PICK k \in {"lost", "late"} :
          Fault(k, c.from) /\ calls' = IF k = "lost" THEN calls \ {c} ELSE (calls \ {c}) \cup {d}
    BY Zenon DEF CallFails
<1> HIDE DEF d
<1>5. faults' \subseteq FaultKinds \X Nodes /\ faults \subseteq faults' /\ <<k, c.from>> \in faults'
    <2>1. k \in FaultKinds
        BY Zenon DEF FaultKinds
    <2> QED
        BY <1>1, <1>4, <2>1, FaultType, Zenon DEF Inv
<1>6. Onward /\ \A m \in Nodes : m # c.from => SameAt(m)
    BY <1>1, <1>2, <1>5, Zenon DEF Onward, Exists, state, SameAt
<1>7. \A e \in calls \ {c} : e \in CallRec /\ e.from \in Nodes /\ (e.waiting => e.from # c.from)
    BY <1>1, Members, Types, Zenon DEF Inv, CallsOK, CallRec
<1>8. \A e \in calls \ {c} : CallOK(e)'
    BY <1>2, <1>6, <1>7, CallStays, Zenon DEF Inv, CallsOK
<1>9. CallsOK'
    <2>1. ASSUME k = "late" PROVE CallOK(d)'
        <3>1. ~NoFault({"late", "gone"}, c.from)'
            BY <1>5, <2>1, Zenon DEF NoFault
        <3>2. CallOK(c)
            BY Zenon DEF Inv, CallsOK
        <3> QED
            BY <1>1, <1>3, <1>6, <3>1, <3>2, Zenon DEF CallOK, Onward
    <2>2. \A e, f \in calls' : e.waiting /\ f.waiting /\ e.from = f.from => e = f
        BY <1>3, <1>4, Zenon DEF Inv, CallsOK
    <2> QED
        BY <1>4, <1>8, <2>1, <2>2, Zenon DEF CallsOK
<1>10. TypeOK'
    <2>1. calls' \subseteq CallRec
        BY <1>3, <1>4, <1>7, Zenon
    <2> QED
        BY <1>1, <1>2, <1>5, <2>1, Zenon DEF Inv, TypeOK, ProcRec, state
<1>11. ASSUME NEW m \in Nodes PROVE PlaceOK(m)'
    <2>1. CASE m # c.from
        BY <1>6, <2>1, PlaceStays, Zenon DEF Inv
    <2>2. CASE m = c.from
        BY <1>1, <1>2, <1>5, <2>2, Zenon DEF Inv, PlaceOK, Getting, Fetched, Dropping, Exists,
                                             NoFault, state
    <2> QED
        BY <2>1, <2>2, Zenon
<1>12. TableOK'
    BY <1>1, <1>6, TableStays, Zenon DEF Inv, state
<1>13. \A b \in backed' : BackedOK(b)'
    BY <1>1, <1>6, BackedStays, Zenon DEF Inv, state
<1> QED
    BY <1>5, <1>9, <1>10, <1>11, <1>12, <1>13, Zenon DEF Inv

\* A copy comes or goes behind the drivers' back.
LEMMA CopyKeeps == ASSUME Inv, NEW n \in Nodes, Push(n) \/ Evict(n) PROVE Inv'
<1>1. UNCHANGED <<made, held, index, entry, dir, up, proc, calls, doomed, backed>>
    BY Zenon DEF Push, Evict
<1>2. copy' \in [Nodes -> BOOLEAN] /\ \A m \in Nodes : m # n => copy'[m] = copy[m]
    BY Types, Zenon DEF Push, Evict, Inv
<1>3. PICK k \in {"push", "evict"} : Fault(k, n) /\ (k = "push" => Exists) /\ (k = "evict" => ~copy'[n])
    BY Types, Zenon DEF Push, Evict, Exists, Inv
<1>4. faults' \subseteq FaultKinds \X Nodes /\ faults \subseteq faults' /\ <<k, n>> \in faults'
    <2>1. k \in FaultKinds
        BY Zenon DEF FaultKinds
    <2> QED
        BY <1>3, <2>1, FaultType, Zenon DEF Inv
<1>5. Onward /\ \A m \in Nodes : m # n => SameAt(m)
    BY <1>1, <1>2, <1>4, Zenon DEF Onward, Exists, SameAt
<1>6. TypeOK'
    BY <1>1, <1>2, <1>4 DEF Inv, TypeOK
<1>7. CallsOK'
    BY <1>1, <1>5, CallsStay, Zenon DEF Inv
<1>8. ASSUME NEW m \in Nodes PROVE PlaceOK(m)'
    <2>1. CASE m # n
        BY <1>5, <2>1, PlaceStays, Zenon DEF Inv
    <2>2. CASE m = n /\ k = "push"
        BY <1>1, <1>3, <1>4, <2>2, Zenon DEF Inv, PlaceOK, Exists, NoFault
    <2>3. CASE m = n /\ k = "evict"
        BY <1>1, <1>3, <1>4, <2>3, Zenon DEF Inv, PlaceOK, Exists, NoFault
    <2> QED
        BY <2>1, <2>2, <2>3, Zenon
<1>9. TableOK'
    <2>1. NoFault({"evict", "gone"}, Owner)' => NoFault({"evict", "gone"}, Owner) /\ (copy[Owner] => copy'[Owner])
        <3>1. CASE n # Owner
            BY <1>2, <1>4, <3>1, Members, Zenon DEF NoFault
        <3>2. CASE n = Owner /\ k = "evict"
            BY <1>4, <3>2, Zenon DEF NoFault
        <3>3. CASE n = Owner /\ k = "push"
            <4>1. Push(n) \/ <<"evict", n>> \in faults'
                BY Zenon DEF Evict, Fault
            <4>2. Push(n) => copy'[n]
                BY Types, Zenon DEF Push, Inv
            <4> QED
                BY <1>4, <3>3, <4>1, <4>2, Zenon DEF NoFault
        <3> QED
            BY <3>1, <3>2, <3>3, Zenon
    <2> QED
        BY <1>1, <1>4, <2>1, Zenon DEF Inv, TableOK, Exists, NoFault
<1>10. \A b \in backed' : BackedOK(b)'
    BY <1>1, <1>5, BackedStays, Zenon DEF Inv
<1> QED
    BY <1>4, <1>6, <1>7, <1>8, <1>9, <1>10, Zenon DEF Inv

\* A node is gone, with all it had; nobody waits for an owner that is gone.
LEMMA LeaveKeeps == ASSUME Inv, NEW n \in Nodes, Leave(n) PROVE Inv'
<1>1. UNCHANGED <<made, doomed, backed>> /\ Fault("gone", n) /\ up' = up \ {n}
    BY Zenon DEF Leave
<1>2. faults' \subseteq FaultKinds \X Nodes /\ faults \subseteq faults' /\ <<"gone", n>> \in faults'
    <2>1. "gone" \in FaultKinds
        BY Zenon DEF FaultKinds
    <2> QED
        BY <1>1, <2>1, FaultType, Zenon DEF Inv
<1>3. Onward
    BY <1>1, <1>2, Zenon DEF Onward, Exists
<1>4. /\ held' \in [Nodes -> BOOLEAN] /\ copy' \in [Nodes -> BOOLEAN] /\ index' \in [Nodes -> BOOLEAN]
      /\ ~held'[n] /\ ~copy'[n] /\ ~index'[n]
      /\ \A m \in Nodes : m # n => held'[m] = held[m] /\ copy'[m] = copy[m] /\ index'[m] = index[m]
    BY Types, Zenon DEF Leave, Inv
<1>5. /\ entry' \in [Nodes -> OwnerEntry] /\ entry'[n] = Untracked
      /\ \A m \in Nodes : m # n => entry'[m] = entry[m]
    BY Types, UntrackedFields, Zenon DEF Leave, Inv
<1>6. dir' = IF n = Owner THEN {} ELSE dir
    BY Zenon DEF Leave
<1> DEFINE Stops(m) == m = n \/ (n = Owner /\ proc[m].at \in {"registering", "notifying"})
<1>7. \A m \in Nodes : proc'[m] = IF Stops(m) THEN Idle ELSE proc[m]
    BY Zenon DEF Leave
<1>8. Idle \in ProcRec /\ Idle.at = "idle"
    BY Members, Zenon DEF Idle, ProcRec, Places
<1>9. proc' \in [Nodes -> ProcRec]
    BY <1>8, Types, Zenon DEF Inv, Leave
<1>10. /\ calls' \subseteq CallRec
       /\ n = Owner => calls' = {}
       /\ n # Owner => \A e \in calls' : \E c \in calls :
             /\ e.op = c.op /\ e.from = c.from /\ e.step = c.step
             /\ c.from # n => e = c
             /\ c.from = n => ~e.waiting /\ c.step # "done"
    <2>1. CASE n = Owner
        BY <2>1, Zenon DEF Leave
    <2>2. CASE n # Owner
        <3>1. calls' = {[c EXCEPT !.waiting = @ /\ c.from # n] :
                            c \in {c \in calls : c.from # n \/ c.step # "done"}}
            BY <2>2, Zenon DEF Leave
        <3>2. ASSUME NEW e \in calls'
              PROVE  /\ e \in CallRec
                     /\ \E c \in calls :
                           /\ e.op = c.op /\ e.from = c.from /\ e.step = c.step
                           /\ c.from # n => e = c
                           /\ c.from = n => ~e.waiting /\ c.step # "done"
            <4>1. PICK c \in calls : /\ c.from # n \/ c.step # "done"
                                     /\ e = [c EXCEPT !.waiting = c.waiting /\ c.from # n]
                BY <3>1, <3>2, Zenon
            <4>2. c \in CallRec
                BY Types, Zenon DEF Inv
            <4>3. CASE c.from # n
                <5>1. [c EXCEPT !.waiting = c.waiting /\ c.from # n] = c
                    BY <4>2, <4>3, Zenon DEF CallRec
                <5> QED
                    BY <4>1, <4>2, <4>3, <5>1, Zenon
            <4>4. CASE c.from = n
                BY <4>1, <4>2, Zenon DEF CallRec
            <4> QED
                BY <4>3, <4>4, Zenon
        <3> QED
            BY <2>2, <3>2, Zenon
    <2> QED
        BY <2>1, <2>2, Zenon
<1>11. TypeOK'
    <2>1. dir' \subseteq Nodes /\ up' \subseteq Nodes
        BY <1>1, <1>6, Types, Zenon DEF Inv
    <2> QED
        BY <1>1, <1>2, <1>4, <1>5, <1>9, <1>10, <2>1, Zenon DEF Inv, TypeOK, ProcRec
<1>12. ASSUME NEW m \in Nodes PROVE PlaceOK(m)'
    <2>1. CASE Stops(m)
        BY <1>1, <1>2, <1>4, <1>6, <1>7, <1>8, <2>1, Zenon DEF Inv, PlaceOK, Getting, Fetched,
               Dropping, Exists, NoFault
    <2>2. CASE ~Stops(m)
        <3>1. proc'[m] = proc[m] /\ m # n
            BY <1>7, <2>2, Zenon
        <3>2. m \in dir' => m \in dir
            BY <1>6, Zenon
        <3> QED
            BY <1>1, <1>2, <1>4, <3>1, <3>2, Zenon DEF Inv, PlaceOK, Exists, NoFault
    <2> QED
        BY <2>1, <2>2, Zenon
<1>13. CallsOK'
    <2>1. CASE n = Owner
        BY <1>10, <2>1, Zenon DEF CallsOK
    <2>2. CASE n # Owner
        <3>1. ASSUME NEW e \in calls'
              PROVE  CallOK(e)' /\ (e.waiting => e \in calls)
            <4>1. PICK c \in calls : /\ e.op = c.op /\ e.from = c.from /\ e.step = c.step
                                     /\ c.from # n => e = c
                                     /\ c.from = n => ~e.waiting /\ c.step # "done"
                BY <1>10, Zenon
            <4>2. CallOK(c) /\ c.from \in Nodes
                BY Types, Members, Zenon DEF Inv, CallsOK, CallRec
            <4>3. CASE c.from # n
                BY <1>3, <1>7, <2>2, <4>1, <4>2, <4>3, CallStays, Zenon
            <4>4. CASE c.from = n
                <5>1. ~NoFault({"late", "gone"}, n)'
                    BY <1>2, Zenon DEF NoFault
                <5> QED
                    BY <1>3, <4>1, <4>2, <4>4, <5>1, Zenon DEF CallOK, Onward
            <4> QED
                BY <4>3, <4>4, Zenon
        <3> QED
            BY <3>1, Zenon DEF Inv, CallsOK
    <2> QED
        BY <2>1, <2>2, Zenon
<1>14. TableOK'
    <2>1. CASE n = Owner
        <3>1. ~NoFault({"gone"}, Owner)' /\ ~NoFault({"evict", "gone"}, Owner)'
            BY <1>2, <2>1, Zenon DEF NoFault
        <3>2. doomed' => Exists'
            BY <1>1, Zenon DEF Inv, TableOK, Exists
        <3>3. entry'[Owner] = Untracked
            BY <1>5, <2>1, Zenon
        <3> QED
            BY <3>1, <3>2, <3>3, UntrackedFields DEF TableOK
    <2>2. CASE n # Owner
        BY <1>1, <1>3, <1>4, <1>5, <1>6, <2>2, Members, TableStays, Zenon DEF Inv
    <2> QED
        BY <2>1, <2>2, Zenon
<1>15. ASSUME NEW b \in backed' PROVE BackedOK(b)'
    <2>1. b \in Nodes /\ b # Owner /\ BackedOK(b) /\ doomed' = doomed
        BY <1>1, Types, Members, Zenon DEF Inv
    <2>2. CASE b = n
        BY <1>2, <2>2, Zenon DEF BackedOK, NoFault
    <2>3. CASE n = Owner
        BY <1>2, <1>4, <2>1, <2>3, Zenon DEF BackedOK, NoFault
    <2>4. CASE b # n /\ n # Owner
        BY <1>3, <1>4, <1>5, <2>1, <2>4, Members, BackedStays, Zenon
    <2> QED
        BY <2>2, <2>3, <2>4, Zenon
<1> QED
    BY <1>2, <1>11, <1>12, <1>13, <1>14, <1>15, Zenon DEF Inv

-----------------------------------------------------------------------------
\* The invariant holds at first.
LEMMA InitInv == Init => Inv
<1> SUFFICES ASSUME Init PROVE Inv
    BY Zenon
<1>1. Idle \in ProcRec /\ Idle.at = "idle"
    BY Members, Zenon DEF Idle, ProcRec, Places
<1>2. /\ made \in {"fresh", "pending"} /\ ~doomed /\ backed = {} /\ faults = {} /\ calls = {}
      /\ up = Nodes /\ dir = {}
    BY Zenon DEF Init
<1>3. /\ \A n \in Nodes : /\ ~copy[n] /\ ~index[n] /\ entry[n] = Untracked
                           /\ proc[n] = Idle
    BY Zenon DEF Init
<1>4. TypeOK
    <2>1. held \in [Nodes -> BOOLEAN]
        BY Zenon DEF Init
    <2>2. entry \in [Nodes -> OwnerEntry] /\ proc \in [Nodes -> ProcRec]
        BY <1>1, UntrackedFields, Zenon DEF Init
    <2> QED
        BY <2>1, <2>2, Zenon DEF Init, TypeOK, ProcRec
<1>5. \A n \in Nodes : PlaceOK(n)
    BY <1>1, <1>2, <1>3, Zenon DEF PlaceOK, Getting, Fetched, Dropping
<1>6. CallsOK /\ TableOK
    BY <1>2, <1>3, Members, UntrackedFields DEF CallsOK, TableOK, Exists
<1>7. Exact
    <2>1. OwnerExact
        BY <1>2, <1>3, Members, Zenon DEF OwnerExact
    <2>2. \A b \in Borrowers : BorrowerExact(b)
        BY <1>1, <1>2, <1>3, Members, UntrackedFields, Zenon DEF BorrowerExact, Fetched
    <2> QED
        BY <1>2, <2>1, <2>2, Zenon DEF Exact
<1> QED
    BY <1>2, <1>4, <1>5, <1>6, <1>7, Zenon DEF Inv

\* Every step keeps the invariant.
LEMMA NextInv == Inv /\ [Next]_vars => Inv'
<1> SUFFICES ASSUME Inv, [Next]_vars PROVE Inv'
    BY Zenon
<1>1. CASE Put \/ RecordPlasmaSeal \/ Forget
    BY <1>1, PutKeeps, ForgetKeeps, Zenon
<1>2. ASSUME NEW n \in Nodes, Receive(n) \/ Get(n) \/ GetStep(n) \/ Drop(n) \/ DropStep(n)
      PROVE  Inv'
    <2>1. CASE Receive(n)
        BY <2>1, ReceiveKeeps, Zenon
    <2>2. CASE Get(n) \/ GetStep(n)
        BY <2>2, LookKeeps, SealKeeps, RegisterKeeps, Zenon DEF GetStep
    <2>3. CASE Drop(n)
        BY <2>3, OwnerDropKeeps, BorrowerDropKeeps, Zenon DEF Nodes
    <2>4. CASE DropStep(n)
        BY <2>4, FreeKeeps, RegisterKeeps, Zenon DEF DropStep
    <2> QED
        BY <1>2, <2>1, <2>2, <2>3, <2>4, Zenon
<1>3. ASSUME NEW c \in calls, Serve(c) \/ CallFails(c) PROVE Inv'
    BY <1>3, ServeDirectoryKeeps, AddPinKeeps, PinRemovalKeeps, ServeFreeKeeps, ServeForgetKeeps,
       ReplyKeeps, CallFailsKeeps, Zenon DEF Serve
<1>4. ASSUME NEW n \in Nodes, Push(n) \/ Evict(n) \/ Leave(n) PROVE Inv'
    BY <1>4, CopyKeeps, LeaveKeeps, Zenon
<1>5. CASE UNCHANGED vars
    <2>1. TypeOK' /\ CallsOK' /\ TableOK' /\ (\A n \in Nodes : PlaceOK(n)')
          /\ \A b \in backed' : BackedOK(b)'
        BY <1>5, Zenon DEF vars, Inv, TypeOK, CallsOK, CallOK, TableOK, PlaceOK, BackedOK, NoFault,
                           Exists
    <2>2. faults' = {} => Exact'
        BY <1>5, Zenon DEF vars, Inv, Exact, OwnerExact, BorrowerExact, CallExact
    <2> QED
        BY <2>1, <2>2, Zenon DEF Inv
<1> QED
    BY <1>1, <1>2, <1>3, <1>4, <1>5, Zenon DEF Next

\* So the invariant always holds.
LEMMA Always == Spec => []Inv
BY InitInv, NextInv, PTL DEF Spec

\* No step of any node, handler or fault leaves the declared types.
THEOREM TransferTypes == Spec => []TypeOK
<1>1. Inv => TypeOK
    BY Zenon DEF Inv
<1> QED
    BY <1>1, Always, PTL

\* A borrower that registered in time and still has its ref keeps the owner's
\* copy, whatever the owner and the other borrowers drop.
THEOREM RegisteredKeepsCopy == Spec => []PinHolds
<1>1. Inv => PinHolds
    <2> SUFFICES ASSUME Inv, NEW b \in backed, NoFault({"late", "gone"}, b), NoFault({"evict", "gone"}, Owner)
                 PROVE  ~doomed /\ copy[Owner] /\ Owner \in dir
        BY Zenon DEF PinHolds
    <2>1. b \in entry[Owner].borrowers /\ ~doomed
        BY Zenon DEF Inv, BackedOK, NoFault
    <2>2. entry[Owner].tracked
        BY <2>1, Zenon DEF Inv, TableOK, EntryOK, Pinned, IsUnpinned
    <2> QED
        BY <2>1, <2>2, Zenon DEF Inv, TableOK
<1> QED
    BY <1>1, Always, PTL

\* A get whose fetch succeeded finds the entry it then waits for, but after a push.
THEOREM FetchLeavesEntry == Spec => []FetchedIsIndexed
<1>1. Inv => FetchedIsIndexed
    BY Zenon DEF Inv, PlaceOK, Fetched, FetchedIsIndexed
<1> QED
    BY <1>1, Always, PTL

\* What rest means: no step of OwnerExact's or CallExact's is on its way.
LEMMA AtRest ==
    ASSUME Inv, Quiet, faults = {}
    PROVE  /\ doomed => ~copy[Owner] /\ Owner \notin dir
           /\ \A b \in Borrowers : /\ b \in dir <=> copy[b]
                                   /\ index[b] => copy[b]
                                   /\ copy[b] => held[b]
                                   /\ ~copy[b] => entry[b] = Untracked
                                   /\ ~held[b] => b \notin entry[Owner].borrowers
<1>1. Exact /\ calls = {} /\ \A n \in Nodes : proc[n].at = "idle"
    BY Zenon DEF Inv, Quiet
<1>2. doomed => ~copy[Owner] /\ Owner \notin dir
    BY <1>1, Members, Zenon DEF Exact, OwnerExact
<1> QED
    BY <1>1, <1>2, Members, Zenon DEF Exact, BorrowerExact, Dropping

\* At rest and after no fault the directory lists the nodes that have the object.
THEOREM DirectoryIsExact == Spec => []DirectoryExact
<1>1. Inv => DirectoryExact
    <2> SUFFICES ASSUME Inv, Quiet, faults = {} PROVE dir = {n \in Nodes : copy[n]}
        BY Zenon DEF DirectoryExact
    <2>1. Owner \in dir <=> copy[Owner]
        <3>1. CASE doomed
            BY <3>1, AtRest, Zenon
        <3>2. CASE ~doomed /\ Exists
            BY <3>2, Zenon DEF Inv, TableOK, NoFault
        <3>3. CASE ~Exists
            BY <3>3, Members, Zenon DEF Inv, PlaceOK
        <3> QED
            BY <3>1, <3>2, <3>3, Zenon
    <2>2. dir \subseteq Nodes /\ \A b \in Borrowers : b \in dir <=> copy[b]
        BY AtRest, Types, Zenon DEF Inv
    <2> QED
        BY <2>1, <2>2, Zenon DEF Nodes
<1> QED
    BY <1>1, Always, PTL

\* Once every ref to an object that was put is dropped, and nothing went wrong,
\* no node has anything left of it.
THEOREM NothingIsLeft == Spec => []Reclaimed
<1>1. Inv => Reclaimed
    <2> SUFFICES ASSUME Inv, Quiet, faults = {}, made = "put", \A n \in Nodes : ~held[n]
                 PROVE  dir = {} /\ \A n \in Nodes : ~copy[n] /\ ~index[n] /\ entry[n] = Untracked
        BY Zenon DEF Reclaimed
    <2>1. \A b \in Borrowers : /\ b \notin dir /\ ~copy[b] /\ ~index[b] /\ entry[b] = Untracked
                              /\ b \notin entry[Owner].borrowers
        BY AtRest, Members, Zenon
    <2>2. entry[Owner] \in OwnerEntry /\ OwnerExact
        BY Types, Members, Zenon DEF Inv, Exact
    <2>3. entry[Owner].local = 0 /\ entry[Owner].borrowers = {} /\ entry[Owner].deps = 0
        <3>1. entry[Owner].local = 0
            BY <2>2, Members DEF OwnerExact, OwnerEntry
        <3>2. entry[Owner].borrowers = {}
            BY <2>1, <2>2, Zenon DEF OwnerEntry
        <3> QED
            BY <3>1, <3>2, Zenon DEF Inv, TableOK
    <2>4. ~entry[Owner].tracked
        BY <2>3, Zenon DEF Inv, TableOK, EntryOK, Pinned, IsUnpinned
    <2>5. entry[Owner] = Untracked
        BY <2>2, <2>3, <2>4, Zenon DEF OwnerEntry, Untracked
    <2>6. doomed
        BY <2>4, Zenon DEF Inv, TableOK, Exists, NoFault
    <2>7. ~copy[Owner] /\ ~index[Owner] /\ Owner \notin dir
        BY <2>2, <2>6, AtRest, Zenon DEF OwnerExact
    <2>8. dir \subseteq Nodes
        BY Types, Zenon DEF Inv
    <2> QED
        BY <2>1, <2>5, <2>7, <2>8, Zenon DEF Nodes
<1> QED
    BY <1>1, Always, PTL

=============================================================================
