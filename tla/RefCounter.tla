----------------------------- MODULE RefCounter -----------------------------
(***************************************************************************)
(* The owner-side reference table (rayd-core/src/ref_counter.rs).  Every   *)
(* method runs under the table's one mutex, so each is an operator on one  *)
(* entry: what the entry becomes, and whether the method returns true      *)
(* ("the caller should free the object").  The table is a total function;  *)
(* an id without an entry maps to Untracked.                               *)
(***************************************************************************)
EXTENDS Naturals

CONSTANT Borrowers   \* worker ids of the peers

OwnerEntry ==
    [tracked : BOOLEAN, local : Nat, borrowers : SUBSET Borrowers, deps : Nat]

Untracked == [tracked |-> FALSE, local |-> 0, borrowers |-> {}, deps |-> 0]

IsUnpinned(e) == e.local = 0 /\ e.borrowers = {} /\ e.deps = 0

\* Rust's entry(id).or_default()
OrDefault(e) == [e EXCEPT !.tracked = TRUE]

\* Mutant of Settle: entries are never removed.
SettleNever(e) == e

\* Remove the entry once its last pin has gone.
Settle(e) == IF IsUnpinned(e) THEN Untracked ELSE e

SaturatingDec(n) == IF n = 0 THEN 0 ELSE n - 1

WithoutLocal(e) == [e EXCEPT !.local = SaturatingDec(@)]
WithoutBorrower(e, w) == [e EXCEPT !.borrowers = @ \ {w}]
WithoutDep(e) == [e EXCEPT !.deps = SaturatingDec(@)]

AddOwned(e) == [OrDefault(e) EXCEPT !.local = @ + 1]
IncLocal(e) == IF e.tracked THEN [e EXCEPT !.local = @ + 1] ELSE e
AddBorrower(e, w) == [OrDefault(e) EXCEPT !.borrowers = @ \cup {w}]
AddSubmitDep(e) == [OrDefault(e) EXCEPT !.deps = @ + 1]

DecLocal(e) == IF e.tracked THEN Settle(WithoutLocal(e)) ELSE e
RemoveBorrower(e, w) == IF e.tracked THEN Settle(WithoutBorrower(e, w)) ELSE e
CompleteSubmitDep(e) == IF e.tracked THEN Settle(WithoutDep(e)) ELSE e

\* Mutant of DecLocalFrees: borrowers and tasks do not count.
DecLocalFreesAtZero(e) == e.tracked /\ WithoutLocal(e).local = 0

\* The methods that drop a pin return true when they removed the entry.
DecLocalFrees(e) == e.tracked /\ IsUnpinned(WithoutLocal(e))
RemoveBorrowerFrees(e, w) == e.tracked /\ IsUnpinned(WithoutBorrower(e, w))
CompleteSubmitDepFrees(e) == e.tracked /\ IsUnpinned(WithoutDep(e))

\* An entry exists exactly while something pins the object.
Pinned(e) == ~IsUnpinned(e)
EntryOK(e) == e.tracked <=> Pinned(e)
=============================================================================
