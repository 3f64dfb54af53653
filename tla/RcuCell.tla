------------------------------- MODULE RcuCell -------------------------------
(***************************************************************************)
(* What a half-lock promises to its users, whatever its implementation: a  *)
(* cell that readers look at without ever waiting, and that one writer at  *)
(* a time replaces.  The replaced value is destroyed only when no reader   *)
(* looks at it any more.                                                   *)
(*                                                                         *)
(* The registry keeps two of these (GlobalData.data and                    *)
(* GlobalData.race_fallback); HalfLock.tla implements this specification.  *)
(***************************************************************************)
CONSTANTS
    Readers,    \* the activations of signal handlers that may read the cell
    Values,     \* the values (heap blocks) the cell may refer to
    NoValue     \* not a value: held by a reader that is not reading

VARIABLES
    cell,       \* the current value
    retired,    \* the values replaced but not destroyed yet
    held        \* for each reader, the value it looks at

vars == << cell, retired, held >>

Init ==
    /\ cell \in Values
    /\ retired = {}
    /\ held = [r \in Readers |-> NoValue]

(* HalfLock::read: the reader looks at the current value. *)
Read(r) ==
    /\ held[r] = NoValue
    /\ held' = [held EXCEPT ![r] = cell]
    /\ UNCHANGED << cell, retired >>

(* Mutant: the drop of a guard forgets its count. *)
ReleaseForgotten(r) == held[r] # NoValue /\ UNCHANGED << cell, retired, held >>

(* The ReadGuard goes away. *)
Release(r) ==
    /\ held[r] # NoValue
    /\ held' = [held EXCEPT ![r] = NoValue]
    /\ UNCHANGED << cell, retired >>

(* WriteGuard::store, its first half: a fresh value becomes current. *)
Publish(v) ==
    /\ retired = {}
    /\ v \in Values \ {cell}
    /\ cell' = v
    /\ retired' = {cell}
    /\ UNCHANGED held

(* WriteGuard::store, its second half: the old value is destroyed, and     *)
(* that must not happen under a reader's hands.                            *)
Reclaim ==
    /\ retired # {}
    /\ \A r \in Readers : held[r] \notin retired
    /\ retired' = {}
    /\ UNCHANGED << cell, held >>

Next ==
    \/ \E r \in Readers : Read(r) \/ Release(r)
    \/ \E v \in Values : Publish(v)
    \/ Reclaim

Spec == Init /\ [][Next]_vars
=============================================================================
