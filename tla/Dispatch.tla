------------------------------ MODULE Dispatch ------------------------------
(***************************************************************************)
(* What the registry promises: each signal has a list of hooks in the      *)
(* order of their registration; a delivery of the signal runs the hooks    *)
(* that were there at one instant, in that order; an id names one hook for *)
(* ever; once the removal of a hook has returned, the hook runs no more.   *)
(*                                                                         *)
(* Registry.tla implements this specification.                             *)
(***************************************************************************)
EXTENDS Naturals, Sequences, FiniteSets

CONSTANTS
    Signals,        \* the signals
    Ids,            \* the ids of hooks
    Deliveries      \* activations of the signal handler

VARIABLES
    hooks,          \* for each signal, the ids of its hooks in order
    todo,           \* for each delivery, the hooks it still has to run
    issued,         \* the ids returned by register
    gone            \* the ids whose removal has returned

vars == << hooks, todo, issued, gone >>

Elems(s) == {s[i] : i \in DOMAIN s}

Init ==
    /\ hooks = [s \in Signals |-> << >>]
    /\ todo = [d \in Deliveries |-> << >>]
    /\ issued = {}
    /\ gone = {}

(* A hook with a fresh id becomes the last one of its signal. *)
Add(s, id) ==
    /\ id \notin issued
    /\ \A t \in Signals : id \notin Elems(hooks[t])
    /\ hooks' = [hooks EXCEPT ![s] = Append(@, id)]
    /\ UNCHANGED << todo, issued, gone >>

(* The elements of s that are not in ids, in their order. *)
Places(s, ids) == {i \in DOMAIN s : s[i] \notin ids}
Place(s, ids, n) ==
    CHOOSE i \in Places(s, ids) : Cardinality({j \in Places(s, ids) : j <= i}) = n
Without(s, ids) == [n \in 1 .. Cardinality(Places(s, ids)) |-> s[Place(s, ids, n)]]

(* Some hooks of a signal are removed, the others keep their order. *)
Remove(s, ids) ==
    /\ hooks' = [hooks EXCEPT ![s] = Without(@, ids)]
    /\ UNCHANGED << todo, issued, gone >>

(* register returns an id that was never returned before. *)
Issue(id) ==
    /\ id \notin issued
    /\ issued' = issued \cup {id}
    /\ UNCHANGED << hooks, todo, gone >>

(* A removal returns: nothing is left that could run these hooks. *)
Retire(ids) ==
    /\ \A s \in Signals : Elems(hooks[s]) \cap ids = {}
    /\ \A d \in Deliveries : Elems(todo[d]) \cap ids = {}
    /\ gone' = gone \cup ids
    /\ UNCHANGED << hooks, todo, issued >>

(* A delivery of s finds its hooks. *)
Start(d, s) ==
    /\ todo[d] = << >>
    /\ todo' = [todo EXCEPT ![d] = hooks[s]]
    /\ UNCHANGED << hooks, issued, gone >>

(* A delivery runs its next hook. *)
Run(d) ==
    /\ todo[d] # << >>
    /\ todo' = [todo EXCEPT ![d] = Tail(@)]
    /\ UNCHANGED << hooks, issued, gone >>

Next ==
    \/ \E s \in Signals : \/ \E id \in Ids : Add(s, id)
                          \/ \E ids \in SUBSET Ids : Remove(s, ids)
                          \/ \E d \in Deliveries : Start(d, s)
    \/ \E id \in Ids : Issue(id)
    \/ \E ids \in SUBSET Ids : Retire(ids)
    \/ \E d \in Deliveries : Run(d)

Spec == Init /\ [][Next]_vars
=============================================================================
