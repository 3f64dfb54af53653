------------------------------- MODULE VecMap -------------------------------
(***************************************************************************)
(* signal-hook-registry/src/vec_map.rs: the map of signals to slots and of *)
(* action ids to actions, a vector of pairs searched from its beginning.   *)
(***************************************************************************)
EXTENDS Naturals, Sequences

SX == INSTANCE SequencesExt

CONSTANTS
    Keys, Values,
    None            \* Option::None, not a value

ASSUME NoneAssumption == None \notin Values

VARIABLES
    vec,            \* VecMap.0
    ret             \* what the last operation returned

vars == << vec, ret >>

Pair(k, v) == [key |-> k, value |-> v]

(* find(): the first index that has the key, 0 when there is none. *)
Find(k) == SX!SelectInSeq(vec, LAMBDA p : p.key = k)

(* get(), get_mut() *)
Lookup(k) == IF Find(k) = 0 THEN None ELSE vec[Find(k)].value

(* new() *)
Init == vec = << >> /\ ret = None

(* Mutant: the new pair goes first. *)
InsertedFirst(k, v) == IF Find(k) # 0 THEN [vec EXCEPT ![Find(k)].value = v]
                       ELSE << Pair(k, v) >> \o vec

(* insert() replaces the value in place or pushes the pair. *)
Inserted(k, v) ==
    IF Find(k) # 0 THEN [vec EXCEPT ![Find(k)].value = v]
    ELSE Append(vec, Pair(k, v))

Insert(k, v) ==
    /\ vec' = Inserted(k, v)
    /\ ret' = Lookup(k)

(* remove(): Vec::remove shifts what follows. *)
Remove(k) ==
    /\ vec' = IF Find(k) = 0 THEN vec ELSE SX!RemoveAt(vec, Find(k))
    /\ ret' = Lookup(k)

(* clear() *)
Clear == vec' = << >> /\ ret' = None

Next ==
    \/ \E k \in Keys : Remove(k) \/ \E v \in Values : Insert(k, v)
    \/ Clear

Spec == Init /\ [][Next]_vars

-----------------------------------------------------------------------------
(* No key is twice in the vector ("maintains key uniqueness", the doc of   *)
(* VecMap): no signal has two slots, and a removed action leaves no twin.  *)
(* A key that came before itself would break ImplementsOrderedMap too.     *)
KeysUnique ==
    \A i, j \in DOMAIN vec : vec[i].key = vec[j].key => i = j

(* The vector is the ordered map, results included.  Iterating values() in *)
(* order is how the handler runs the actions in registration order.        *)
Value == [k \in Keys |-> Lookup(k)]
Before ==
    {pair \in Keys \X Keys :
        \E i, j \in DOMAIN vec : i < j /\ vec[i].key = pair[1] /\ vec[j].key = pair[2]}
Ordered == INSTANCE OrderedMap WITH value <- Value, before <- Before

ImplementsOrderedMap == Ordered!Spec
=============================================================================
