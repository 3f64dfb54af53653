----------------------------- MODULE OrderedMap -----------------------------
(***************************************************************************)
(* A map that remembers the order in which its keys came: what the         *)
(* registry expects of VecMap.  ret is what the last operation returned.   *)
(***************************************************************************)
CONSTANTS Keys, Values, None

VARIABLES
    value,      \* of each key, None of those that are not in the map
    before,     \* which of the keys in it came before which
    ret

vars == << value, before, ret >>

Present == {k \in Keys : value[k] # None}

Init ==
    /\ value = [k \in Keys |-> None]
    /\ before = {}
    /\ ret = None

(* A new key goes last, a known one keeps its place; the old value is      *)
(* returned.                                                               *)
Insert(k, v) ==
    /\ before' = before \cup (IF k \in Present THEN {} ELSE Present \X {k})
    /\ value' = [value EXCEPT ![k] = v]
    /\ ret' = value[k]

(* The other keys keep their order; the removed value is returned. *)
Remove(k) ==
    /\ before' = {pair \in before : k \notin {pair[1], pair[2]}}
    /\ value' = [value EXCEPT ![k] = None]
    /\ ret' = value[k]

Clear ==
    /\ before' = {}
    /\ value' = [k \in Keys |-> None]
    /\ ret' = None

Next ==
    \/ \E k \in Keys : Remove(k) \/ \E v \in Values : Insert(k, v)
    \/ Clear

Spec == Init /\ [][Next]_vars
=============================================================================
