----------------------------- MODULE MCChannel ------------------------------
(* Small instances of the channel for TLC. *)
EXTENDS Channel, TLC

CONSTANTS h1, h2, h3, t1, t2, v1, v2

Symmetry == Permutations(Senders) \cup Permutations(Receivers) \cup Permutations(Values)
=============================================================================
