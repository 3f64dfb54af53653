----------------------------- MODULE MCRegistry -----------------------------
(* Small instances of the registry for TLC. *)
EXTENDS Registry, TLC

CONSTANTS s1, s2, s3, f1, d1, d2, a1, a2

Symmetry ==
    Permutations(Deliveries) \cup Permutations(Addrs)
        \cup Permutations(Signals \ Refused)
=============================================================================
