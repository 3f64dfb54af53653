----------------------------- MODULE MCActions ------------------------------
(* Small instances of the actions for TLC. *)
EXTENDS Actions, TLC

CONSTANTS d1, d2, main, int, tstp, winch, kill, stop, rt, sock, pipe

(* A double Ctrl-C with a wake-up, a conditional default that terminates   *)
(* and one that stops, a pipe and a number for a signal out of the table.  *)
Offered ==
    {[signal |-> int, kind |-> k, fd |-> sock] : k \in {"flag", "shutdown", "default", "pipe"}}
    \cup {[signal |-> tstp, kind |-> "default", fd |-> sock]}
    \cup {[signal |-> rt, kind |-> k, fd |-> pipe] : k \in {"usize", "pipe", "default"}}

Symmetry == Permutations(Deliveries)
=============================================================================
