----------------------------- MODULE MCOrigins ------------------------------
(* A small instance for TLC: one activation is about any event, the other  *)
(* about a child that exited, whose si_code is one that SIGIO has too.     *)
EXTENDS Origins

CONSTANTS h1, h2

Init1 == [pid |-> 1, uid |-> 0]     \* a process of the superuser
Shell == [pid |-> 7, uid |-> 5]
TwoProcesses == {Init1, Shell}

AnyAndAChild ==
    {[h \in {h1, h2} |-> IF h = h1 THEN e ELSE Event(SIGCHLD, "exited", Shell)] : e \in LinuxEvents}
=============================================================================
