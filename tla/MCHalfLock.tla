----------------------------- MODULE MCHalfLock -----------------------------
(* A small instance of the half-lock for TLC.  One writer is as good as    *)
(* several: the writer has locals only while it owns the mutex, and they    *)
(* are set afresh each time.                                               *)
EXTENDS HalfLock

CONSTANTS r1, r2, r3, w1, a1, a2

ThreeReaders == {r1, r2, r3}
OneWriter == {w1}
TwoAddrs == {a1, a2}
=============================================================================
