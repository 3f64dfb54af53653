---------------------------- MODULE MCLifecycle -----------------------------
(* Small instances of the life of an iterator for TLC. *)
EXTENDS Lifecycle

CONSTANTS t1, t2, d1, d2, s1, s2, s3, kill, huge, odd
=============================================================================
