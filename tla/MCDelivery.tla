----------------------------- MODULE MCDelivery -----------------------------
(* Small instances of the delivery for TLC. *)
EXTENDS Delivery, TLC

CONSTANTS h1, h2, h3

Symmetry == Permutations(Handlers)
=============================================================================
