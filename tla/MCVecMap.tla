------------------------------ MODULE MCVecMap ------------------------------
(* All the maps of four keys. *)
EXTENDS VecMap
=============================================================================
