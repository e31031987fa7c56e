------------------------------ MODULE MCFifoList ------------------------------
(* Instances of FifoList for TLC. *)
EXTENDS FifoList
=============================================================================
