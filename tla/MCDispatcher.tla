---------------------------- MODULE MCDispatcher ----------------------------
(* Instances of Dispatcher for TLC. *)
EXTENDS Dispatcher
Interchangeable == Permutations(Peers) \cup Permutations(Workers)
=============================================================================
