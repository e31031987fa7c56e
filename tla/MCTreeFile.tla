------------------------------ MODULE MCTreeFile ------------------------------
(* Instances of TreeFile for TLC. *)
EXTENDS TreeFile
=============================================================================
