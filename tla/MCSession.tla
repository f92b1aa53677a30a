------------------------------ MODULE MCSession ------------------------------
(* Instances of the control session for TLC. *)
EXTENDS Session
==============================================================================
