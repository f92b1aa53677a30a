-------------------------------- MODULE MCWork --------------------------------
(* The work set for TLC. *)
EXTENDS Work

AllRoles == {Provider, Udp, Visitor, PeerProvider, PeerVisitor}
===============================================================================
