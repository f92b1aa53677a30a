-------------------------------- MODULE MCFrps --------------------------------
(* The control sessions of frps for TLC. *)
EXTENDS Frps, TLC

\* One client with and without its client id, and another with the same client id.
Logged(run, raw) == [run |-> run, raw |-> raw, wire |-> "v2"]
ThreeLogins == {Logged("r", "x"), Logged("r", NoClient), Logged("s", "x")}

AnyOrder == Permutations(Controls)
===============================================================================
