------------------------------ MODULE MCNathole ------------------------------
(* Two providers, one behind a NAT that keeps its port and one behind a NAT that *)
(* changes it regularly; the visitor's NAT changes its port irregularly.          *)
EXTENDS Nathole

CONSTANTS ControlA, ControlB, Visitor

MCProviders == {ControlA, ControlB}
MCAddrs == [c \in {ControlA, ControlB, Visitor} |->
    CASE c = ControlA -> <<[ip |-> 1, port |-> 10], [ip |-> 1, port |-> 10]>>
      [] c = ControlB -> <<[ip |-> 2, port |-> 10], [ip |-> 2, port |-> 13]>>
      [] OTHER -> <<[ip |-> 3, port |-> 10], [ip |-> 3, port |-> 30]>>]
MCLocalIPs == [c \in {ControlA, ControlB, Visitor} |-> {}]
\* Two providers contend while one of the controls, proxies or clients ends; a user comes while the
\* keeper makes the one attempt and something ends; both make two attempts.
MCInstances == {
    [providers |-> MCProviders, callers |-> {Keeper}, attempts |-> 1, ends |-> 1],
    [providers |-> {ControlA}, callers |-> Callers, attempts |-> 1, ends |-> 1],
    [providers |-> {ControlA}, callers |-> Callers, attempts |-> 2, ends |-> 0]}
=============================================================================
