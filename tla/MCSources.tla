------------------------------ MODULE MCSources ------------------------------
(* Sources with a proxy and a visitor, two handlers and three files: one with a proxy, one
   that selects the visitor only, and one of a client that can neither bind XTCP nor has the virtual network. *)
EXTENDS Sources, TLC

CONSTANTS p, v, plain, off, xtcp, vnet, bad, c1, c2

SettingsDef == {plain, off, xtcp, bad, vnet}
DisabledDef == {off}
UnsoundDef == {bad}
XtcpDef == {xtcp}
VnetDef == {vnet}

File(start, able, first, second) ==
    [start |-> start, vnet |-> able, binds |-> able, store |-> TRUE, entries |-> (p :> first @@ v :> second)]
FilesDef == {File({}, TRUE, plain, xtcp), File({v}, TRUE, vnet, off), File({}, FALSE, plain, Nil)}

CallersAlike == Permutations(Callers)
=============================================================================
