--------------------------- MODULE ScratchStore ---------------------------
(***************************************************************************)
(* What a reader of large AEAD records relies on (esp_frp_flash_reader.h): *)
(* a scratch area under a lease starts blank, holds nothing but what was   *)
(* written under that lease, and disappears with it.                       *)
(***************************************************************************)
EXTENDS Integers

CONSTANTS Sectors, MaxLease

VARIABLES granted, seen     \* the lease in force, 0 for none; the readable area

vars == <<granted, seen>>

Blank == 0
Unreadable == [s \in 1..Sectors |-> Blank]

Init == granted = 0 /\ seen = Unreadable

Grant == granted = 0 /\ granted' \in 1..MaxLease /\ seen' = Unreadable

Write(s) == granted # 0 /\ seen' = [seen EXCEPT ![s] = granted] /\ UNCHANGED granted

Revoke == granted # 0 /\ granted' = 0 /\ seen' = Unreadable

Next == Grant \/ Revoke \/ \E s \in 1..Sectors : Write(s)

Spec == Init /\ [][Next]_vars
=============================================================================
