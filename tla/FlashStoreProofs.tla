--------------------------- MODULE FlashStoreProofs ---------------------------
(* Proofs about the scratch provider, for every number of readers, sectors,
   leases and power losses. *)
EXTENDS FlashStore, TLAPS

USE UsersAssumption, SectorsAssumption, LeaseAssumption, BoundsAssumption

-----------------------------------------------------------------------------
(* The inductive invariant. *)

\* Whoever is inside a call holds the guard.
Guarded == \A u \in Users : pc[u] # "idle" => guard = u

\* A lease has one holder, which is the reader that will return it.
Leases ==
    /\ HeldLeaseIsActive
    /\ LeaseNotLost
    /\ \A u, v \in Users : lease[u] # 0 /\ lease[v] # 0 => u = v
    /\ \A u \in Users : reader[u] = "none" <=> lease[u] = 0
    /\ state = "LEASED" => active_lease # 0
    /\ state \in {"IDLE", "UNRECOVERED"} => active_lease = 0

\* What a call has made sure of at each place.
Places ==
    \A u \in Users :
        /\ pc[u] = "entered" =>
              \/ op[u] \in {"recover", "begin"} /\ sector[u] = 1 /\ lease[u] = 0
              \/ op[u] \in {"write", "read", "clear"} /\ lease[u] # 0
        /\ pc[u] = "erase" =>
              /\ op[u] \in {"recover", "begin"} /\ active_lease = 0 /\ state # "LEASED"
              /\ op[u] = "begin" => state = "IDLE" /\ next_lease < MaxLease
              /\ \A s \in Areas : s < sector[u] => content[s] = Blank
        /\ pc[u] = "issue" =>
              /\ active_lease = 0 /\ lease[u] = 0 /\ next_lease < MaxLease
              /\ state = "IDLE"
              /\ \A s \in Areas : content[s] = Blank
        /\ pc[u] = "io" => state = "LEASED" /\ lease[u] # 0 /\ op[u] \in {"write", "read"}
        /\ pc[u] = "revoke" => lease[u] # 0
        /\ pc[u] = "leave" => op[u] # "clear"

\* A failed clear keeps the area quarantined, or is about to, even while the
\* guard is taken.
Quarantined ==
    \A u \in Users : reader[u] = "closing" => quarantine_requested \/ state = "QUARANTINED"

Inv == TypeOK /\ Guarded /\ Leases /\ Places /\ ScratchFresh /\ Quarantined

\* Initially nobody is in a call and there is no lease.
LEMMA InitInv == Init => Inv
<1> SUFFICES ASSUME Init PROVE Inv
  OBVIOUS
<1>1. ProviderTypeOK
  <2>1. content \in [Areas -> {Junk} \cup 0..MaxLease]
    BY DEF Init, Blank, Junk
  <2>2. 0 \in 0..MaxLease /\ 0 \in 0..MaxCrashes /\ 0 \in 0..MaxStrays
    OBVIOUS
  <2> QED
    BY <2>1, <2>2, Zenon DEF Init, ProviderTypeOK
<1>2. UserTypeOK
  BY DEF Init, UserTypeOK, Areas
<1>3. Guarded /\ Leases /\ Places
  BY DEF Init, Guarded, Leases, HeldLeaseIsActive, LeaseNotLost, Places
<1>4. ScratchFresh /\ Quarantined
  BY DEF Init, ScratchFresh, Quarantined
<1> QED
  BY <1>1, <1>2, <1>3, <1>4 DEF Inv, TypeOK

\* Taking the guard starts a call.
LEMMA EnterInv ==
    ASSUME Inv, NEW u \in Users, NEW o \in {"recover", "begin", "write", "read", "clear"}, Enter(u, o)
    PROVE  Inv'
<1> USE DEF Inv, Enter, MayCall, provider, locals, readers, bounds
<1>1. ProviderTypeOK'
  BY DEF TypeOK, ProviderTypeOK, UserTypeOK, Areas, Blank, Junk, Places
<1>2. UserTypeOK'
  BY DEF TypeOK, ProviderTypeOK, UserTypeOK, Areas, Places
<1>3. Guarded'
  BY DEF TypeOK, ProviderTypeOK, UserTypeOK, Guarded
<1>4. Leases'
  BY DEF TypeOK, ProviderTypeOK, UserTypeOK, Guarded, Leases, HeldLeaseIsActive, LeaseNotLost, Places
<1>5. Places'
  BY DEF TypeOK, ProviderTypeOK, UserTypeOK, Guarded, Leases, HeldLeaseIsActive, Places, Areas, Blank
<1>6. ScratchFresh'
  BY DEF TypeOK, ProviderTypeOK, UserTypeOK, Leases, HeldLeaseIsActive, Places, ScratchFresh, Areas, Blank
<1>7. Quarantined'
  BY DEF TypeOK, ProviderTypeOK, UserTypeOK, Leases, HeldLeaseIsActive, Places, Quarantined
<1> QED
  BY <1>1, <1>2, <1>3, <1>4, <1>5, <1>6, <1>7 DEF TypeOK

\* A refused write or read changes only the reader.
LEMMA IoBlockedInv ==
    ASSUME Inv, NEW u \in Users, IoBlocked(u)
    PROVE  Inv'
<1> USE DEF Inv, IoBlocked, provider, locals, readers, bounds
<1>1. ProviderTypeOK'
  BY DEF TypeOK, ProviderTypeOK, UserTypeOK, Areas, Blank, Junk, Places
<1>2. UserTypeOK'
  BY DEF TypeOK, ProviderTypeOK, UserTypeOK, Areas, Places
<1>3. Guarded'
  BY DEF TypeOK, ProviderTypeOK, UserTypeOK, Guarded
<1>4. Leases'
  BY DEF TypeOK, ProviderTypeOK, UserTypeOK, Guarded, Leases, HeldLeaseIsActive, LeaseNotLost, Places
<1>5. Places'
  BY DEF TypeOK, ProviderTypeOK, UserTypeOK, Guarded, Leases, HeldLeaseIsActive, Places, Areas, Blank
<1>6. ScratchFresh'
  BY DEF TypeOK, ProviderTypeOK, UserTypeOK, Leases, HeldLeaseIsActive, Places, ScratchFresh, Areas, Blank
<1>7. Quarantined'
  BY DEF TypeOK, ProviderTypeOK, UserTypeOK, Leases, HeldLeaseIsActive, Places, Quarantined
<1> QED
  BY <1>1, <1>2, <1>3, <1>4, <1>5, <1>6, <1>7 DEF TypeOK

\* A refused clear leaves a request.
LEMMA ClearBlockedInv ==
    ASSUME Inv, NEW u \in Users, ClearBlocked(u)
    PROVE  Inv'
<1> USE DEF Inv, ClearBlocked, provider, locals, readers, bounds
<1>1. ProviderTypeOK'
  BY DEF TypeOK, ProviderTypeOK, UserTypeOK, Areas, Blank, Junk, Places
<1>2. UserTypeOK'
  BY DEF TypeOK, ProviderTypeOK, UserTypeOK, Areas, Places
<1>3. Guarded'
  BY DEF TypeOK, ProviderTypeOK, UserTypeOK, Guarded
<1>4. Leases'
  BY DEF TypeOK, ProviderTypeOK, UserTypeOK, Guarded, Leases, HeldLeaseIsActive, LeaseNotLost, Places
<1>5. Places'
  BY DEF TypeOK, ProviderTypeOK, UserTypeOK, Guarded, Leases, HeldLeaseIsActive, Places, Areas, Blank
<1>6. ScratchFresh'
  BY DEF TypeOK, ProviderTypeOK, UserTypeOK, Leases, HeldLeaseIsActive, Places, ScratchFresh, Areas, Blank
<1>7. Quarantined'
  BY DEF TypeOK, ProviderTypeOK, UserTypeOK, Leases, HeldLeaseIsActive, Places, Quarantined
<1> QED
  BY <1>1, <1>2, <1>3, <1>4, <1>5, <1>6, <1>7 DEF TypeOK

\* So does a clear without a lease.
LEMMA StrayClearInv ==
    ASSUME Inv, NEW u \in Users, StrayClear(u)
    PROVE  Inv'
<1> USE DEF Inv, StrayClear, provider, locals, readers, bounds
<1>1. ProviderTypeOK'
  BY DEF TypeOK, ProviderTypeOK, UserTypeOK, Areas, Blank, Junk, Places
<1>2. UserTypeOK'
  BY DEF TypeOK, ProviderTypeOK, UserTypeOK, Areas, Places
<1>3. Guarded'
  BY DEF TypeOK, ProviderTypeOK, UserTypeOK, Guarded
<1>4. Leases'
  BY DEF TypeOK, ProviderTypeOK, UserTypeOK, Guarded, Leases, HeldLeaseIsActive, LeaseNotLost, Places
<1>5. Places'
  BY DEF TypeOK, ProviderTypeOK, UserTypeOK, Guarded, Leases, HeldLeaseIsActive, Places, Areas, Blank
<1>6. ScratchFresh'
  BY DEF TypeOK, ProviderTypeOK, UserTypeOK, Leases, HeldLeaseIsActive, Places, ScratchFresh, Areas, Blank
<1>7. Quarantined'
  BY DEF TypeOK, ProviderTypeOK, UserTypeOK, Leases, HeldLeaseIsActive, Places, Quarantined
<1> QED
  BY <1>1, <1>2, <1>3, <1>4, <1>5, <1>6, <1>7 DEF TypeOK

\* Recovery starts only without a lease.
LEMMA RecoverInv ==
    ASSUME Inv, NEW u \in Users, Recover(u)
    PROVE  Inv'
<1> USE DEF Inv, Recover, Entered, MayRecover, Refuse, Found, Goto, provider, locals, readers, bounds
<1>1. ProviderTypeOK'
  BY DEF TypeOK, ProviderTypeOK, UserTypeOK, Areas, Blank, Junk, Places
<1>2. UserTypeOK'
  BY DEF TypeOK, ProviderTypeOK, UserTypeOK, Areas, Places
<1>3. Guarded'
  BY DEF TypeOK, ProviderTypeOK, UserTypeOK, Guarded
<1>4. Leases'
  BY DEF TypeOK, ProviderTypeOK, UserTypeOK, Guarded, Leases, HeldLeaseIsActive, LeaseNotLost, Places
<1>5. Places'
  <2>1. \A v \in Users \ {u} : pc'[v] = "idle"
    BY DEF TypeOK, UserTypeOK, Guarded
  <2>2. pc'[u] = "leave" \/ (pc'[u] = "erase" /\ sector[u] = 1 /\ active_lease' = 0)
    BY DEF TypeOK, UserTypeOK, Places, Leases
  <2>3. \A s \in Areas : ~(s < 1)
    BY DEF Areas
  <2>4. pc'[u] = "erase" => IF op[u] = "recover" THEN state' = "UNRECOVERED"
                                                 ELSE state' = "IDLE" /\ next_lease < MaxLease
    BY DEF TypeOK, ProviderTypeOK, UserTypeOK
  <2>5. op'[u] = op[u] /\ op[u] \in {"recover", "begin"}
    OBVIOUS
  <2> QED
    BY <2>1, <2>2, <2>3, <2>4, <2>5 DEF Places
<1>6. ScratchFresh'
  BY DEF TypeOK, ProviderTypeOK, UserTypeOK, Leases, HeldLeaseIsActive, Places, ScratchFresh, Areas, Blank
<1>7. Quarantined'
  BY DEF TypeOK, ProviderTypeOK, UserTypeOK, Leases, HeldLeaseIsActive, Places, Quarantined
<1> QED
  BY <1>1, <1>2, <1>3, <1>4, <1>5, <1>6, <1>7 DEF TypeOK

\* begin() starts only from IDLE.
LEMMA BeginInv ==
    ASSUME Inv, NEW u \in Users, Begin(u)
    PROVE  Inv'
<1> USE DEF Inv, Begin, Entered, MayBegin, Refuse, Found, Goto, provider, locals, readers, bounds
<1>1. ProviderTypeOK'
  BY DEF TypeOK, ProviderTypeOK, UserTypeOK, Areas, Blank, Junk, Places
<1>2. UserTypeOK'
  BY DEF TypeOK, ProviderTypeOK, UserTypeOK, Areas, Places
<1>3. Guarded'
  BY DEF TypeOK, ProviderTypeOK, UserTypeOK, Guarded
<1>4. Leases'
  BY DEF TypeOK, ProviderTypeOK, UserTypeOK, Guarded, Leases, HeldLeaseIsActive, LeaseNotLost, Places
<1>5. Places'
  <2>1. \A v \in Users \ {u} : pc'[v] = "idle"
    BY DEF TypeOK, UserTypeOK, Guarded
  <2>2. pc'[u] = "leave" \/ (pc'[u] = "erase" /\ sector[u] = 1 /\ active_lease' = 0)
    BY DEF TypeOK, UserTypeOK, Places, Leases
  <2>3. \A s \in Areas : ~(s < 1)
    BY DEF Areas
  <2>4. pc'[u] = "erase" => IF op[u] = "recover" THEN state' = "UNRECOVERED"
                                                 ELSE state' = "IDLE" /\ next_lease < MaxLease
    BY DEF TypeOK, ProviderTypeOK, UserTypeOK
  <2>5. op'[u] = op[u] /\ op[u] \in {"recover", "begin"}
    OBVIOUS
  <2> QED
    BY <2>1, <2>2, <2>3, <2>4, <2>5 DEF Places
<1>6. ScratchFresh'
  BY DEF TypeOK, ProviderTypeOK, UserTypeOK, Leases, HeldLeaseIsActive, Places, ScratchFresh, Areas, Blank
<1>7. Quarantined'
  BY DEF TypeOK, ProviderTypeOK, UserTypeOK, Leases, HeldLeaseIsActive, Places, Quarantined
<1> QED
  BY <1>1, <1>2, <1>3, <1>4, <1>5, <1>6, <1>7 DEF TypeOK

\* A write or a read goes on only under the lease in force.
LEMMA IoInv ==
    ASSUME Inv, NEW u \in Users, Io(u)
    PROVE  Inv'
<1> USE DEF Inv, Io, Entered, Refuse, Found, Goto, provider, locals, readers, bounds
<1>1. ProviderTypeOK'
  BY DEF TypeOK, ProviderTypeOK, UserTypeOK, Areas, Blank, Junk, Places
<1>2. UserTypeOK'
  BY DEF TypeOK, ProviderTypeOK, UserTypeOK, Areas, Places
<1>3. Guarded'
  BY DEF TypeOK, ProviderTypeOK, UserTypeOK, Guarded
<1>4. Leases'
  BY DEF TypeOK, ProviderTypeOK, UserTypeOK, Guarded, Leases, HeldLeaseIsActive, LeaseNotLost, Places
<1>5. Places'
  BY DEF TypeOK, ProviderTypeOK, UserTypeOK, Guarded, Leases, HeldLeaseIsActive, Places, Areas, Blank
<1>6. ScratchFresh'
  BY DEF TypeOK, ProviderTypeOK, UserTypeOK, Leases, HeldLeaseIsActive, Places, ScratchFresh, Areas, Blank
<1>7. Quarantined'
  BY DEF TypeOK, ProviderTypeOK, UserTypeOK, Leases, HeldLeaseIsActive, Places, Quarantined
<1> QED
  BY <1>1, <1>2, <1>3, <1>4, <1>5, <1>6, <1>7 DEF TypeOK

\* The holder's clear is never refused once it has the guard.
LEMMA ClearInv ==
    ASSUME Inv, NEW u \in Users, Clear(u)
    PROVE  Inv'
<1> USE DEF Inv, Clear, Entered, MayClear, Refuse, Found, Goto, provider, locals, readers, bounds
<1>1. ProviderTypeOK'
  BY DEF TypeOK, ProviderTypeOK, UserTypeOK, Areas, Blank, Junk, Places
<1>2. UserTypeOK'
  BY DEF TypeOK, ProviderTypeOK, UserTypeOK, Areas, Places
<1>3. Guarded'
  BY DEF TypeOK, ProviderTypeOK, UserTypeOK, Guarded
<1>4. Leases'
  BY DEF TypeOK, ProviderTypeOK, UserTypeOK, Guarded, Leases, HeldLeaseIsActive, LeaseNotLost, Places
<1>5. Places'
  BY DEF TypeOK, ProviderTypeOK, UserTypeOK, Guarded, Leases, HeldLeaseIsActive, Places, Areas, Blank
<1>6. ScratchFresh'
  BY DEF TypeOK, ProviderTypeOK, UserTypeOK, Leases, HeldLeaseIsActive, Places, ScratchFresh, Areas, Blank
<1>7. Quarantined'
  BY DEF TypeOK, ProviderTypeOK, UserTypeOK, Leases, HeldLeaseIsActive, Places, Quarantined
<1> QED
  BY <1>1, <1>2, <1>3, <1>4, <1>5, <1>6, <1>7 DEF TypeOK

\* Erasing extends the blank prefix.
LEMMA EraseSectorInv ==
    ASSUME Inv, NEW u \in Users, EraseSector(u)
    PROVE  Inv'
<1> USE DEF Inv, EraseSector, LastSector, Goto, provider, locals, readers, bounds
<1>1. ProviderTypeOK'
  BY DEF TypeOK, ProviderTypeOK, UserTypeOK, Areas, Blank, Junk, Places
<1>2. UserTypeOK'
  <2>1. sector' \in [Users -> Areas]
    BY DEF TypeOK, UserTypeOK, Areas
  <2> QED
    BY <2>1 DEF TypeOK, UserTypeOK
<1>3. Guarded'
  BY DEF TypeOK, ProviderTypeOK, UserTypeOK, Guarded
<1>4. Leases'
  BY DEF TypeOK, ProviderTypeOK, UserTypeOK, Guarded, Leases, HeldLeaseIsActive, LeaseNotLost, Places
<1>5. Places'
  BY DEF TypeOK, ProviderTypeOK, UserTypeOK, Guarded, Leases, HeldLeaseIsActive, Places, Areas, Blank
<1>6. ScratchFresh'
  BY DEF TypeOK, ProviderTypeOK, UserTypeOK, Leases, HeldLeaseIsActive, Places, ScratchFresh, Areas, Blank
<1>7. Quarantined'
  BY DEF TypeOK, ProviderTypeOK, UserTypeOK, Leases, HeldLeaseIsActive, Places, Quarantined
<1> QED
  BY <1>1, <1>2, <1>3, <1>4, <1>5, <1>6, <1>7 DEF TypeOK

\* A failed erase leaves no lease behind.
LEMMA EraseFailsInv ==
    ASSUME Inv, NEW u \in Users, EraseFails(u)
    PROVE  Inv'
<1> USE DEF Inv, EraseFails, Goto, provider, locals, readers, bounds
<1>1. ProviderTypeOK'
  BY DEF TypeOK, ProviderTypeOK, UserTypeOK, Areas, Blank, Junk, Places
<1>2. UserTypeOK'
  BY DEF TypeOK, ProviderTypeOK, UserTypeOK, Areas, Places
<1>3. Guarded'
  BY DEF TypeOK, ProviderTypeOK, UserTypeOK, Guarded
<1>4. Leases'
  BY DEF TypeOK, ProviderTypeOK, UserTypeOK, Guarded, Leases, HeldLeaseIsActive, LeaseNotLost, Places
<1>5. Places'
  BY DEF TypeOK, ProviderTypeOK, UserTypeOK, Guarded, Leases, HeldLeaseIsActive, Places, Areas, Blank
<1>6. ScratchFresh'
  BY DEF TypeOK, ProviderTypeOK, UserTypeOK, Leases, HeldLeaseIsActive, Places, ScratchFresh, Areas, Blank
<1>7. Quarantined'
  BY DEF TypeOK, ProviderTypeOK, UserTypeOK, Leases, HeldLeaseIsActive, Places, Quarantined
<1> QED
  BY <1>1, <1>2, <1>3, <1>4, <1>5, <1>6, <1>7 DEF TypeOK

\* A lease is issued over a blank area, or not at all.
LEMMA IssueInv ==
    ASSUME Inv, NEW u \in Users, Issue(u)
    PROVE  Inv'
<1> USE DEF Inv, Issue, Goto, provider, locals, readers, bounds
<1>1. ProviderTypeOK'
  <2>1. next_lease' \in 0..MaxLease /\ active_lease' \in 0..MaxLease
    BY DEF TypeOK, ProviderTypeOK, Places
  <2> QED
    BY <2>1 DEF TypeOK, ProviderTypeOK
<1>2. UserTypeOK'
  <2>1. lease' \in [Users -> 0..MaxLease]
    BY DEF TypeOK, ProviderTypeOK, UserTypeOK, Places
  <2> QED
    BY <2>1 DEF TypeOK, UserTypeOK
<1>3. Guarded'
  BY DEF TypeOK, ProviderTypeOK, UserTypeOK, Guarded
<1>4. Leases'
  BY DEF TypeOK, ProviderTypeOK, UserTypeOK, Guarded, Leases, HeldLeaseIsActive, LeaseNotLost, Places
<1>5. Places'
  BY DEF TypeOK, ProviderTypeOK, UserTypeOK, Guarded, Leases, HeldLeaseIsActive, Places, Areas, Blank
<1>6. ScratchFresh'
  BY DEF TypeOK, ProviderTypeOK, UserTypeOK, Leases, HeldLeaseIsActive, Places, ScratchFresh, Areas, Blank
<1>7. Quarantined'
  BY DEF TypeOK, ProviderTypeOK, UserTypeOK, Leases, HeldLeaseIsActive, Places, Quarantined
<1> QED
  BY <1>1, <1>2, <1>3, <1>4, <1>5, <1>6, <1>7 DEF TypeOK

\* A write marks the sector with the lease in force.
LEMMA IoDoneInv ==
    ASSUME Inv, NEW u \in Users, IoDone(u)
    PROVE  Inv'
<1> USE DEF Inv, IoDone, Goto, provider, locals, readers, bounds
<1>1. ProviderTypeOK'
  BY DEF TypeOK, ProviderTypeOK, UserTypeOK, Areas, Blank, Junk, Places
<1>2. UserTypeOK'
  BY DEF TypeOK, ProviderTypeOK, UserTypeOK, Areas, Places
<1>3. Guarded'
  BY DEF TypeOK, ProviderTypeOK, UserTypeOK, Guarded
<1>4. Leases'
  BY DEF TypeOK, ProviderTypeOK, UserTypeOK, Guarded, Leases, HeldLeaseIsActive, LeaseNotLost, Places
<1>5. Places'
  BY DEF TypeOK, ProviderTypeOK, UserTypeOK, Guarded, Leases, HeldLeaseIsActive, Places, Areas, Blank
<1>6. ScratchFresh'
  BY DEF TypeOK, ProviderTypeOK, UserTypeOK, Leases, HeldLeaseIsActive, Places, ScratchFresh, Areas, Blank
<1>7. Quarantined'
  BY DEF TypeOK, ProviderTypeOK, UserTypeOK, Leases, HeldLeaseIsActive, Places, Quarantined
<1> QED
  BY <1>1, <1>2, <1>3, <1>4, <1>5, <1>6, <1>7 DEF TypeOK

\* A failed operation quarantines.
LEMMA IoFailsInv ==
    ASSUME Inv, NEW u \in Users, IoFails(u)
    PROVE  Inv'
<1> USE DEF Inv, IoFails, Goto, provider, locals, readers, bounds
<1>1. ProviderTypeOK'
  BY DEF TypeOK, ProviderTypeOK, UserTypeOK, Areas, Blank, Junk, Places
<1>2. UserTypeOK'
  BY DEF TypeOK, ProviderTypeOK, UserTypeOK, Areas, Places
<1>3. Guarded'
  BY DEF TypeOK, ProviderTypeOK, UserTypeOK, Guarded
<1>4. Leases'
  BY DEF TypeOK, ProviderTypeOK, UserTypeOK, Guarded, Leases, HeldLeaseIsActive, LeaseNotLost, Places
<1>5. Places'
  BY DEF TypeOK, ProviderTypeOK, UserTypeOK, Guarded, Leases, HeldLeaseIsActive, Places, Areas, Blank
<1>6. ScratchFresh'
  BY DEF TypeOK, ProviderTypeOK, UserTypeOK, Leases, HeldLeaseIsActive, Places, ScratchFresh, Areas, Blank
<1>7. Quarantined'
  BY DEF TypeOK, ProviderTypeOK, UserTypeOK, Leases, HeldLeaseIsActive, Places, Quarantined
<1> QED
  BY <1>1, <1>2, <1>3, <1>4, <1>5, <1>6, <1>7 DEF TypeOK

\* A clear takes the lease and its holder away together.
LEMMA RevokeInv ==
    ASSUME Inv, NEW u \in Users, Revoke(u)
    PROVE  Inv'
<1> USE DEF Inv, Revoke, Goto, provider, locals, readers, bounds
<1>1. ProviderTypeOK'
  <2>1. active_lease' \in 0..MaxLease
    BY DEF TypeOK, ProviderTypeOK
  <2> QED
    BY <2>1 DEF TypeOK, ProviderTypeOK
<1>2. UserTypeOK'
  <2>1. lease' \in [Users -> 0..MaxLease]
    BY DEF TypeOK, UserTypeOK
  <2> QED
    BY <2>1 DEF TypeOK, UserTypeOK
<1>3. Guarded'
  BY DEF TypeOK, ProviderTypeOK, UserTypeOK, Guarded
<1>4. Leases'
  BY DEF TypeOK, ProviderTypeOK, UserTypeOK, Guarded, Leases, HeldLeaseIsActive, LeaseNotLost, Places
<1>5. Places'
  BY DEF TypeOK, ProviderTypeOK, UserTypeOK, Guarded, Leases, HeldLeaseIsActive, Places, Areas, Blank
<1>6. ScratchFresh'
  BY DEF TypeOK, ProviderTypeOK, UserTypeOK, Leases, HeldLeaseIsActive, Places, ScratchFresh, Areas, Blank
<1>7. Quarantined'
  BY DEF TypeOK, ProviderTypeOK, UserTypeOK, Leases, HeldLeaseIsActive, Places, Quarantined
<1> QED
  BY <1>1, <1>2, <1>3, <1>4, <1>5, <1>6, <1>7 DEF TypeOK

\* leave() honours a late request.
LEMMA LeaveInv ==
    ASSUME Inv, NEW u \in Users, Leave(u)
    PROVE  Inv'
<1> USE DEF Inv, Leave, Found, Goto, provider, locals, readers, bounds
<1>1. ProviderTypeOK'
  BY DEF TypeOK, ProviderTypeOK, UserTypeOK, Areas, Blank, Junk, Places
<1>2. UserTypeOK'
  BY DEF TypeOK, ProviderTypeOK, UserTypeOK, Areas, Places
<1>3. Guarded'
  BY DEF TypeOK, ProviderTypeOK, UserTypeOK, Guarded
<1>4. Leases'
  BY DEF TypeOK, ProviderTypeOK, UserTypeOK, Guarded, Leases, HeldLeaseIsActive, LeaseNotLost, Places
<1>5. Places'
  BY DEF TypeOK, ProviderTypeOK, UserTypeOK, Guarded, Leases, HeldLeaseIsActive, Places, Areas, Blank
<1>6. ScratchFresh'
  BY DEF TypeOK, ProviderTypeOK, UserTypeOK, Leases, HeldLeaseIsActive, Places, ScratchFresh, Areas, Blank
<1>7. Quarantined'
  BY DEF TypeOK, ProviderTypeOK, UserTypeOK, Leases, HeldLeaseIsActive, Places, Quarantined
<1> QED
  BY <1>1, <1>2, <1>3, <1>4, <1>5, <1>6, <1>7 DEF TypeOK

\* The guard is released last.
LEMMA UnlockInv ==
    ASSUME Inv, NEW u \in Users, Unlock(u)
    PROVE  Inv'
<1> USE DEF Inv, Unlock, Goto, provider, locals, readers, bounds
<1>1. ProviderTypeOK'
  BY DEF TypeOK, ProviderTypeOK, UserTypeOK, Areas, Blank, Junk, Places
<1>2. UserTypeOK'
  BY DEF TypeOK, ProviderTypeOK, UserTypeOK, Areas, Places
<1>3. Guarded'
  BY DEF TypeOK, ProviderTypeOK, UserTypeOK, Guarded
<1>4. Leases'
  BY DEF TypeOK, ProviderTypeOK, UserTypeOK, Guarded, Leases, HeldLeaseIsActive, LeaseNotLost, Places
<1>5. Places'
  BY DEF TypeOK, ProviderTypeOK, UserTypeOK, Guarded, Leases, HeldLeaseIsActive, Places, Areas, Blank
<1>6. ScratchFresh'
  BY DEF TypeOK, ProviderTypeOK, UserTypeOK, Leases, HeldLeaseIsActive, Places, ScratchFresh, Areas, Blank
<1>7. Quarantined'
  BY DEF TypeOK, ProviderTypeOK, UserTypeOK, Leases, HeldLeaseIsActive, Places, Quarantined
<1> QED
  BY <1>1, <1>2, <1>3, <1>4, <1>5, <1>6, <1>7 DEF TypeOK

\* Power loss ends every call and every lease, and leaves no lease's bytes.
LEMMA PowerLossInv ==
    ASSUME Inv, PowerLoss
    PROVE  Inv'
<1> USE DEF Inv, TypeOK, PowerLoss, locals
<1>1. ProviderTypeOK'
  <2>1. content' \in [Areas -> {Junk} \cup 0..MaxLease]
    BY DEF Blank, Junk
  <2>2. 0 \in 0..MaxLease /\ crashes' \in 0..MaxCrashes
    BY DEF ProviderTypeOK
  <2> QED
    BY <2>1, <2>2, Zenon DEF ProviderTypeOK
<1>2. UserTypeOK'
  <2>1. 0 \in 0..MaxLease
    OBVIOUS
  <2> QED
    BY <2>1 DEF UserTypeOK
<1>3. Guarded' /\ Leases' /\ Places'
  BY DEF Guarded, Leases, HeldLeaseIsActive, LeaseNotLost, Places
<1>4. ScratchFresh' /\ Quarantined'
  BY DEF ScratchFresh, Quarantined
<1> QED
  BY <1>1, <1>2, <1>3, <1>4

\* Every step keeps the invariant.
LEMMA NextInv == Inv /\ [Next]_vars => Inv'
<1> SUFFICES ASSUME Inv, [Next]_vars PROVE Inv'
  OBVIOUS
<1>1. CASE UNCHANGED vars
  BY <1>1 DEF Inv, TypeOK, ProviderTypeOK, UserTypeOK, Guarded, Leases, HeldLeaseIsActive,
     LeaseNotLost, Places, ScratchFresh, Quarantined, vars, provider, locals, readers, bounds
<1>2. CASE PowerLoss
  BY <1>2, PowerLossInv
<1>3. ASSUME NEW u \in Users, NEW o \in {"recover", "begin", "write", "read", "clear"},
             Enter(u, o)
      PROVE  Inv'
  BY <1>3, EnterInv
<1>4. ASSUME NEW u \in Users, IoBlocked(u) \/ ClearBlocked(u) \/ StrayClear(u) PROVE Inv'
  BY <1>4, IoBlockedInv, ClearBlockedInv, StrayClearInv
<1>5. ASSUME NEW u \in Users, Work(u) PROVE Inv'
  BY <1>5, RecoverInv, BeginInv, IoInv, ClearInv, EraseSectorInv, EraseFailsInv, IssueInv,
     IoDoneInv, IoFailsInv, RevokeInv, LeaveInv, UnlockInv DEF Work
<1> QED
  BY <1>1, <1>2, <1>3, <1>4, <1>5 DEF Next

\* Inv is an invariant of the provider.
LEMMA AlwaysInv == Spec => []Inv
BY InitInv, NextInv, PTL DEF Spec

-----------------------------------------------------------------------------
(* What it implies. *)

\* Every variable of the provider and its callers keeps its type; in particular
\* the lease counter never passes its maximum.
THEOREM TypeCorrect == Spec => []TypeOK
<1>1. Inv => TypeOK
  BY DEF Inv
<1> QED
  BY <1>1, AlwaysInv, PTL

\* The lease a reader holds is the one in force, and a lease in force is held.
THEOREM LeaseSafe == Spec => []LeasesMatch
<1>1. Inv => LeasesMatch
  BY DEF Inv, Leases, LeasesMatch
<1> QED
  BY <1>1, AlwaysInv, PTL

\* The area under a lease is blank but for what was written under it.
THEOREM AreaFresh == Spec => []ScratchFresh
<1>1. Inv => ScratchFresh
  BY DEF Inv
<1> QED
  BY <1>1, AlwaysInv, PTL

\* A failed clear keeps the area quarantined until it is repeated.
THEOREM ClearSafe == Spec => []FailedClearQuarantines
<1>1. Inv => FailedClearQuarantines
  BY DEF Inv, Quarantined, FailedClearQuarantines
<1> QED
  BY <1>1, AlwaysInv, PTL

-----------------------------------------------------------------------------
(* The provider implements the abstract scratch area. *)

\* An unrecovered area is not readable.
LEMMA InitRefines == Init => Store!Init
BY DEF Init, Store!Init, Store!Unreadable, Store!Blank, Areas, Blank

\* The steps by which the area becomes readable, changes, or disappears.
LEMMA StepRefines == Inv /\ Inv' /\ [Next]_vars => [Store!Next]_Store!vars
<1> SUFFICES ASSUME Inv, Inv', [Next]_vars PROVE [Store!Next]_Store!vars
  OBVIOUS
<1> DEFINE Stays == state # "LEASED" /\ state' # "LEASED"
           Same == state' = state /\ active_lease' = active_lease /\ content' = content
           Ends == state = "LEASED" /\ state' # "LEASED"
<1>1. Stays \/ Same => [Store!Next]_Store!vars
  BY DEF Store!vars
<1>2. Ends => Store!Revoke
  BY DEF Inv, Leases, Store!Revoke, Store!Unreadable, Store!Blank, Areas, Blank
<1>3. ASSUME NEW u \in Users, Issue(u) PROVE Stays \/ Store!Grant
  <2>1. active_lease = 0 /\ state # "LEASED" /\ \A s \in Areas : content[s] = Blank
    BY <1>3 DEF Issue, Inv, Places
  <2>2. content' = content /\ content = [s \in Areas |-> Blank]
    BY <1>3, <2>1 DEF Issue, Inv, TypeOK, ProviderTypeOK
  <2>3. CASE quarantine_requested
    BY <1>3, <2>1, <2>3 DEF Issue
  <2>4. CASE ~quarantine_requested
    <3>1. active_lease' \in 1..MaxLease /\ state' = "LEASED"
      BY <1>3, <2>4 DEF Issue, Inv, TypeOK, ProviderTypeOK, Places
    <3> QED
      BY <2>1, <2>2, <3>1 DEF Store!Grant, Store!Unreadable, Store!Blank, Areas, Blank
  <2> QED
    BY <2>3, <2>4 DEF Inv, TypeOK, ProviderTypeOK
<1>4. ASSUME NEW u \in Users, IoDone(u) PROVE Same \/ \E s \in 1..Sectors : Store!Write(s)
  <2>1. state = "LEASED" /\ active_lease # 0 /\ lease[u] = active_lease
    BY <1>4 DEF IoDone, Inv, Places, Leases, HeldLeaseIsActive
  <2>2. state' = state /\ active_lease' = active_lease /\ sector[u] \in 1..Sectors
    BY <1>4 DEF IoDone, provider, Inv, TypeOK, UserTypeOK, Areas
  <2>3. content' = content \/ content' = [content EXCEPT ![sector[u]] = active_lease]
    BY <1>4, <2>1 DEF IoDone
  <2> QED
    BY <2>1, <2>2, <2>3 DEF Store!Write
<1>5. ASSUME NEW u \in Users, NEW o \in {"recover", "begin", "write", "read", "clear"},
             Enter(u, o)
      PROVE  Same
  BY <1>5 DEF Enter
<1>6. ASSUME NEW u \in Users, IoBlocked(u) \/ ClearBlocked(u) \/ StrayClear(u) PROVE Same
  BY <1>6 DEF IoBlocked, ClearBlocked, StrayClear, provider
<1>7. ASSUME NEW u \in Users, Recover(u) \/ Begin(u) \/ Io(u) \/ Clear(u)
      PROVE  Stays \/ Same \/ Ends
  BY <1>7 DEF Recover, Begin, Io, Clear, Entered, Refuse, Found, MayRecover, Inv, Leases
<1>8. ASSUME NEW u \in Users, EraseSector(u) \/ EraseFails(u) PROVE Stays
  BY <1>8 DEF EraseSector, EraseFails, Inv, Places
<1>9. ASSUME NEW u \in Users, IoFails(u) \/ Revoke(u) \/ Leave(u) \/ Unlock(u)
      PROVE  Stays \/ Same \/ Ends
  BY <1>9 DEF IoFails, Revoke, Leave, Unlock, Found
<1>10. CASE PowerLoss
  BY <1>10, <1>1, <1>2 DEF PowerLoss, Store!Next
<1>11. CASE UNCHANGED vars
  BY <1>11, <1>1 DEF vars, provider
<1> QED
  BY <1>1, <1>2, <1>3, <1>4, <1>5, <1>6, <1>7, <1>8, <1>9, <1>10, <1>11 DEF Next, Work, Store!Next

\* Readers may rely on the abstract scratch area: contention, failures and power
\* losses of the provider are invisible but for the end of a lease.
THEOREM Refinement == Spec => ImplementsScratchStore
BY InitRefines, StepRefines, AlwaysInv, PTL DEF Spec, ImplementsScratchStore, Store!Spec
=============================================================================
