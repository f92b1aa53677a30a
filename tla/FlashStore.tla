----------------------------- MODULE FlashStore -----------------------------
(***************************************************************************)
(* The IDF scratch provider (idf_flash_store.c) under the record readers   *)
(* that share it (aead_flash.c).  A call holds the provider's guard, a     *)
(* try-lock, from enter() to leave(); the storage owner of the product is  *)
(* taken for one sector at a time.  A clear that finds the guard taken     *)
(* leaves a request for quarantine, which whoever holds the guard, or the  *)
(* next one, has to honour.  Power may be lost between any two steps.      *)
(***************************************************************************)
EXTENDS Integers

CONSTANTS
    Users,          \* tasks with a reader of their own
    NoUser,         \* the guard is free
    Sectors,        \* erase blocks of the partition
    MaxLease,       \* UINT64_MAX, scaled down
    MaxCrashes,     \* model bound on power losses
    MaxStrays       \* model bound on clears without a lease

ASSUME UsersAssumption == NoUser \notin Users
ASSUME SectorsAssumption == Sectors \in Nat \ {0}
ASSUME LeaseAssumption == MaxLease \in Nat \ {0}
ASSUME BoundsAssumption == MaxCrashes \in Nat /\ MaxStrays \in Nat

VARIABLES
    \* the provider's RAM
    guard, quarantine_requested, state, active_lease, next_lease,
    \* per sector: blank, written under a lease of this boot, or junk
    content,
    \* per user: position in a call and its locals
    pc, op, sector, touched, ok,
    \* per user: the reader's lease and what the reader may do with it
    lease, reader,
    crashes, strays

provider == <<guard, quarantine_requested, state, active_lease, next_lease>>
locals == <<op, sector, touched, ok>>
readers == <<lease, reader>>
bounds == <<crashes, strays>>
vars == <<provider, content, pc, locals, readers, bounds>>

Blank == 0
Junk == -1
Areas == 1..Sectors

ProviderTypeOK ==
    /\ guard \in Users \cup {NoUser}
    /\ quarantine_requested \in BOOLEAN
    /\ state \in {"UNRECOVERED", "IDLE", "LEASED", "QUARANTINED"}
    /\ active_lease \in 0..MaxLease
    /\ next_lease \in 0..MaxLease
    /\ content \in [Areas -> {Junk} \cup 0..MaxLease]
    /\ crashes \in 0..MaxCrashes /\ strays \in 0..MaxStrays

UserTypeOK ==
    /\ pc \in [Users -> {"idle", "entered", "erase", "issue", "io", "revoke", "leave", "unlock"}]
    /\ op \in [Users -> {"recover", "begin", "write", "read", "clear"}]
    /\ sector \in [Users -> Areas]
    /\ touched \in [Users -> BOOLEAN]
    /\ ok \in [Users -> BOOLEAN]
    /\ lease \in [Users -> 0..MaxLease]
    /\ reader \in [Users -> {"none", "reading", "failed", "closing"}]

TypeOK == ProviderTypeOK /\ UserTypeOK

\* efrp_idf_flash_store_bind, and readers without a record.
Init ==
    /\ guard = NoUser /\ quarantine_requested = FALSE
    /\ state = "UNRECOVERED" /\ active_lease = 0 /\ next_lease = 0
    /\ pc = [u \in Users |-> "idle"]
    /\ op = [u \in Users |-> "recover"]
    /\ sector = [u \in Users |-> 1]
    /\ touched = [u \in Users |-> FALSE]
    /\ ok = [u \in Users |-> TRUE]
    /\ lease = [u \in Users |-> 0]
    /\ reader = [u \in Users |-> "none"]
    /\ content \in [Areas -> {Blank, Junk}]
    /\ crashes = 0 /\ strays = 0

-----------------------------------------------------------------------------
(* enter(): the guard, then the request a blocked clear has left. *)

\* The calls a reader makes: it begins a large record, writes and reads while
\* nothing has failed, and clears.  Recovery belongs to the boot sequence but
\* the provider does not rely on that.
MayCall(u, o) ==
    CASE o \in {"write", "read"} -> reader[u] = "reading"
      [] o = "clear"             -> reader[u] # "none"
      [] OTHER                   -> reader[u] = "none"

Enter(u, o) ==
    /\ pc[u] = "idle" /\ guard = NoUser
    /\ MayCall(u, o)
    /\ guard' = u
    /\ pc' = [pc EXCEPT ![u] = "entered"]
    /\ op' = [op EXCEPT ![u] = o]
    /\ \E s \in Areas : sector' = [sector EXCEPT ![u] = IF o \in {"write", "read"} THEN s ELSE 1]
    /\ touched' = [touched EXCEPT ![u] = FALSE]
    /\ ok' = [ok EXCEPT ![u] = TRUE]
    /\ UNCHANGED <<quarantine_requested, state, active_lease, next_lease, content, readers,
                   bounds>>

\* A write or a read is refused because the guard is taken: the reader fails.
IoBlocked(u) ==
    /\ pc[u] = "idle" /\ guard # NoUser /\ reader[u] = "reading"
    /\ reader' = [reader EXCEPT ![u] = "failed"]
    /\ UNCHANGED <<provider, content, pc, locals, lease, bounds>>

\* A clear is refused because the guard is taken.
ClearBlocked(u) ==
    /\ pc[u] = "idle" /\ guard # NoUser /\ reader[u] # "none"
    /\ quarantine_requested' = TRUE
    /\ reader' = [reader EXCEPT ![u] = "closing"]
    /\ UNCHANGED <<guard, state, active_lease, next_lease, content, pc, locals, lease, bounds>>

\* A clear by a task that has no lease finds the guard taken.
StrayClear(u) ==
    /\ pc[u] = "idle" /\ guard # NoUser /\ reader[u] = "none"
    /\ strays < MaxStrays /\ strays' = strays + 1
    /\ quarantine_requested' = TRUE
    /\ UNCHANGED <<guard, state, active_lease, next_lease, content, pc, locals, readers, crashes>>

\* The state that a call finds once enter() has honoured the request.
Found == IF quarantine_requested THEN "QUARANTINED" ELSE state

Goto(u, place) == pc' = [pc EXCEPT ![u] = place]

Refuse(u) ==
    /\ state' = Found
    /\ ok' = [ok EXCEPT ![u] = FALSE]
    /\ Goto(u, "leave")
    /\ UNCHANGED active_lease

Entered(u, o) == pc[u] = "entered" /\ op[u] = o /\ quarantine_requested' = FALSE

Mut_MayRecover == TRUE
MayRecover == active_lease = 0

Recover(u) ==
    /\ Entered(u, "recover")
    /\ IF MayRecover
       THEN state' = "UNRECOVERED" /\ active_lease' = 0 /\ Goto(u, "erase") /\ UNCHANGED ok
       ELSE Refuse(u)
    /\ UNCHANGED <<guard, next_lease, content, op, sector, touched, readers, bounds>>

Mut_MayBegin_Leased == Found \in {"IDLE", "LEASED"} /\ next_lease # MaxLease
MayBegin == Found = "IDLE" /\ next_lease # MaxLease

Begin(u) ==
    /\ Entered(u, "begin")
    /\ IF MayBegin
       THEN state' = Found /\ Goto(u, "erase") /\ UNCHANGED <<active_lease, ok>>
       ELSE Refuse(u)
    /\ UNCHANGED <<guard, next_lease, content, op, sector, touched, readers, bounds>>

Io(u) ==
    /\ \E o \in {"write", "read"} : Entered(u, o)
    /\ IF Found = "LEASED" /\ lease[u] # 0 /\ lease[u] = active_lease
       THEN state' = Found /\ Goto(u, "io") /\ UNCHANGED <<active_lease, ok>>
       ELSE Refuse(u)
    /\ UNCHANGED <<guard, next_lease, content, op, sector, touched, readers, bounds>>

Mut_MayClear(u) == Found = "LEASED" /\ lease[u] # 0 /\ lease[u] = active_lease
MayClear(u) ==
    Found \in {"LEASED", "QUARANTINED"} /\ lease[u] # 0 /\ lease[u] = active_lease

Clear(u) ==
    /\ Entered(u, "clear")
    /\ IF MayClear(u)
       THEN state' = Found /\ Goto(u, "revoke") /\ UNCHANGED <<active_lease, ok>>
       ELSE Refuse(u)
    /\ UNCHANGED <<guard, next_lease, content, op, sector, touched, readers, bounds>>

-----------------------------------------------------------------------------
(* erase_scratch(): one sector per turn of the storage owner. *)

LastSector == Sectors

EraseSector(u) ==
    /\ pc[u] = "erase" /\ ~quarantine_requested
    /\ content' = [content EXCEPT ![sector[u]] = Blank]
    /\ touched' = [touched EXCEPT ![u] = TRUE]
    /\ IF sector[u] < LastSector
       THEN /\ sector' = [sector EXCEPT ![u] = @ + 1]
            /\ UNCHANGED <<pc, state>>
       ELSE /\ UNCHANGED sector
            /\ IF op[u] = "recover"
               THEN state' = "IDLE" /\ Goto(u, "leave")
               ELSE UNCHANGED state /\ Goto(u, "issue")
    /\ UNCHANGED <<guard, quarantine_requested, active_lease, next_lease, op, ok, readers,
                   bounds>>

\* The owner denies its turn, or the erase fails (damage), or a request for
\* quarantine is seen.  A begin that has not touched the area may be repeated.
EraseFails(u) ==
    /\ pc[u] = "erase"
    /\ \E damage \in BOOLEAN :
          /\ damage => ~quarantine_requested
          /\ content' = IF damage THEN [content EXCEPT ![sector[u]] = Junk] ELSE content
          /\ touched' = [touched EXCEPT ![u] = @ \/ damage]
    /\ state' = IF op[u] = "recover" \/ touched'[u] THEN "QUARANTINED" ELSE state
    /\ ok' = [ok EXCEPT ![u] = FALSE]
    /\ Goto(u, "leave")
    /\ UNCHANGED <<guard, quarantine_requested, active_lease, next_lease, op, sector, readers,
                   bounds>>

\* begin() issues the lease, and revokes it at once if a request came in.
Issue(u) ==
    /\ pc[u] = "issue"
    /\ next_lease' = next_lease + 1
    /\ IF quarantine_requested
       THEN /\ active_lease' = 0
            /\ state' = "QUARANTINED"
            /\ UNCHANGED readers
       ELSE /\ active_lease' = next_lease'
            /\ state' = "LEASED"
            /\ lease' = [lease EXCEPT ![u] = next_lease']
            /\ reader' = [reader EXCEPT ![u] = "reading"]
    /\ quarantine_requested' = FALSE
    /\ Goto(u, "unlock")
    /\ UNCHANGED <<guard, content, locals, bounds>>

-----------------------------------------------------------------------------
(* write_bytes(), which reads back what it wrote, and read_bytes(). *)

IoDone(u) ==
    /\ pc[u] = "io"
    /\ content' = IF op[u] = "write" THEN [content EXCEPT ![sector[u]] = lease[u]] ELSE content
    /\ Goto(u, "leave")
    /\ UNCHANGED <<provider, locals, readers, bounds>>

\* The owner denies its turn, or the operation fails: a write may have damaged
\* the sector.
IoFails(u) ==
    /\ pc[u] = "io"
    /\ \/ UNCHANGED content
       \/ op[u] = "write" /\ content' = [content EXCEPT ![sector[u]] = Junk]
    /\ state' = "QUARANTINED"
    /\ ok' = [ok EXCEPT ![u] = FALSE]
    /\ Goto(u, "leave")
    /\ UNCHANGED <<guard, quarantine_requested, active_lease, next_lease, op, sector, touched,
                   readers, bounds>>

\* clear() revokes the lease unless another request came in: then the lease
\* stays for a retry.
Revoke(u) ==
    /\ pc[u] = "revoke"
    /\ IF quarantine_requested
       THEN /\ state' = "QUARANTINED"
            /\ reader' = [reader EXCEPT ![u] = "closing"]
            /\ UNCHANGED <<active_lease, lease>>
       ELSE /\ state' = "IDLE"
            /\ active_lease' = 0
            /\ lease' = [lease EXCEPT ![u] = 0]
            /\ reader' = [reader EXCEPT ![u] = "none"]
    /\ quarantine_requested' = FALSE
    /\ Goto(u, "unlock")
    /\ UNCHANGED <<guard, next_lease, content, locals, bounds>>

\* leave(): a late request turns the result into an error.  The reader of a
\* failed operation only clears from then on.
Leave(u) ==
    /\ pc[u] = "leave"
    /\ state' = Found
    /\ quarantine_requested' = FALSE
    /\ reader' = [reader EXCEPT ![u] =
                     IF @ = "none" \/ (ok[u] /\ ~quarantine_requested) THEN @
                     ELSE IF op[u] = "clear" THEN "closing"
                     ELSE "failed"]
    /\ Goto(u, "unlock")
    /\ UNCHANGED <<guard, active_lease, next_lease, content, locals, lease, bounds>>

Unlock(u) ==
    /\ pc[u] = "unlock"
    /\ guard' = NoUser
    /\ Goto(u, "idle")
    /\ UNCHANGED <<quarantine_requested, state, active_lease, next_lease, content, locals,
                   readers, bounds>>

\* Power is lost and the provider bound again: only the partition survives, with
\* an interrupted write in it.
PowerLoss ==
    /\ crashes < MaxCrashes /\ crashes' = crashes + 1
    /\ content' = [s \in Areas |->
          IF content[s] = Blank /\ ~\E u \in Users : pc[u] = "io" /\ op[u] = "write" /\ sector[u] = s
          THEN Blank ELSE Junk]
    /\ guard' = NoUser /\ quarantine_requested' = FALSE
    /\ state' = "UNRECOVERED" /\ active_lease' = 0 /\ next_lease' = 0
    /\ pc' = [u \in Users |-> "idle"]
    /\ lease' = [u \in Users |-> 0]
    /\ reader' = [u \in Users |-> "none"]
    /\ UNCHANGED <<locals, strays>>

-----------------------------------------------------------------------------
Work(u) ==
    \/ Recover(u) \/ Begin(u) \/ Io(u) \/ Clear(u)
    \/ EraseSector(u) \/ EraseFails(u) \/ Issue(u)
    \/ IoDone(u) \/ IoFails(u) \/ Revoke(u) \/ Leave(u) \/ Unlock(u)

Next ==
    \/ \E u \in Users :
          \/ \E o \in {"recover", "begin", "write", "read", "clear"} : Enter(u, o)
          \/ IoBlocked(u) \/ ClearBlocked(u) \/ StrayClear(u)
          \/ Work(u)
    \/ PowerLoss

Spec == Init /\ [][Next]_vars

\* A call goes on, and the worker's cleanup loop repeats a failed clear until,
\* at some repetition, it finds the guard free.
Fairness == \A u \in Users : WF_vars(Work(u)) /\ SF_vars(reader[u] = "closing" /\ Enter(u, "clear"))

FairSpec == Spec /\ Fairness

-----------------------------------------------------------------------------
(* What the provider promises. *)

\* No reader's lease is taken from it, however it is delayed: not by another
\* reader, a recovery or a quarantine.
HeldLeaseIsActive == \A u \in Users : lease[u] # 0 => lease[u] = active_lease

\* A lease in force has a reader that will return it; otherwise begin() and
\* recover() would both refuse until the next boot.
LeaseNotLost == active_lease # 0 => \E u \in Users : lease[u] = active_lease

\* Leases and readers agree: no reader's lease was taken from it, not even by a
\* recovery, and no lease is in force that nobody can give back.
LeasesMatch == HeldLeaseIsActive /\ LeaseNotLost

\* The area under a lease holds nothing but blank bytes and what was written
\* under that lease: no earlier record, no interrupted write, no other boot.
ScratchFresh ==
    state = "LEASED" => active_lease # 0 /\ \A s \in Areas : content[s] \in {Blank, active_lease}

\* "On clear failure it keeps the area quarantined until a retry or boot
\* recovery succeeds" (esp_frp_flash_reader.h).
FailedClearQuarantines ==
    \A u \in Users : reader[u] = "closing" /\ guard = NoUser =>
        quarantine_requested \/ state = "QUARANTINED"

\* What readers see of the provider.
Store == INSTANCE ScratchStore WITH
    granted <- IF state = "LEASED" THEN active_lease ELSE 0,
    seen <- IF state = "LEASED" THEN content ELSE [s \in Areas |-> Blank]
\* The provider implements the scratch area that readers rely on: blank when it is
\* leased, changed only by writes under the lease, gone with it.
ImplementsScratchStore == Store!Spec

\* A reader whose clear failed gets rid of its lease in the end.
LeaseReturned == \A u \in Users : reader[u] = "closing" ~> reader[u] = "none"
=============================================================================
