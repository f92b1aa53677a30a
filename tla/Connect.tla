------------------------------ MODULE Connect ------------------------------
(***************************************************************************)
(* One outgoing or adopted TCP connection (connect.c) and the lwIP name    *)
(* lookup it may own (dns_lwip.c).  The connection belongs to one task,    *)
(* which may call its functions in any order; the lookup runs on the       *)
(* tcpip thread, which keeps a raw pointer to the request until complete() *)
(* has stored `done'.                                                      *)
(*                                                                         *)
(* The socket is represented by what its close() will do to the peer: it   *)
(* resets the connection or flushes it and sends FIN, according to         *)
(* SO_LINGER.                                                              *)
(***************************************************************************)
EXTENDS Naturals

CONSTANT MaxRefusals    \* calls that the stack refuses for lack of memory

ASSUME RefusalsAssumption == MaxRefusals \in Nat

VARIABLES
    bounded,            \* EFRP_CONNECT_BOUNDED_LINGER: the ESP-IDF build
    refuses,            \* the stack may reject SO_LINGER for good
    refusals,           \* transient refusals the stack has left
    obj,                \* the efrp_connect_t: "none", "live" or "freed"
    state, result,      \* status.state, status.result
    fd,                 \* c->fd >= 0
    write_closed, read_eof, graceful_linger,
    late,               \* now >= deadline
    \* efrp_dns_request: its memory, its atomics, the answer in it
    req, cancelled, done, answer,
    tcpip,              \* what the tcpip thread is about to do with the request
    sock, linger        \* the kernel's socket and its SO_LINGER option

setting == <<bounded, refuses>>
dnsVars == <<req, cancelled, done, answer, tcpip>>
halves == <<write_closed, read_eof>>
sockVars == <<fd, graceful_linger, sock, linger>>
vars == <<setting, refusals, obj, state, result, halves, late, dnsVars, sockVars>>

States == {"RESOLVING", "CONNECTING", "OPEN", "DRAINING", "CLOSED"}
\* NETWORK stands for CAPACITY_EXCEEDED, too.
Failures == {"NETWORK", "DNS", "TIMEOUT", "CANCELLED"}

ObjectTypeOK ==
    /\ obj \in {"none", "live", "freed"}
    /\ state \in States
    /\ result \in Failures \cup {"OK"}
    /\ refusals \in 0..MaxRefusals

FlagsTypeOK ==
    /\ bounded \in BOOLEAN /\ refuses \in BOOLEAN
    /\ fd \in BOOLEAN /\ write_closed \in BOOLEAN /\ read_eof \in BOOLEAN
    /\ graceful_linger \in BOOLEAN /\ late \in BOOLEAN
    /\ cancelled \in BOOLEAN /\ done \in BOOLEAN

StackTypeOK ==
    /\ req \in {"none", "allocated", "freed"}
    /\ answer \in {"unwritten", "OK", "DNS"}
    /\ tcpip \in {"idle", "queued", "inflight", "storing"}
    /\ sock \in {"none", "new", "connected", "closed", "flushed", "reset"}
    /\ linger \in {"default", "abort", "graceful"}

TypeOK == ObjectTypeOK /\ FlagsTypeOK /\ StackTypeOK

Init ==
    /\ bounded \in BOOLEAN /\ refuses \in BOOLEAN /\ refusals = MaxRefusals
    /\ obj = "none" /\ state = "CLOSED" /\ result = "OK"
    /\ fd = FALSE /\ write_closed = FALSE /\ read_eof = FALSE
    /\ graceful_linger = FALSE /\ late = FALSE
    /\ req = "none" /\ cancelled = FALSE /\ done = FALSE /\ answer = "unwritten"
    /\ tcpip = "idle"
    /\ sock = "none" /\ linger = "default"

-----------------------------------------------------------------------------
(* The request, as the tcpip thread handles it. *)

\* complete(): the answer is written, `done' is stored by the next step.
Mut_Complete(answers) ==
    /\ answer' \in answers /\ done' = TRUE /\ tcpip' = "storing"
Complete(answers) ==
    /\ answer' \in answers /\ done' = done /\ tcpip' = "storing"

\* dispatch: a cancelled request is not looked up; a lookup may be answered
\* from the cache, fail, or be in progress.
Mut_Dispatch ==
    /\ tcpip = "queued"
    /\ \/ ~cancelled /\ Complete({"OK", "DNS"})
       \/ tcpip' = (IF cancelled THEN "idle" ELSE "inflight") /\ UNCHANGED <<answer, done>>
    /\ UNCHANGED <<setting, refusals, obj, state, result, halves, late, req, cancelled, sockVars>>
Dispatch ==
    /\ tcpip = "queued"
    /\ \/ Complete(IF cancelled THEN {"DNS"} ELSE {"OK", "DNS"})
       \/ ~cancelled /\ tcpip' = "inflight" /\ UNCHANGED <<answer, done>>
    /\ UNCHANGED <<setting, refusals, obj, state, result, halves, late, req, cancelled, sockVars>>

\* found(): the answer, or the resolver's own timeout.
Found ==
    /\ tcpip = "inflight"
    /\ Complete({"OK", "DNS"})
    /\ UNCHANGED <<setting, refusals, obj, state, result, halves, late, req, cancelled, sockVars>>

\* The release store that gives the request back.
StoreDone ==
    /\ tcpip = "storing"
    /\ done' = TRUE
    /\ tcpip' = "idle"
    /\ UNCHANGED <<setting, refusals, obj, state, result, halves, late, req, cancelled, answer,
                   sockVars>>

Tcpip == Dispatch \/ Found \/ StoreDone

-----------------------------------------------------------------------------
(* drain() and stop() *)

\* efrp_dns_destroy gives a held request back only when it is done.
DnsBusy == req = "allocated" /\ ~done

\* An error result must not inherit the linger of a completed stream.  Here and
\* below g is graceful_linger when drain() is called.
Mut_MustAbort(r, g) == FALSE
MustAbort(r, g) == fd /\ r # "OK" /\ g

Keep(g) == graceful_linger' = g /\ linger' = IF g THEN "graceful" ELSE linger

\* setsockopt(SO_LINGER, 0).  The POSIX build ignores every failure, the ESP
\* build a permanent one.
SetAbort(r, g) ==
    \/ ~MustAbort(r, g) /\ Keep(g)
    \/ MustAbort(r, g) /\ linger' = "abort" /\ graceful_linger' = FALSE
    \/ MustAbort(r, g) /\ refuses /\ Keep(g)

\* What the peer sees of close() under the linger l.
Closed(l) ==
    IF sock = "connected" THEN (IF l = "abort" THEN "reset" ELSE "flushed") ELSE "closed"

\* close() succeeds, or fails on POSIX, where the descriptor is gone as well.
Mut_Closes ==
    /\ fd' = (fd /\ ~bounded)
    /\ sock' = IF fd THEN Closed(linger') ELSE sock
Closes ==
    /\ fd' = FALSE
    /\ sock' = IF fd THEN Closed(linger') ELSE sock

\* The stack has no memory for an API message: lwIP keeps the socket.
Refused == bounded /\ refusals > 0 /\ refusals' = refusals - 1

FreedRequest == IF req = "allocated" THEN "freed" ELSE req

\* drain() with the result r and the linger g in force.
Drain(r, g) ==
    /\ cancelled' = (cancelled \/ req = "allocated")
    /\ IF DnsBusy
       THEN /\ state' = "DRAINING"
            /\ UNCHANGED <<req, refusals, sockVars>>
       ELSE /\ req' = FreedRequest
            /\ \/ /\ SetAbort(r, g)
                  /\ Closes
                  /\ state' = "CLOSED"
                  /\ UNCHANGED refusals
               \/ /\ fd /\ SetAbort(r, g) /\ Refused       \* close() failed
                  /\ state' = "DRAINING"
                  /\ UNCHANGED <<fd, sock>>
               \/ /\ MustAbort(r, g) /\ Refused            \* setsockopt() failed
                  /\ Keep(g)
                  /\ state' = "DRAINING"
                  /\ UNCHANGED <<fd, sock>>

Stop(r) == result' = r /\ Drain(r, graceful_linger)

-----------------------------------------------------------------------------
(* The functions of the connection. *)

Live == obj = "live"

\* efrp_connect_create: a lookup is queued on the tcpip thread.
efrp_connect_create ==
    /\ obj = "none"
    /\ obj' = "live" /\ state' = "RESOLVING"
    /\ req' = "allocated" /\ tcpip' = "queued"
    /\ UNCHANGED <<setting, refusals, result, halves, late, cancelled, done, answer, sockVars>>

\* efrp_connect_create_ipv4: the first step opens the socket.
efrp_connect_create_ipv4 ==
    /\ obj = "none"
    /\ obj' = "live" /\ state' = "CONNECTING"
    /\ UNCHANGED <<setting, refusals, result, halves, late, dnsVars, sockVars>>

\* efrp_connect_adopt_fd: an accepted socket, set to abortive linger first.
efrp_connect_adopt_fd ==
    /\ obj = "none"
    /\ obj' = "live" /\ state' = "OPEN"
    /\ fd' = TRUE /\ sock' = "connected" /\ linger' = "abort"
    /\ UNCHANGED <<setting, refusals, result, halves, late, dnsVars, graceful_linger>>

\* start_tcp, the lookup having been given back: there is no socket; an option
\* of the new socket or connect() fails, and the ESP stack may refuse to close
\* it; the connection is pending; it is open at once.
StartTcp ==
    /\ req' = FreedRequest
    /\ \/ /\ result' = "NETWORK" /\ state' = "CLOSED"
          /\ UNCHANGED <<refusals, fd, sock, linger>>
       \/ /\ linger' \in {"default", "abort"}
          /\ result' = "NETWORK"
          /\ \/ state' = "CLOSED" /\ sock' = "closed" /\ UNCHANGED <<fd, refusals>>
             \/ state' = "DRAINING" /\ sock' = "new" /\ fd' = TRUE /\ Refused
       \/ /\ linger' = "abort" /\ fd' = TRUE
          /\ \/ state' = "CONNECTING" /\ sock' = "new"
             \/ state' = "OPEN" /\ sock' = "connected"
          /\ UNCHANGED <<refusals, result>>
    /\ UNCHANGED <<cancelled, graceful_linger>>

Waiting == Live /\ state \in {"RESOLVING", "CONNECTING"}

\* efrp_connect_step, by the branch it takes.
StepDrains ==
    /\ Live /\ state = "DRAINING"
    /\ Drain(result, graceful_linger)
    /\ UNCHANGED <<setting, obj, result, halves, late, done, answer, tcpip>>

StepTimeout ==
    /\ Waiting /\ late
    /\ Stop("TIMEOUT")
    /\ UNCHANGED <<setting, obj, halves, late, done, answer, tcpip>>

\* efrp_dns_poll finds the request done.
StepLookupFails ==
    /\ Waiting /\ state = "RESOLVING" /\ ~late /\ done
    /\ answer # "OK"
    /\ Stop(answer)
    /\ UNCHANGED <<setting, obj, halves, late, done, answer, tcpip>>

StepStartsTcp ==
    /\ Waiting /\ ~late
    /\ \/ state = "RESOLVING" /\ done /\ answer = "OK"
       \/ state = "CONNECTING" /\ ~fd
    /\ StartTcp
    /\ UNCHANGED <<setting, obj, halves, late, done, answer, tcpip>>

\* select() reports the pending connection, SO_ERROR its outcome.
StepConnected ==
    /\ Waiting /\ state = "CONNECTING" /\ ~late /\ fd
    /\ state' = "OPEN" /\ sock' = "connected"
    /\ UNCHANGED <<setting, refusals, obj, result, halves, late, dnsVars, fd, graceful_linger,
                   linger>>

StepConnectFails ==
    /\ Waiting /\ state = "CONNECTING" /\ ~late /\ fd
    /\ Stop("NETWORK")
    /\ UNCHANGED <<setting, obj, halves, late, done, answer, tcpip>>

Open == Live /\ state = "OPEN"

\* efrp_connect_send or efrp_connect_recv meets a broken connection.
TransferFails ==
    /\ Open
    /\ Stop("NETWORK")
    /\ UNCHANGED <<setting, obj, halves, late, done, answer, tcpip>>

efrp_connect_recv_eof ==
    /\ Open /\ ~read_eof
    /\ read_eof' = TRUE
    /\ UNCHANGED <<setting, refusals, obj, state, result, write_closed, late, dnsVars, sockVars>>

\* efrp_connect_close_write: graceful linger first, then SHUT_WR.
CloseWrite ==
    /\ Open /\ ~write_closed
    /\ graceful_linger' = TRUE /\ linger' = "graceful"
    /\ write_closed' \in BOOLEAN        \* FALSE: shutdown() would block
    /\ UNCHANGED <<setting, refusals, obj, state, result, read_eof, late, dnsVars, fd, sock>>

\* Setting the option fails for good: the connection still has abortive linger.
CloseWriteRefused ==
    /\ Open /\ ~write_closed /\ ~graceful_linger /\ refuses
    /\ Stop("NETWORK")
    /\ UNCHANGED <<setting, obj, halves, late, done, answer, tcpip>>

\* shutdown() fails for good, graceful linger having been selected.
ShutdownFails ==
    /\ Open /\ ~write_closed
    /\ result' = "NETWORK" /\ Drain("NETWORK", TRUE)
    /\ UNCHANGED <<setting, obj, halves, late, done, answer, tcpip>>

\* efrp_connect_finish: both halves are over.
MayFinish == Open /\ write_closed /\ read_eof

efrp_connect_finish ==
    /\ MayFinish
    /\ Stop("OK")
    /\ UNCHANGED <<setting, obj, halves, late, done, answer, tcpip>>

\* efrp_connect_cancel: it supersedes a pending graceful close, not a failure.
CancelResult == IF state = "DRAINING" /\ result # "OK" THEN result ELSE "CANCELLED"

efrp_connect_cancel ==
    /\ Live /\ state # "CLOSED"
    /\ Stop(CancelResult)
    /\ UNCHANGED <<setting, obj, halves, late, done, answer, tcpip>>

\* efrp_connect_destroy: cancel, and free what is then closed.
efrp_connect_destroy ==
    /\ Live
    /\ IF state = "CLOSED"
       THEN UNCHANGED <<state, result, refusals, req, cancelled, sockVars>>
       ELSE Stop(CancelResult)
    /\ obj' = IF state' = "CLOSED" THEN "freed" ELSE "live"
    /\ UNCHANGED <<setting, halves, late, done, answer, tcpip>>

\* The clock reaches the deadline of the stage.
DeadlinePasses ==
    /\ Waiting /\ ~late
    /\ late' = TRUE
    /\ UNCHANGED <<setting, refusals, obj, state, result, halves, dnsVars, sockVars>>

Destroyed == obj = "freed" /\ UNCHANGED vars

-----------------------------------------------------------------------------
Create == efrp_connect_create \/ efrp_connect_create_ipv4 \/ efrp_connect_adopt_fd
Step == \/ StepDrains \/ StepTimeout \/ StepLookupFails \/ StepStartsTcp
        \/ StepConnected \/ StepConnectFails
Transfer == \/ TransferFails \/ efrp_connect_recv_eof \/ CloseWrite \/ CloseWriteRefused
            \/ ShutdownFails
Release == efrp_connect_finish \/ efrp_connect_cancel \/ efrp_connect_destroy

Next == Create \/ Step \/ Transfer \/ Release \/ Tcpip \/ DeadlinePasses \/ Destroyed

Spec == Init /\ [][Next]_vars

\* The owner steps the connection on every turn of its loop and destroys what
\* has been drained, the tcpip thread runs and the resolver answers or times
\* out, and the clock advances.  A pending connect() need never be decided.
Fairness ==
    /\ WF_vars(StepDrains \/ StepTimeout)
    /\ WF_vars(Tcpip)
    /\ WF_vars(DeadlinePasses)
    /\ WF_vars(state = "CLOSED" /\ efrp_connect_destroy)

FairSpec == Spec /\ Fairness

-----------------------------------------------------------------------------
(* What the connection promises. *)

\* "Last access to r": the tcpip thread never has a pointer to a request that
\* its owner has freed, and reads of a done request see a written answer.
RequestOutlivesThread ==
    /\ tcpip # "idle" => req = "allocated"
    /\ done => tcpip = "idle" /\ answer # "unwritten"

\* close() is called on a descriptor this object owns, and is repeated only
\* where a failed close keeps the socket (lwIP), never where the number may
\* already belong to somebody else (POSIX).
FdIsOurs == fd <=> sock \in {"new", "connected"}

\* A destroyed object leaves neither a socket nor a lookup behind.
NothingLeaks ==
    /\ obj = "freed" => state = "CLOSED"
    /\ state = "CLOSED" => ~fd /\ req # "allocated" /\ tcpip = "idle"

\* The peer sees an orderly end exactly for a stream whose two halves have
\* ended: every error and every cancellation resets it, as long as the stack
\* does not reject the option for good.
CloseMatchesResult ==
    /\ sock = "flushed" /\ ~refuses => result = "OK"
    /\ state = "CLOSED" /\ sock = "reset" => result # "OK"
    /\ result = "OK" /\ state \in {"DRAINING", "CLOSED"} /\ obj # "none" =>
          write_closed /\ read_eof

\* The first failure is the one reported: a late DNS answer, a cancel or a
\* destroy never replaces it; only a pending graceful close can be cancelled.
FirstResultWins ==
    [][Live /\ state \in {"DRAINING", "CLOSED"} /\ result' # result =>
          state = "DRAINING" /\ result = "OK" /\ result' = "CANCELLED"]_vars

\* A late DNS answer opens no socket on a connection that is draining, and a
\* drained connection never comes back.
NoRevival == [][Live /\ state \in {"DRAINING", "CLOSED"} =>
                  /\ state' \in {state, "CLOSED"}
                  /\ fd' => fd]_vars

\* An attempt ends: it opens, or its deadline drains it.
AttemptEnds == Waiting ~> state \in {"OPEN", "DRAINING", "CLOSED"}

\* Draining ends and the object can be freed: the late lookup gives its request
\* back and the stack's refusals end.
DrainEnds == Live /\ state = "DRAINING" ~> obj = "freed"
=============================================================================
