--------------------------- MODULE ConnectProofs ---------------------------
(* Proofs about one connection and its lookup, for every number of refusals. *)
EXTENDS Connect, TLAPS

USE RefusalsAssumption

-----------------------------------------------------------------------------
(* Type correctness. *)

\* What drain() and stop() leave behind has its type.
LEMMA DrainType ==
    ASSUME TypeOK, NEW r \in Failures \cup {"OK"}, NEW g \in BOOLEAN, Drain(r, g)
    PROVE  /\ state' \in {"DRAINING", "CLOSED"}
           /\ refusals' \in 0..MaxRefusals
           /\ req' \in {"none", "allocated", "freed"}
           /\ sock' \in {"none", "new", "connected", "closed", "flushed", "reset"}
           /\ linger' \in {"default", "abort", "graceful"}
           /\ fd' \in BOOLEAN /\ graceful_linger' \in BOOLEAN /\ cancelled' \in BOOLEAN
<1> USE DEF TypeOK, ObjectTypeOK, FlagsTypeOK, StackTypeOK
<1>1. state' \in {"DRAINING", "CLOSED"}
  BY DEF Drain
<1>2. refusals' \in 0..MaxRefusals
  BY DEF Drain, Refused, sockVars
<1>3. req' \in {"none", "allocated", "freed"}
  BY DEF Drain, FreedRequest
<1>4. cancelled' \in BOOLEAN
  BY DEF Drain
<1>5. /\ linger' \in {"default", "abort", "graceful"}
      /\ graceful_linger' \in BOOLEAN
  BY DEF Drain, SetAbort, Keep, sockVars
<1>6. fd' \in BOOLEAN
  BY DEF Drain, Closes, sockVars
<1>7. sock' \in {"none", "new", "connected", "closed", "flushed", "reset"}
  BY DEF Drain, Closes, Closed, sockVars
<1> QED
  BY <1>1, <1>2, <1>3, <1>4, <1>5, <1>6, <1>7

-----------------------------------------------------------------------------
(* The inductive invariant. *)

\* The request and the tcpip thread: a pointer to it is in the thread's hands
\* exactly as long as it is not done.
Lookup ==
    /\ tcpip # "idle" => req = "allocated"
    /\ tcpip # "idle" => ~done
    /\ req = "allocated" /\ tcpip = "idle" => done
    /\ done \/ tcpip = "storing" => answer # "unwritten"

\* What the object owns in each state.
Ownership ==
    /\ fd => sock \in {"new", "connected"}
    /\ ~fd => sock \notin {"new", "connected"}
    /\ state = "CLOSED" => ~fd
    /\ state = "RESOLVING" => sock = "none"
    /\ state = "CONNECTING" => sock \in {"none", "new"}
    /\ state = "OPEN" => sock = "connected"
    /\ req = "allocated" => state \in {"RESOLVING", "DRAINING"}
    /\ obj = "none" => state = "CLOSED" /\ req = "none" /\ sock = "none"
    /\ obj = "none" => ~done /\ ~graceful_linger
    /\ obj = "freed" => state = "CLOSED"

\* The linger option of a connected socket is the one the object remembers, and
\* it is graceful as soon as one half is closed.
Lingering ==
    /\ graceful_linger => sock \notin {"none", "new"}
    /\ sock = "connected" => linger = (IF graceful_linger THEN "graceful" ELSE "abort")
    /\ state = "CONNECTING" /\ fd => linger = "abort"
    /\ state = "OPEN" /\ write_closed => graceful_linger
    /\ obj = "none" \/ state \in {"RESOLVING", "CONNECTING"} => ~write_closed

\* The result in each state, and what close() did.
Outcome ==
    /\ obj = "none" \/ state \in {"RESOLVING", "CONNECTING", "OPEN"} => result = "OK"
    /\ state = "DRAINING" /\ result = "OK" =>
          write_closed /\ read_eof /\ sock = "connected" /\ graceful_linger
    /\ state = "CLOSED" /\ result = "OK" /\ obj # "none" =>
          write_closed /\ read_eof /\ sock = "flushed"
    /\ sock \in {"closed", "reset", "flushed"} => state = "CLOSED"
    /\ sock = "flushed" => refuses \/ result = "OK"

IInv == Lookup /\ Ownership /\ Lingering /\ Outcome

\* Everything that is inductive together: the type of `result' rests on Lookup,
\* because a failed lookup's answer becomes the result.
Inv == TypeOK /\ IInv

\* A call that drains: the result r, the linger g, and the object that is left.
Draining(r, g) ==
    /\ Live /\ state # "CLOSED"
    /\ result' = r /\ Drain(r, g)
    /\ g = graceful_linger \/ (state = "OPEN" /\ g = TRUE)
    /\ r = "OK" => write_closed /\ read_eof /\ sock = "connected" /\ graceful_linger
    /\ obj' = "live" \/ (obj' = "freed" /\ state' = "CLOSED")
    /\ UNCHANGED <<setting, halves, late, done, answer, tcpip>>

\* Initially nothing is owned.
LEMMA InitInv == Init => Inv
<1> SUFFICES ASSUME Init PROVE Inv
  OBVIOUS
<1>1. ObjectTypeOK /\ StackTypeOK
  BY DEF Init, ObjectTypeOK, StackTypeOK, States
<1>2. FlagsTypeOK
  BY DEF Init, FlagsTypeOK
<1>3. IInv
  BY DEF Init, IInv, Lookup, Ownership, Lingering, Outcome
<1> QED
  BY <1>1, <1>2, <1>3 DEF Inv, TypeOK

\* drain(), from wherever it is called, keeps the invariant.
LEMMA DrainingInv ==
    ASSUME Inv, NEW r \in Failures \cup {"OK"}, NEW g \in BOOLEAN, Draining(r, g)
    PROVE  Inv'
<1> USE DEF Draining, Inv, IInv, Live
<1>1. TypeOK'
  <2>1. Drain(r, g)
    OBVIOUS
  <2>2. ObjectTypeOK'
    BY <2>1, DrainType DEF TypeOK, ObjectTypeOK, States, Failures
  <2>3. FlagsTypeOK'
    BY <2>1, DrainType DEF TypeOK, FlagsTypeOK, setting, halves
  <2>4. StackTypeOK'
    BY <2>1, DrainType DEF TypeOK, StackTypeOK
  <2> QED
    BY <2>2, <2>3, <2>4 DEF TypeOK
<1> USE DEF TypeOK, ObjectTypeOK, FlagsTypeOK, StackTypeOK
<1>2. Lookup'
  BY DEF Lookup, Drain, DnsBusy, FreedRequest
<1>3. Ownership'
  BY DEF Lookup, Ownership, Drain, DnsBusy, FreedRequest, Closes, Closed, sockVars
<1>4. Lingering'
  BY DEF Ownership, Lingering, Drain, SetAbort, Keep, MustAbort, Closes, Closed, sockVars, halves
<1>5. Outcome'
  BY DEF Lookup, Ownership, Lingering, Outcome, Drain, DnsBusy, SetAbort, Keep, MustAbort, Closes,
         Closed, sockVars, halves, setting, Failures
<1> QED
  BY <1>1, <1>2, <1>3, <1>4, <1>5

\* The calls that drain, by what they pass to drain().
LEMMA DrainingCalls ==
    ASSUME Inv,
           \/ StepDrains \/ StepTimeout \/ StepLookupFails \/ StepConnectFails
           \/ TransferFails \/ CloseWriteRefused \/ ShutdownFails
           \/ efrp_connect_finish \/ efrp_connect_cancel
           \/ (state # "CLOSED" /\ efrp_connect_destroy)
    PROVE  \E r \in Failures \cup {"OK"}, g \in BOOLEAN : Draining(r, g)
<1> USE DEF Inv, TypeOK, ObjectTypeOK, FlagsTypeOK, Live, Stop
<1>1. CASE StepDrains
  <2>1. Draining(result, graceful_linger)
    BY <1>1 DEF StepDrains, Draining, IInv, Outcome
  <2> QED
    BY <2>1
<1>2. CASE StepTimeout
  <2>1. Draining("TIMEOUT", graceful_linger)
    BY <1>2 DEF StepTimeout, Waiting, Draining
  <2> QED
    BY <2>1 DEF Failures
<1>3. CASE StepLookupFails
  <2>1. answer = "DNS"
    BY <1>3 DEF StepLookupFails, IInv, Lookup, StackTypeOK
  <2>2. Draining("DNS", graceful_linger)
    BY <1>3, <2>1 DEF StepLookupFails, Waiting, Draining
  <2> QED
    BY <2>2 DEF Failures
<1>4. CASE StepConnectFails \/ TransferFails \/ CloseWriteRefused
  <2>1. Draining("NETWORK", graceful_linger)
    BY <1>4 DEF StepConnectFails, TransferFails, CloseWriteRefused, Waiting, Open, Draining
  <2> QED
    BY <2>1 DEF Failures
<1>5. CASE ShutdownFails
  <2>1. Draining("NETWORK", TRUE)
    BY <1>5 DEF ShutdownFails, Open, Draining
  <2> QED
    BY <2>1 DEF Failures
<1>6. CASE efrp_connect_finish
  <2>1. Draining("OK", graceful_linger)
    BY <1>6 DEF efrp_connect_finish, MayFinish, Open, Draining, IInv, Ownership, Lingering
  <2> QED
    BY <2>1
<1>7. CASE efrp_connect_cancel \/ (state # "CLOSED" /\ efrp_connect_destroy)
  <2>1. CancelResult \in Failures
    BY DEF CancelResult, Failures
  <2>2. Draining(CancelResult, graceful_linger)
    BY <1>7, <2>1 DEF efrp_connect_cancel, efrp_connect_destroy, Draining, Failures
  <2> QED
    BY <2>1, <2>2
<1> QED
  BY <1>1, <1>2, <1>3, <1>4, <1>5, <1>6, <1>7

\* Creation, the start and the end of connecting, and the orderly ends of the
\* two halves.
LEMMA CallsInv ==
    ASSUME Inv,
           \/ efrp_connect_create \/ efrp_connect_create_ipv4 \/ efrp_connect_adopt_fd
           \/ StepStartsTcp \/ StepConnected \/ efrp_connect_recv_eof \/ CloseWrite
           \/ (state = "CLOSED" /\ efrp_connect_destroy)
           \/ DeadlinePasses
    PROVE  Inv'
<1> USE DEF Inv, TypeOK, IInv, ObjectTypeOK, StackTypeOK, Live, sockVars, dnsVars, halves, setting
<1>1. CASE efrp_connect_create
  <2> USE <1>1 DEF efrp_connect_create
  <2>1. ObjectTypeOK' /\ StackTypeOK'
    BY DEF States
  <2>2. FlagsTypeOK'
    BY DEF FlagsTypeOK
  <2>3. Lookup' /\ Ownership'
    BY DEF Lookup, Ownership, FlagsTypeOK
  <2>4. Lingering' /\ Outcome'
    BY DEF Ownership, Lingering, Outcome, FlagsTypeOK
  <2> QED
    BY <2>1, <2>2, <2>3, <2>4
<1>2. CASE efrp_connect_create_ipv4
  <2> USE <1>2 DEF efrp_connect_create_ipv4
  <2>1. ObjectTypeOK' /\ StackTypeOK'
    BY DEF States
  <2>2. FlagsTypeOK'
    BY DEF FlagsTypeOK
  <2>3. Lookup' /\ Ownership'
    BY DEF Lookup, Ownership, FlagsTypeOK
  <2>4. Lingering' /\ Outcome'
    BY DEF Ownership, Lingering, Outcome, FlagsTypeOK
  <2> QED
    BY <2>1, <2>2, <2>3, <2>4
<1>3. CASE efrp_connect_adopt_fd
  <2> USE <1>3 DEF efrp_connect_adopt_fd
  <2>1. ObjectTypeOK' /\ StackTypeOK'
    BY DEF States
  <2>2. FlagsTypeOK'
    BY DEF FlagsTypeOK
  <2>3. Lookup' /\ Ownership'
    BY DEF Lookup, Ownership, FlagsTypeOK
  <2>4. Lingering' /\ Outcome'
    BY DEF Ownership, Lingering, Outcome, FlagsTypeOK
  <2> QED
    BY <2>1, <2>2, <2>3, <2>4
<1>4. CASE StepStartsTcp
  <2> USE <1>4 DEF StepStartsTcp, StartTcp, Waiting
  <2>1. ObjectTypeOK'
    BY DEF States, Failures, Refused
  <2>2. StackTypeOK'
    BY DEF FreedRequest
  <2>3. FlagsTypeOK'
    BY DEF FlagsTypeOK
  <2>4. req' # "allocated" /\ sock = "none" /\ ~fd /\ ~graceful_linger
    BY DEF FreedRequest, Ownership, Lingering, FlagsTypeOK
  <2>5. Lookup'
    BY DEF Lookup, Ownership, FreedRequest, FlagsTypeOK
  <2>6. Ownership'
    BY <2>4 DEF Ownership, FlagsTypeOK
  <2>7. Lingering'
    BY <2>4 DEF Lingering, FlagsTypeOK
  <2>8. Outcome'
    BY <2>4 DEF Outcome, FlagsTypeOK
  <2> QED
    BY <2>1, <2>2, <2>3, <2>5, <2>6, <2>7, <2>8
<1>5. CASE StepConnected
  <2> USE <1>5 DEF StepConnected, Waiting
  <2>1. ObjectTypeOK' /\ StackTypeOK'
    BY DEF States
  <2>2. FlagsTypeOK'
    BY DEF FlagsTypeOK
  <2>3. Lookup' /\ Ownership'
    BY DEF Lookup, Ownership, FlagsTypeOK
  <2>4. Lingering' /\ Outcome'
    BY DEF Ownership, Lingering, Outcome, FlagsTypeOK
  <2> QED
    BY <2>1, <2>2, <2>3, <2>4
<1>6. CASE efrp_connect_recv_eof \/ DeadlinePasses
  <2> USE <1>6 DEF efrp_connect_recv_eof, DeadlinePasses, Open
  <2>1. ObjectTypeOK' /\ StackTypeOK'
    OBVIOUS
  <2>2. FlagsTypeOK'
    BY DEF FlagsTypeOK
  <2>3. IInv'
    BY DEF Lookup, Ownership, Lingering, Outcome, FlagsTypeOK
  <2> QED
    BY <2>1, <2>2, <2>3
<1>7. CASE CloseWrite
  <2> USE <1>7 DEF CloseWrite, Open
  <2>1. ObjectTypeOK' /\ StackTypeOK'
    OBVIOUS
  <2>2. FlagsTypeOK'
    BY DEF FlagsTypeOK
  <2>3. IInv'
    BY DEF Lookup, Ownership, Lingering, Outcome, FlagsTypeOK
  <2> QED
    BY <2>1, <2>2, <2>3
<1>8. CASE (state = "CLOSED" /\ efrp_connect_destroy)
  <2> USE <1>8 DEF efrp_connect_destroy
  <2>1. ObjectTypeOK' /\ StackTypeOK'
    OBVIOUS
  <2>2. FlagsTypeOK'
    BY DEF FlagsTypeOK
  <2>3. IInv'
    BY DEF Lookup, Ownership, Lingering, Outcome, FlagsTypeOK
  <2> QED
    BY <2>1, <2>2, <2>3
<1> QED
  BY <1>1, <1>2, <1>3, <1>4, <1>5, <1>6, <1>7, <1>8

\* The tcpip thread touches only the request.
LEMMA TcpipInv ==
    ASSUME Inv, Tcpip
    PROVE  Inv'
<1> USE DEF Inv, TypeOK, IInv, Tcpip, Dispatch, Found, StoreDone, Complete,
            sockVars, halves, setting
<1>1. ObjectTypeOK'
  BY DEF ObjectTypeOK
<1>2. StackTypeOK'
  BY DEF StackTypeOK
<1>3. FlagsTypeOK'
  BY DEF FlagsTypeOK
<1>4. Lookup'
  BY DEF Lookup, FlagsTypeOK, StackTypeOK
<1>5. Ownership'
  BY DEF Lookup, Ownership, FlagsTypeOK
<1>6. Lingering' /\ Outcome'
  BY DEF Lingering, Outcome
<1> QED
  BY <1>1, <1>2, <1>3, <1>4, <1>5, <1>6

\* Every step keeps the invariant.
LEMMA NextInv == Inv /\ [Next]_vars => Inv'
<1> SUFFICES ASSUME Inv, [Next]_vars PROVE Inv'
  OBVIOUS
<1>1. CASE UNCHANGED vars
  BY <1>1 DEF Inv, TypeOK, ObjectTypeOK, FlagsTypeOK, StackTypeOK, IInv, Lookup, Ownership,
     Lingering, Outcome, vars, sockVars, dnsVars, halves, setting
<1>2. CASE Tcpip
  BY <1>2, TcpipInv
<1>3. CASE Create \/ StepStartsTcp \/ StepConnected \/ efrp_connect_recv_eof \/ CloseWrite
           \/ (state = "CLOSED" /\ efrp_connect_destroy) \/ DeadlinePasses
  BY <1>3, CallsInv DEF Create
<1>4. CASE \/ StepDrains \/ StepTimeout \/ StepLookupFails \/ StepConnectFails
           \/ TransferFails \/ CloseWriteRefused \/ ShutdownFails
           \/ efrp_connect_finish \/ efrp_connect_cancel
           \/ (state # "CLOSED" /\ efrp_connect_destroy)
  BY <1>4, DrainingCalls, DrainingInv
<1> QED
  BY <1>1, <1>2, <1>3, <1>4 DEF Next, Create, Step, Transfer, Release, Destroyed

\* Inv is an invariant of the connection.
LEMMA AlwaysInv == Spec => []Inv
BY InitInv, NextInv, PTL DEF Spec

-----------------------------------------------------------------------------
(* What it implies. *)

\* Every variable of the connection keeps its type.
THEOREM TypeCorrect == Spec => []TypeOK
<1>1. Inv => TypeOK
  BY DEF Inv
<1> QED
  BY <1>1, AlwaysInv, PTL

\* The tcpip thread never holds a pointer to a freed request (dns_lwip.c: the
\* done flag is its last access).
THEOREM RequestSafe == Spec => []RequestOutlivesThread
<1>1. Inv => RequestOutlivesThread
  BY DEF Inv, IInv, Lookup, RequestOutlivesThread, TypeOK, FlagsTypeOK
<1> QED
  BY <1>1, AlwaysInv, PTL

\* The descriptor is this object's own socket until it is closed, on both builds.
THEOREM DescriptorSafe == Spec => []FdIsOurs
<1>1. Inv => FdIsOurs
  BY DEF Inv, IInv, Ownership, FdIsOurs, TypeOK, FlagsTypeOK
<1> QED
  BY <1>1, AlwaysInv, PTL

\* efrp_connect_destroy frees an object that owns nothing any more.
THEOREM NoLeak == Spec => []NothingLeaks
<1>1. Inv => NothingLeaks
  BY DEF Inv, IInv, Lookup, Ownership, NothingLeaks, TypeOK, FlagsTypeOK
<1> QED
  BY <1>1, AlwaysInv, PTL

\* The peer sees FIN or RST according to the result drain() closed with.
THEOREM CloseFaithful == Spec => []CloseMatchesResult
<1>1. Inv => CloseMatchesResult
  BY DEF Inv, IInv, Ownership, Outcome, CloseMatchesResult, TypeOK, FlagsTypeOK
<1> QED
  BY <1>1, AlwaysInv, PTL

\* A draining or closed connection takes no step but those of its drain and of
\* the tcpip thread.
LEMMA LateSteps ==
    ASSUME Inv, Next, Live, state \in {"DRAINING", "CLOSED"}
    PROVE  \/ UNCHANGED <<state, result, fd>>
           \/ /\ state = "DRAINING"
              /\ result' = result \/ (result = "OK" /\ result' = "CANCELLED")
              /\ state' \in {"DRAINING", "CLOSED"}
              /\ fd' => fd
<1> USE DEF Inv, TypeOK, FlagsTypeOK, Live
<1>1. CASE Tcpip \/ Destroyed \/ DeadlinePasses
  BY <1>1 DEF Tcpip, Dispatch, Found, StoreDone, DeadlinePasses, Waiting, Destroyed, vars, sockVars
<1>2. CASE StepDrains
  BY <1>2 DEF StepDrains, Drain, Closes, sockVars
<1>3. CASE efrp_connect_cancel \/ efrp_connect_destroy
  BY <1>3 DEF efrp_connect_cancel, efrp_connect_destroy, Stop, CancelResult, Drain, Closes, sockVars
<1> QED
  BY <1>1, <1>2, <1>3
     DEF Next, Create, Step, Transfer, Release, StepTimeout, StepLookupFails, StepStartsTcp,
         StepConnected, StepConnectFails, Waiting, TransferFails, efrp_connect_recv_eof, CloseWrite,
         CloseWriteRefused, ShutdownFails, Open, efrp_connect_finish, MayFinish,
         efrp_connect_create, efrp_connect_create_ipv4, efrp_connect_adopt_fd

\* A late answer, a cancel or a destroy never replaces a reported failure.
THEOREM FirstResult == Spec => FirstResultWins
<1>1. Inv /\ [Next]_vars =>
        [Live /\ state \in {"DRAINING", "CLOSED"} /\ result' # result =>
           state = "DRAINING" /\ result = "OK" /\ result' = "CANCELLED"]_vars
  BY LateSteps DEF vars
<1> QED
  BY <1>1, AlwaysInv, PTL DEF Spec, FirstResultWins

\* A drained connection never opens again and acquires no socket.
THEOREM StaysDown == Spec => NoRevival
<1>1. Inv /\ [Next]_vars =>
        [Live /\ state \in {"DRAINING", "CLOSED"} =>
           /\ state' \in {state, "CLOSED"}
           /\ fd' => fd]_vars
  BY LateSteps DEF vars
<1> QED
  BY <1>1, AlwaysInv, PTL DEF Spec, NoRevival
=============================================================================
