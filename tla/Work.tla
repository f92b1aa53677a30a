--------------------------------- MODULE Work ---------------------------------
(***************************************************************************)
(* The work streams of a session (work.c, with tcp_listener.c): admission   *)
(* of a stream, forwarding between it and a local socket with half-close,   *)
(* and the cleanup of both.                                                 *)
(*                                                                          *)
(* efrp_work_step, efrp_work_visit_step and efrp_work_peer_step are loops   *)
(* of one task: `at' is where the loop is and `slot' the stream it is at.   *)
(* Every call of the stream, the socket and the heap may give any of its    *)
(* results.  Bytes are numbered, so that order and loss can be told.        *)
(***************************************************************************)
EXTENDS Integers, Sequences, FiniteSets

CONSTANTS
    Roles,              \* the work sets that may be created
    NumSlots,           \* 3 in the code
    SocketLimit,        \* 2 in the code
    PendingLimit,       \* 3 in the code
    BufferSize,         \* sizeof incoming and outgoing
    ResponseTime,       \* EFRP_SESSION_RESPONSE_MS
    ConnectTime,        \* EFRP_CONNECT_TCP_MS
    StallTime,          \* EFRP_WORK_IO_STALL_MS
    IdleTime,           \* EFRP_WORK_IDLE_MS
    CleanupTime,        \* EFRP_WORK_CLEANUP_MS
    MaxElapsed,         \* model bound on the time between two steps
    StreamBytes,        \* model bound on what a stream brings
    LocalBytes          \* model bound on what a local socket brings

Provider == "provider"              \* TCP, STCP, HTTP and HTTPS
Udp == "udp"
Visitor == "visitor"
PeerProvider == "peer provider"     \* XTCP, over a QUIC connection of the two peers
PeerVisitor == "peer visitor"

ASSUME WorkRoles == Roles \subseteq {Provider, Udp, Visitor, PeerProvider, PeerVisitor}
ASSUME WorkSizes ==
    {NumSlots, SocketLimit, PendingLimit, BufferSize, ResponseTime, ConnectTime, StallTime, IdleTime,
     CleanupTime} \subseteq Nat \ {0}
ASSUME WorkBounds == {MaxElapsed, StreamBytes, LocalBytes} \subseteq Nat

VARIABLES
    role, pending,
    streams,            \* the slots
    handshake_json,     \* the shared buffer of the admission is allocated
    unsettled,          \* requests - rejected_requests - completed - failed
    at, slot, visited, cursor,
    listener,           \* "none", "listening" or "closing"
    accepted,           \* the listener keeps an accepted socket that nobody adopted
    ended, drained      \* why the session ended; efrp_work_cancel said that it is done

setVars == <<pending, handshake_json, unsettled>>
loopVars == <<at, slot, visited, cursor>>
listenerVars == <<listener, accepted>>
endVars == <<ended, drained>>
vars == <<role, setVars, streams, loopVars, listenerVars, endVars>>

Slots == 0..(NumSlots - 1)
Later(a, b) == IF a > b THEN a ELSE b

Phases == {"none", "SENDING", "WAITING", "CONNECTING", "ACTIVE", "CLOSING", "PEER_OPENING"}
\* The bytes of each direction, what is left of a deadline and how long something waits.
InBytes == Seq(1..StreamBytes)
OutBytes == Seq(1..LocalBytes)
Taken == 0..StreamBytes
Given == 0..LocalBytes
Lefts == 0..Later(ResponseTime, CleanupTime)
ConnectLefts == 0..ConnectTime
Idles == 0..IdleTime
Ages == 0..StallTime
Stream == [
    phase : Phases,
    result : {"OK", "FAILED"},
    stream : {"none", "open", "reset"},
    \* the socket's state in connect.c; "lingering" drains after finish()
    local : {"none", "connecting", "open", "lingering", "draining", "closed"},
    udp : BOOLEAN,              \* the source sockets of a UDP stream exist
    request : BOOLEAN,          \* the request has not been written
    reader : BOOLEAN,           \* the frame reader uses handshake_json
    partial : BOOLEAN,          \* partial_header
    incoming : InBytes, outgoing : OutBytes,
    remote_eof : BOOLEAN, local_fin : BOOLEAN, local_eof : BOOLEAN, stream_fin : BOOLEAN,
    left : Lefts, connect_left : ConnectLefts,
    idle : Idles, in_age : Ages, out_age : Ages, fin_age : Ages,
    taken : Taken, given : Given,       \* bytes read from the stream and the socket
    local_got : InBytes, stream_got : OutBytes]

Empty == [
    phase |-> "none", result |-> "OK", stream |-> "none", local |-> "none", udp |-> FALSE,
    request |-> FALSE, reader |-> FALSE, partial |-> FALSE, incoming |-> <<>>, outgoing |-> <<>>,
    remote_eof |-> FALSE, local_fin |-> FALSE, local_eof |-> FALSE, stream_fin |-> FALSE,
    left |-> 0, connect_left |-> 0, idle |-> 0, in_age |-> 0, out_age |-> 0, fin_age |-> 0,
    taken |-> 0, given |-> 0, local_got |-> <<>>, stream_got |-> <<>>]

Locations == {"idle", "admit", "slot", "handshake", "frame", "connect", "timers", "read", "send", "fin",
              "recv", "write", "close", "udp", "cleanup", "local", "free"}

TypeOK ==
    /\ role \in Roles /\ pending \in 0..PendingLimit
    /\ streams \in [Slots -> Stream]
    /\ handshake_json \in BOOLEAN /\ unsettled \in 0..(PendingLimit + NumSlots)
    /\ at \in Locations /\ slot \in Slots /\ visited \in Slots /\ cursor \in Slots
    /\ listener \in {"none", "listening", "closing"} /\ accepted \in BOOLEAN
    /\ ended \in {"no", "NO_MEMORY", "transport", "listener", "INVALID_STATE", "cancelled"} /\ drained \in BOOLEAN

\* efrp_work_init, efrp_work_visit_init with efrp_work_visit_start, efrp_work_peer_init.
Init ==
    /\ role \in Roles /\ pending = 0
    /\ streams = [s \in Slots |-> Empty]
    /\ handshake_json = FALSE /\ unsettled = 0
    /\ at = "idle" /\ slot = 0 /\ visited = 0 /\ cursor = 0
    /\ listener = (IF role = Visitor THEN "listening" ELSE "none") /\ accepted = FALSE
    /\ ended = "no" /\ drained = FALSE

Me == streams[slot]
Put(w) == streams' = [streams EXCEPT ![slot] = w]
In(phases) == {s \in Slots : streams[s].phase \in phases}
Occupied == Slots \ In({"none"})
FirstFree == CHOOSE s \in In({"none"}) : \A t \in In({"none"}) : s <= t
Admitting == In({"SENDING", "WAITING"})
Rest == <<role, pending, cursor, listenerVars, endVars>>

-----------------------------------------------------------------------------
(* Closing a stream. *)

Halves(w, kept) ==
    [w EXCEPT !.remote_eof = @ /\ kept, !.local_fin = @ /\ kept,
              !.local_eof = @ /\ kept, !.stream_fin = @ /\ kept]
\* What is not looked at again, such as the halves of a stream that failed, is reset.
Dropped(w) ==
    [w EXCEPT !.reader = FALSE, !.partial = FALSE, !.request = FALSE, !.incoming = <<>>, !.outgoing = <<>>,
              !.idle = 0, !.in_age = 0, !.out_age = 0, !.fin_age = 0]
Closed(w, reason) ==
    [Dropped(Halves(w, reason = "OK")) EXCEPT
        !.phase = "CLOSING", !.result = IF reason = "OK" THEN "OK" ELSE "FAILED",
        !.left = IF reason = "OK" THEN CleanupTime ELSE 0]

\* release_handshake, when the stream is in admission.
KeepsBuffer(w) == handshake_json /\ w.phase \notin {"SENDING", "WAITING"}

\* close_work on the stream that the loop is at; its cleanup follows at once.
close_work(w, reason) ==
    /\ Put(Closed(w, reason))
    /\ handshake_json' = KeepsBuffer(w)
    /\ unsettled' = unsettled - (IF reason = "OK" THEN 0 ELSE 1)
    /\ at' = "cleanup"
    /\ UNCHANGED <<Rest, slot, visited>>

\* efrp_work_cancel: a slot is kept while a socket of it is being closed.
Holds(w) == w.udp \/ w.local \notin {"none", "closed"}
Draining(w) ==
    [Empty EXCEPT !.phase = "CLOSING", !.udp = w.udp, !.local = IF w.local = "none" THEN "none" ELSE "draining"]

\* Both sockets of the listener are closed, each as often as that takes.
efrp_tcp_listener_destroy ==
    /\ accepted' \in {accepted, FALSE}
    /\ \/ listener' = "none" /\ ~accepted'
       \/ listener # "none" /\ listener' = "closing"

\* An error that step() returns ends the session, which cancels its work until
\* that is done.
Cancels(code) ==
    /\ ended' = code /\ at' = "idle" /\ slot' = 0 /\ visited' = 0 /\ cursor' = 0
    /\ pending' = 0 /\ handshake_json' = FALSE /\ unsettled' = 0
    /\ \E slow \in SUBSET {s \in Slots : Holds(streams[s])} :
          streams' = [s \in Slots |-> IF s \in slow THEN Draining(streams[s]) ELSE Empty]
    /\ efrp_tcp_listener_destroy
    /\ drained' = (listener' = "none" /\ \A s \in Slots : streams'[s].phase = "none")
    /\ UNCHANGED role

efrp_work_cancel ==
    /\ at = "idle" /\ ~drained
    /\ Cancels(IF ended = "no" THEN "cancelled" ELSE ended)

Goes(w, next) ==
    /\ Put(w) /\ at' = next
    /\ UNCHANGED <<Rest, handshake_json, unsettled, slot, visited>>

\* The end of step_streams' loop body.
NextSlot ==
    IF visited + 1 < NumSlots
    THEN at' = "slot" /\ slot' = (slot + 1) % NumSlots /\ visited' = visited + 1 /\ UNCHANGED cursor
    ELSE at' = "idle" /\ slot' = 0 /\ visited' = 0 /\ cursor' = (cursor + 1) % NumSlots

Leaves(w) ==
    /\ Put(w) /\ NextSlot
    /\ UNCHANGED <<role, setVars, listenerVars, endVars>>

-----------------------------------------------------------------------------
(* Between two steps: time, requests, and resets by the other side. *)

After(left, elapsed) == IF left > elapsed THEN left - elapsed ELSE 0
Older(live, age, elapsed, limit) ==
    IF ~live THEN 0 ELSE IF age + elapsed < limit THEN age + elapsed ELSE limit

Aged(w, elapsed) ==
    [w EXCEPT !.left = After(w.left, elapsed), !.connect_left = After(w.connect_left, elapsed),
              !.idle = Older(w.phase = "ACTIVE" /\ ~w.udp, w.idle, elapsed, IdleTime),
              !.in_age = Older(w.incoming # <<>>, w.in_age, elapsed, StallTime),
              !.out_age = Older(w.outgoing # <<>>, w.out_age, elapsed, StallTime),
              !.fin_age = Older(w.remote_eof /\ ~w.local_fin, w.fin_age, elapsed, StallTime)]

Running == at = "idle" /\ ended = "no"

StepBegins(elapsed) ==
    /\ Running
    /\ streams' = [s \in Slots |-> Aged(streams[s], elapsed)]
    /\ at' = "admit"
    /\ UNCHANGED <<Rest, handshake_json, unsettled, slot, visited>>

\* A request beyond the limit is counted and rejected.
efrp_work_request ==
    /\ Running /\ role \in {Provider, Udp}
    /\ IF pending = PendingLimit THEN UNCHANGED <<pending, unsettled>>
       ELSE pending' = pending + 1 /\ unsettled' = unsettled + 1
    /\ UNCHANGED <<role, streams, handshake_json, loopVars, listenerVars, endVars>>

\* The XTCP controller hands over an accepted socket.
efrp_work_peer_adopt ==
    /\ Running /\ role = PeerVisitor
    /\ Cardinality(Occupied) < SocketLimit /\ In({"none"}) # {}
    /\ streams' = [streams EXCEPT ![FirstFree] =
                      [Empty EXCEPT !.phase = "PEER_OPENING", !.local = "open", !.left = ResponseTime]]
    /\ unsettled' = unsettled + 1
    /\ UNCHANGED <<role, pending, handshake_json, loopVars, listenerVars, endVars>>

\* The peer, or the mux when its ring is blocked for too long, resets a stream.
StreamResets(s) ==
    /\ Running /\ streams[s].stream = "open"
    /\ streams' = [streams EXCEPT ![s].stream = "reset"]
    /\ UNCHANGED <<role, setVars, loopVars, listenerVars, endVars>>

-----------------------------------------------------------------------------
(* Admission. *)

ToSlots == at' = "slot" /\ slot' = cursor /\ visited' = 0 /\ UNCHANGED cursor

\* A socket that was left behind is closed first.
efrp_tcp_listener_ready == accepted' \in {accepted, FALSE}

\* Nothing is due, or the stream or the listener has nothing now.
NoAdmission ==
    /\ at = "admit" /\ ToSlots
    /\ efrp_tcp_listener_ready
    /\ UNCHANGED <<role, setVars, streams, listener, endVars>>

\* The request cannot be built, or the socket to the target not be made.
Unbuilt(w) == Closed([w EXCEPT !.local = IF @ = "open" THEN @ ELSE "none", !.connect_left = 0], "FAILED")

Asked == role \in {Provider, Udp}   \* the request has been counted when it came
Admits(w) ==
    /\ at = "admit" /\ ToSlots /\ In({"none"}) # {}
    /\ \/ /\ streams' = [streams EXCEPT ![FirstFree] = w]
          /\ unsettled' = unsettled + (IF Asked THEN 0 ELSE 1)
       \/ /\ streams' = [streams EXCEPT ![FirstFree] = Unbuilt(w)]
          /\ unsettled' = unsettled - (IF Asked THEN 1 ELSE 0)
    /\ UNCHANGED <<role, handshake_json, listener, endVars>>

\* efrp_work_step opens a stream for a pending request, one at a time.
Mut_WorkDue == role \in {Provider, Udp} /\ pending > 0
WorkDue == role \in {Provider, Udp} /\ pending > 0 /\ Admitting = {}
OpenWork ==
    /\ WorkDue /\ pending' = pending - 1
    /\ Admits([Empty EXCEPT !.phase = "SENDING", !.stream = "open", !.request = TRUE, !.left = ResponseTime])
    /\ UNCHANGED accepted

\* efrp_work_visit_step accepts a connection.  What the listener still holds, and
\* streams that are being closed, count.
VisitDue ==
    /\ role = Visitor /\ listener = "listening" /\ Admitting = {}
    /\ Cardinality(Occupied) + (IF accepted THEN 1 ELSE 0) < SocketLimit
AcceptVisit ==
    /\ VisitDue /\ accepted' = FALSE
    /\ Admits([Empty EXCEPT !.phase = "SENDING", !.local = "open", !.request = TRUE, !.left = ResponseTime])
    /\ UNCHANGED pending

\* efrp_connect_adopt_fd refuses the socket, which may take time to close.
AdoptFails ==
    /\ at = "admit" /\ VisitDue /\ In({"none"}) # {} /\ ToSlots
    /\ accepted' \in BOOLEAN
    /\ UNCHANGED <<role, setVars, streams, listener, endVars>>

\* efrp_work_peer_step accepts a stream of the peer.
PeerDue == role = PeerProvider /\ Cardinality(Occupied) < SocketLimit
AcceptPeer ==
    /\ PeerDue
    /\ Admits([Empty EXCEPT !.phase = "CONNECTING", !.stream = "open", !.local = "connecting",
                            !.connect_left = ConnectTime])
    /\ UNCHANGED <<pending, accepted>>

AdmissionFails ==
    /\ at = "admit"
    /\ \/ (WorkDue \/ VisitDue \/ PeerDue) /\ In({"none"}) # {} /\ Cancels("NO_MEMORY")
       \/ (WorkDue \/ PeerDue) /\ In({"none"}) # {} /\ Cancels("transport")
       \/ role = Visitor /\ Cancels("listener")

-----------------------------------------------------------------------------
(* step_streams: what the stream is at. *)

Where(w) ==
    CASE w.phase = "SENDING" -> "handshake"
      [] w.phase = "WAITING" -> "frame"
      [] w.phase \in {"CONNECTING", "ACTIVE"} /\ role = Udp -> "udp"
      [] w.phase = "CONNECTING" /\ role # Udp -> "connect"
      [] w.phase = "ACTIVE" /\ role # Udp -> "timers"
      [] w.phase = "CLOSING" -> "cleanup"

SkipSlot == at = "slot" /\ Me.phase = "none" /\ Leaves(Me)

PeerOpening == at = "slot" /\ Me.phase = "PEER_OPENING"
PeerOpens ==
    /\ PeerOpening
    /\ \/ Me.left = 0 /\ close_work(Me, "TIMEOUT")
       \/ Me.left > 0 /\ Leaves(Me)
       \/ Me.left > 0 /\ close_work(Me, "FAILED")
       \/ Me.left > 0 /\ Goes([Me EXCEPT !.phase = "ACTIVE", !.stream = "open", !.left = 0], "timers")

SeesReset == at = "slot" /\ Me.phase \notin {"none", "PEER_OPENING", "CLOSING"} /\ Me.stream = "reset" /\ close_work(Me, "FAILED")

EnterSlot ==
    /\ at = "slot" /\ Me.phase \notin {"none", "PEER_OPENING"}
    /\ Me.stream = "reset" => Me.phase = "CLOSING"
    /\ Goes(Me, Where(Me))

StreamInfoFails == at = "slot" /\ Me.phase \notin {"none", "CLOSING"} /\ Me.stream # "none" /\ Cancels("transport")

-----------------------------------------------------------------------------
(* handshake_work. *)

\* A visitor's stream is opened when the mux has room for it.
VisitorOpens ==
    /\ at = "handshake" /\ Me.stream = "none"
    /\ \/ Me.left = 0 /\ close_work(Me, "TIMEOUT")
       \/ Me.left > 0 /\ Leaves(Me)
       \/ Me.left > 0 /\ close_work(Me, "FAILED")
       \/ Me.left > 0 /\ Goes([Me EXCEPT !.stream = "open"], "handshake")

SendRequest ==
    /\ at = "handshake" /\ Me.stream = "open"
    /\ \/ Me.left = 0 /\ close_work(Me, "TIMEOUT")
       \/ Me.left > 0 /\ Leaves(Me)
       \/ Me.left > 0 /\ close_work(Me, "FAILED")
       \/ /\ Me.left > 0
          /\ Goes([Me EXCEPT !.phase = "WAITING", !.request = FALSE,
                             !.left = IF role = Visitor THEN @ ELSE 0], "frame")

\* A spare that has read nothing may wait for ever.
FrameLate == (role = Visitor \/ Me.partial) /\ Me.left = 0

FrameFails ==
    /\ at = "frame"
    /\ close_work(Me, IF FrameLate THEN "TIMEOUT" ELSE "FAILED")

FrameWaits == at = "frame" /\ ~FrameLate /\ Leaves(Me)

\* The first input allocates the buffer and readies the reader.
Reads == at = "frame" /\ ~FrameLate /\ (handshake_json => Me.reader)

\* start_work or start_visitor refuses the frame, or there is no memory for it.
FrameRejected == Reads /\ close_work(Me, "FAILED")

FramePart ==
    /\ Reads /\ handshake_json' = TRUE
    /\ Put([Me EXCEPT !.reader = TRUE, !.partial = TRUE,
                      !.left = IF Me.partial \/ role = Visitor THEN @ ELSE ResponseTime])
    /\ NextSlot
    /\ UNCHANGED <<role, pending, unsettled, listenerVars, endVars>>

\* The frame ends; what follows it in the same read belongs to the business.
Started(n) ==
    [Me EXCEPT !.reader = FALSE, !.partial = FALSE, !.left = 0,
               !.incoming = [i \in 1..n |-> i], !.taken = n]
FrameEnds(n) == Reads /\ n <= BufferSize /\ handshake_json' = FALSE

StartVisit(n) ==
    /\ FrameEnds(n) /\ role = Visitor
    /\ Put([Started(n) EXCEPT !.phase = "ACTIVE"]) /\ at' = "timers"
    /\ UNCHANGED <<Rest, unsettled, slot, visited>>

\* Sockets of streams that are being closed count.
Mut_Sockets == In({"CONNECTING", "ACTIVE", "PEER_OPENING"})
Sockets == In({"CONNECTING", "ACTIVE", "PEER_OPENING"}) \cup {s \in In({"CLOSING"}) : streams[s].local # "none"}

StartWork(n) ==
    /\ FrameEnds(n) /\ role = Provider /\ Cardinality(Sockets) < SocketLimit
    /\ Put([Started(n) EXCEPT !.phase = "CONNECTING", !.local = "connecting", !.connect_left = ConnectTime])
    /\ at' = "connect"
    /\ UNCHANGED <<Rest, unsettled, slot, visited>>

\* At the limit, or when the socket cannot be made.
StartRefused(n) == FrameEnds(n) /\ role = Provider /\ close_work(Started(n), "FAILED")

\* A UDP stream takes the place of the one before it.
Replaced == In({"CONNECTING", "ACTIVE"}) \ {slot}
StartUdp ==
    /\ FrameEnds(0) /\ role = Udp
    /\ streams' = [s \in Slots |->
          IF s = slot THEN [Started(0) EXCEPT !.phase = "CONNECTING", !.left = ResponseTime]
          ELSE IF s \in Replaced THEN Closed(streams[s], "FAILED") ELSE streams[s]]
    /\ unsettled' = unsettled - Cardinality(Replaced)
    /\ at' = "udp"
    /\ UNCHANGED <<Rest, slot, visited>>

-----------------------------------------------------------------------------
(* forward_udp.  The datagrams are left out. *)

UdpWaits ==
    /\ at = "udp" /\ Me.phase = "CONNECTING" /\ In({"CLOSING"}) # {}
    /\ IF Me.left = 0 THEN close_work(Me, "TIMEOUT") ELSE Leaves(Me)

UdpStarts ==
    /\ at = "udp" /\ Me.phase = "CONNECTING" /\ In({"CLOSING"}) = {}
    /\ \/ close_work(Me, "FAILED")
       \/ Goes([Me EXCEPT !.phase = "ACTIVE", !.udp = TRUE, !.left = 0], "udp")

UdpForwards == at = "udp" /\ Me.phase = "ACTIVE" /\ (Leaves(Me) \/ close_work(Me, "FAILED"))

-----------------------------------------------------------------------------
(* forward_work. *)

\* efrp_connect_step; a socket that fails may take time to close.
ConnectWaits ==
    /\ at = "connect"
    /\ \/ Me.local = "connecting" /\ Me.connect_left > 0 /\ Leaves(Me)
       \/ Leaves([Me EXCEPT !.local = "draining", !.connect_left = 0])

ConnectEnds ==
    /\ at = "connect"
    /\ \/ close_work([Me EXCEPT !.local = "closed", !.connect_left = 0], "FAILED")
       \/ /\ Me.local = "connecting" /\ Me.connect_left > 0
          /\ Goes([Me EXCEPT !.phase = "ACTIVE", !.local = "open", !.connect_left = 0], "timers")

Stalled(w) ==
    \/ w.idle >= IdleTime
    \/ w.incoming # <<>> /\ w.in_age >= StallTime
    \/ w.outgoing # <<>> /\ w.out_age >= StallTime
Timers == at = "timers" /\ IF Stalled(Me) THEN close_work(Me, "TIMEOUT") ELSE Goes(Me, "read")

Broken(w) == {[w EXCEPT !.local = l] : l \in {w.local, "draining", "closed"}}
Breaks == \E w \in Broken(Me) : close_work(w, "FAILED")

\* efrp_stream_read, when all that was read before has been sent.
ReadsStream == at = "read" /\ Me.incoming = <<>> /\ ~Me.remote_eof
ReadNothing == at = "read" /\ Goes(Me, "send")
ReadEof == ReadsStream /\ Goes([Me EXCEPT !.remote_eof = TRUE], "send")
ReadBytes(n) ==
    /\ ReadsStream /\ n <= BufferSize /\ Me.taken + n <= StreamBytes
    /\ Goes([Me EXCEPT !.incoming = [i \in 1..n |-> Me.taken + i], !.taken = @ + n], "send")
ReadFails == ReadsStream /\ close_work(Me, "FAILED")

SendNothing ==
    /\ at = "send" /\ (Me.incoming # <<>> => Me.local = "open")
    /\ Goes(Me, "fin")
SendBytes(n) ==
    /\ at = "send" /\ Me.local = "open" /\ n <= Len(Me.incoming)
    /\ Goes([Me EXCEPT !.local_got = @ \o SubSeq(Me.incoming, 1, n),
                       !.incoming = SubSeq(@, n + 1, Len(@)), !.in_age = 0, !.idle = 0], "fin")
SendFails == at = "send" /\ Me.incoming # <<>> /\ Breaks

\* efrp_connect_close_write hands the end of the stream on.
FinDue == at = "fin" /\ Me.remote_eof /\ ~Me.local_fin
NoFin ==
    /\ at = "fin"
    /\ \/ ~FinDue /\ Goes(Me, "recv")
       \/ FinDue /\ Me.fin_age < StallTime /\ Me.local = "open" /\ \E w \in Broken(Me) : w.local # "closed" /\ Goes(w, "recv")
       \/ FinDue /\ Me.fin_age >= StallTime /\ close_work(Me, "TIMEOUT")
LocalFin == FinDue /\ Me.local = "open" /\ Goes([Me EXCEPT !.local_fin = TRUE, !.fin_age = 0], "recv")
FinFails == FinDue /\ Breaks

ReadsLocal == at = "recv" /\ Me.outgoing = <<>> /\ ~Me.local_eof
RecvNothing == at = "recv" /\ (ReadsLocal => Me.local = "open") /\ Goes(Me, "write")
RecvEof == ReadsLocal /\ Me.local = "open" /\ Goes([Me EXCEPT !.local_eof = TRUE], "write")
RecvBytes(n) ==
    /\ ReadsLocal /\ Me.local = "open" /\ n <= BufferSize /\ Me.given + n <= LocalBytes
    /\ Goes([Me EXCEPT !.outgoing = [i \in 1..n |-> Me.given + i], !.given = @ + n, !.idle = 0], "write")
RecvFails == ReadsLocal /\ Breaks

WriteNothing == at = "write" /\ Goes(Me, "close")
WriteBytes(n) ==
    /\ at = "write" /\ n <= Len(Me.outgoing)
    /\ Goes([Me EXCEPT !.stream_got = @ \o SubSeq(Me.outgoing, 1, n),
                       !.outgoing = SubSeq(@, n + 1, Len(@)), !.out_age = 0, !.idle = 0], "close")
WriteFails == at = "write" /\ Me.outgoing # <<>> /\ close_work(Me, "FAILED")

\* efrp_stream_close_write hands the end of the socket on.
StreamFin(w) == [w EXCEPT !.stream_fin = TRUE]
StreamFinFails == at = "close" /\ Me.local_eof /\ ~Me.stream_fin /\ close_work(Me, "FAILED")

\* The stream is done when both ends have been handed on.
Mut_Done(w) == w.remote_eof /\ w.local_eof /\ w.stream_fin
Done(w) == w.remote_eof /\ w.local_fin /\ w.local_eof /\ w.stream_fin
PassEnds ==
    /\ at = "close"
    /\ \E w \in IF Me.local_eof /\ ~Me.stream_fin THEN {Me, StreamFin(Me)} ELSE {Me} :
          IF Done(w) THEN close_work(w, "OK") ELSE Leaves(w)

-----------------------------------------------------------------------------
(* cleanup_work. *)

\* A stream may be released when it was reset or has ended in both directions.
Releasable(w) == w.stream \in {"none", "reset"} \/ (w.stream_fin /\ w.remote_eof)

\* A failed stream is reset before it is released.
ResetsFirst(w) == w.result # "OK" /\ w.stream = "open"

Resetting == at = "cleanup" /\ Me.stream # "none"
StreamReleased ==
    /\ at = "cleanup"
    /\ ResetsFirst(Me) \/ Releasable(Me)
    /\ Goes([Me EXCEPT !.stream = "none"], "local")
\* The control queue is full, or QUIC has to wait for an acknowledgement.
StreamWaits ==
    /\ Resetting
    /\ \E stream \in {Me.stream} \cup (IF ResetsFirst(Me) THEN {"reset"} ELSE {}) :
          Goes([Me EXCEPT !.stream = stream], "local")
\* The transport fails, or refuses to release a stream that has not ended.
ReleaseFails == Resetting /\ Cancels(IF ResetsFirst(Me) \/ Releasable(Me) THEN "transport" ELSE "INVALID_STATE")

\* efrp_connect_finish of a stream that ended well, and efrp_connect_destroy.
Finishes == at = "local" /\ Me.local # "none" /\ Me.result = "OK"
Finishable == Me.local = "lingering" \/ (Me.local = "open" /\ Me.local_fin /\ Me.local_eof)
LocalLingers == Finishes /\ Finishable /\ Me.left > 0 /\ Leaves([Me EXCEPT !.local = "lingering"])

\* It lingers for too long, or was not ready to be finished.
Mut_Fails(local, next) ==
    /\ Put([Halves(Me, FALSE) EXCEPT !.local = local, !.left = 0])
    /\ unsettled' = unsettled - 1
    /\ IF next = "free" THEN at' = next /\ UNCHANGED <<slot, visited, cursor>> ELSE NextSlot
    /\ UNCHANGED <<role, pending, handshake_json, listenerVars, endVars>>
Fails(local, next) ==
    /\ Put([Halves(Me, FALSE) EXCEPT !.result = "FAILED", !.local = local, !.left = 0])
    /\ unsettled' = unsettled - 1
    /\ IF next = "free" THEN at' = next /\ UNCHANGED <<slot, visited, cursor>> ELSE NextSlot
    /\ UNCHANGED <<role, pending, handshake_json, listenerVars, endVars>>
FinishFails ==
    /\ Finishes /\ (Finishable => Me.left = 0)
    /\ Fails("none", "free") \/ Fails("draining", "slot")

LocalGone ==
    /\ at = "local"
    /\ Finishes => Finishable
    /\ Goes([Me EXCEPT !.local = "none"], "free")
LocalDrains == at = "local" /\ Me.local \notin {"none", "closed"} /\ Me.result # "OK" /\ Leaves([Me EXCEPT !.local = "draining"])

UdpDrains == at = "free" /\ Me.udp /\ Leaves(Me)
\* The slot is kept until the stream has been released too.
KeepsSlot == at = "free" /\ Me.stream # "none" /\ Leaves([Me EXCEPT !.udp = FALSE])
SlotFree == Me.stream = "none"
Frees ==
    /\ at = "free" /\ SlotFree
    /\ Put(Empty) /\ NextSlot
    /\ unsettled' = unsettled - (IF Me.result = "OK" THEN 1 ELSE 0)
    /\ UNCHANGED <<role, pending, handshake_json, listenerVars, endVars>>

-----------------------------------------------------------------------------
Between ==
    \/ efrp_work_request \/ efrp_work_peer_adopt \/ efrp_work_cancel
    \/ \E s \in Slots : StreamResets(s)
Admission ==
    NoAdmission \/ OpenWork \/ AcceptVisit \/ AdoptFails \/ AcceptPeer \/ AdmissionFails
Handshake ==
    \/ SkipSlot \/ PeerOpens \/ SeesReset \/ EnterSlot \/ StreamInfoFails
    \/ VisitorOpens \/ SendRequest \/ FrameFails \/ FrameRejected \/ FrameWaits \/ FramePart
    \/ \E n \in 0..StreamBytes : StartVisit(n) \/ StartWork(n) \/ StartRefused(n)
    \/ StartUdp \/ UdpWaits \/ UdpStarts \/ UdpForwards
Forward ==
    \/ ConnectWaits \/ ConnectEnds \/ Timers
    \/ ReadNothing \/ ReadEof \/ (\E n \in 1..StreamBytes : ReadBytes(n) \/ SendBytes(n)) \/ ReadFails
    \/ SendNothing \/ SendFails \/ NoFin \/ LocalFin \/ FinFails
    \/ RecvNothing \/ RecvEof \/ (\E n \in 1..LocalBytes : RecvBytes(n) \/ WriteBytes(n)) \/ RecvFails
    \/ WriteNothing \/ WriteFails \/ StreamFinFails \/ PassEnds
Cleanup ==
    \/ StreamReleased \/ StreamWaits \/ ReleaseFails
    \/ LocalLingers \/ FinishFails \/ LocalGone \/ LocalDrains
    \/ UdpDrains \/ KeepsSlot \/ Frees

Finished == drained /\ UNCHANGED vars

Next ==
    \/ Between \/ (\E elapsed \in 0..MaxElapsed : StepBegins(elapsed))
    \/ Admission \/ Handshake \/ Forward \/ Cleanup \/ Finished

Spec == Init /\ [][Next]_vars

-----------------------------------------------------------------------------
(* What the work set promises. *)

\* "At most two active local sockets": sockets that are still closing, and one the
\* listener could not hand over, count. A work set that reports itself drained has
\* none left, although closes were refused or repeated on the way.
SocketBound ==
    /\ role # Udp =>
          Cardinality({s \in Slots : streams[s].local # "none"}) + (IF accepted THEN 1 ELSE 0) <= SocketLimit
    /\ drained =>
          listener = "none" /\ ~accepted /\ \A s \in Slots : streams[s].local = "none" /\ ~streams[s].udp

\* The one frame buffer belongs to one stream in admission: no other stream's end
\* takes it away, and none is left without an owner.
BufferOwned ==
    ended = "no" =>
        /\ Cardinality(Admitting) <= 1
        /\ \A s \in Slots : streams[s].reader => streams[s].phase = "WAITING"
        /\ handshake_json <=> \E s \in Slots : streams[s].reader

\* Each request is settled once: rejected, completed or failed, however its stream,
\* its socket and its replacement end.
SettledOnce ==
    ended = "no" =>
        unsettled = pending + Cardinality({s \in Occupied : streams[s].phase # "CLOSING" \/ streams[s].result = "OK"})

\* Both directions deliver a prefix of what was read, in order, over partial writes.
\* The end of one direction is handed on after all of its bytes, and a stream is
\* completed only when both directions were handed on whole.
Numbered(bytes) == bytes = [i \in 1..Len(bytes) |-> i]
EndsWhole ==
    ended = "no" => \A s \in Occupied :
        LET w == streams[s] IN
        /\ Numbered(w.local_got) /\ Numbered(w.stream_got)
        /\ w.local_fin => Len(w.local_got) = w.taken
        /\ w.stream_fin => Len(w.stream_got) = w.given
        /\ w.phase = "CLOSING" /\ w.result = "OK" => w.local_fin /\ w.stream_fin

=============================================================================
