------------------------------- MODULE Session -------------------------------
(***************************************************************************)
(* The control session (session.c) with the login of handshake.c, the      *)
(* frames of frame_reader.c and the record writer of aead.c, against a     *)
(* server that keeps to the protocol and one that does not.                *)
(*                                                                         *)
(* efrp_session_step is one loop of one task: `at' is where it is.  The    *)
(* server and the network are seen through efrp_transport_step and         *)
(* efrp_stream_write only, so they act before a transport step.            *)
(*                                                                         *)
(* A message of the server is a frame.  Before the login it is two units   *)
(* of the stream, a part and the whole; afterwards it is one record or is  *)
(* split over two ("head", "tail"), and a record is two units.             *)
(***************************************************************************)
EXTENDS Integers, Sequences

CONSTANTS
    Roles,              \* the sessions that may be created
    Turns,              \* the turns of one step
    RxUnits,            \* sizeof control_rx
    LoginWrites,        \* the writes that the login output takes
    SignalRecords,      \* the records that an XTCP frame takes
    ResponseTime,       \* EFRP_SESSION_RESPONSE_MS and EFRP_HANDSHAKE_TIMEOUT_MS
    HeartbeatTime,      \* EFRP_SESSION_HEARTBEAT_MS
    MaxElapsed,         \* model bound on the time between two steps
    MaxInFlight,        \* model bound: the server sends while fewer units are unread
    Splits,             \* the messages that may take two records
    Rogue               \* the messages that the server may send at any time, as its last

Provider == "provider"          \* TCP, UDP, STCP, HTTP and HTTPS
Visitor == "visitor"            \* STCP
XtcpProvider == "xtcp provider"
XtcpVisitor == "xtcp visitor"

ASSUME RolesAssumption == Roles \subseteq {Provider, Visitor, XtcpProvider, XtcpVisitor}
ASSUME SizesAssumption ==
    {Turns, RxUnits, LoginWrites, SignalRecords, ResponseTime, HeartbeatTime} \subseteq Nat \ {0}
ASSUME SessionBounds == {MaxElapsed, MaxInFlight} \subseteq Nat

VARIABLES
    role, freed, at, turn,
    phase, result,
    hs, output,                 \* the handshake and the writes left of its output
    proxy_queued, ping_pending, pongs, started,
    tx, sealed,                 \* control_tx; the record that the writer holds
    signal, awaiting,           \* the XTCP frame's records to write; its request is unanswered
    login_left, registration_left, ping_left, next_ping_left,
    rx, record, plain, half,    \* control_rx; the reader and the frame reader
    leased, busy, xtcp, xtcp_busy, other_cleared,
    transport_eof,
    ring, net, closed,          \* units readable, on their way, and how the stream ended
    greeted, owed, arriving, garbled,   \* the server: answers sent and owed; its frame reader
    refused, misbehaved         \* what it refused; whether it broke the protocol

ownVars == <<role, freed>>
loopVars == <<at, turn>>
loginVars == <<hs, output>>
messageVars == <<proxy_queued, ping_pending, pongs, started>>
sendVars == <<tx, sealed>>
signalVars == <<signal, awaiting>>
timers == <<login_left, registration_left, ping_left, next_ping_left>>
receiveVars == <<rx, record, plain, half>>
resourceVars == <<leased, busy, xtcp, xtcp_busy, other_cleared>>
streamVars == <<ring, net, closed>>
serverVars == <<greeted, owed, arriving, garbled, refused, misbehaved>>
vars == <<ownVars, loopVars, phase, result, loginVars, messageVars, sendVars, signalVars, timers,
          receiveVars, resourceVars, transport_eof, streamVars, serverVars>>

Kinds == {"hello", "login", "proxy", "pong", "work", "signal"}
ASSUME KindsAssumption == Splits \subseteq Kinds /\ Rogue \subseteq Kinds
Part == <<"part">>
Units == {Part} \cup ({"head", "tail", "whole"} \X Kinds \X BOOLEAN)
Refusals == {"NEGOTIATION_FAILED", "LOGIN_REJECTED", "PROXY_REJECTED", "AUTHENTICATION_FAILED"}
Results == Refusals \cup
    {"OK", "WOULD_BLOCK", "PROTOCOL_ERROR", "SESSION_CLOSED", "TRUNCATED", "TIMEOUT", "CANCELLED",
     "NETWORK_ERROR", "NO_MEMORY", "STORAGE_ERROR"}

\* The records of a frame of the XTCP controller.
SignalKinds == {"request", "request end", "report"}
Request == [i \in 1..SignalRecords |-> IF i = SignalRecords THEN "request end" ELSE "request"]
Report == <<"report">>

TypeOK ==
    /\ role \in Roles /\ freed \in BOOLEAN
    /\ at \in {"idle", "input", "feed", "prepare", "output", "run", "end", "destroy"}
    /\ turn \in 0..(Turns - 1)
    /\ phase \in {"AUTHENTICATING", "REGISTERING", "REGISTERED", "FAILED", "STOPPED"}
    /\ result \in Results
    /\ hs \in {"SEND", "HELLO", "LOGIN", "TAKEN"} /\ output \in 0..LoginWrites
    /\ proxy_queued \in BOOLEAN /\ ping_pending \in BOOLEAN /\ pongs \in 0..2 /\ started \in 0..2
    /\ tx \in {"none", "proxy", "ping"} /\ sealed \in {"none", "proxy", "ping"} \cup SignalKinds
    /\ signal \in Seq(SignalKinds) /\ awaiting \in BOOLEAN
    /\ login_left \in 0..ResponseTime /\ registration_left \in 0..ResponseTime /\ ping_left \in 0..ResponseTime
    /\ next_ping_left \in 0..HeartbeatTime
    /\ rx \in Seq(Units) /\ Len(rx) <= RxUnits
    /\ record \in BOOLEAN /\ plain \in Seq(Units \ {Part}) /\ Len(plain) <= 1 /\ half \in BOOLEAN
    /\ leased \in BOOLEAN /\ busy \in BOOLEAN /\ xtcp_busy \in BOOLEAN /\ other_cleared \in BOOLEAN
    /\ transport_eof \in BOOLEAN /\ garbled \in BOOLEAN /\ misbehaved \in BOOLEAN
    /\ xtcp \in {"none", "created", "started", "cancelled"}
    /\ ring \in Seq(Units) /\ net \in Seq(Units) /\ closed \in {"no", "fin", "eof", "torn"}
    /\ greeted \in 0..2 /\ owed \subseteq Kinds /\ arriving \in BOOLEAN
    /\ refused \subseteq Kinds

visitor_role == role \in {Visitor, XtcpVisitor}
HasXtcp == xtcp # "none"

\* create_session with an open transport.
Init ==
    /\ role \in Roles /\ freed = FALSE /\ at = "idle" /\ turn = 0
    /\ phase = "AUTHENTICATING" /\ result = "OK"
    /\ hs = "SEND" /\ output = LoginWrites
    /\ proxy_queued = FALSE /\ ping_pending = FALSE /\ pongs = 0 /\ started = 0
    /\ tx = "none" /\ sealed = "none" /\ signal = <<>> /\ awaiting = FALSE
    /\ login_left = ResponseTime /\ registration_left = 0 /\ ping_left = 0 /\ next_ping_left = 0
    /\ rx = <<>> /\ record = FALSE /\ plain = <<>> /\ half = FALSE
    /\ leased = FALSE /\ busy = FALSE /\ xtcp_busy = FALSE /\ other_cleared = FALSE
    /\ xtcp = IF role \in {XtcpProvider, XtcpVisitor} THEN "created" ELSE "none"
    /\ transport_eof = FALSE
    /\ ring = <<>> /\ net = <<>> /\ closed = "no"
    /\ greeted = 0 /\ owed = {} /\ arriving = FALSE /\ garbled = FALSE
    /\ refused = {} /\ misbehaved = FALSE

-----------------------------------------------------------------------------
(* Ending. *)

\* efrp_work_cancel: some sockets may take longer.
work_cancel == busy' \in {busy, FALSE}

\* clear(): the reader may keep its lease and the XTCP controller its sockets.
\* cleanup is what it returns.
clear(cleanup) ==
    /\ leased' \in {leased, FALSE}
    /\ xtcp_busy' \in {xtcp_busy, FALSE}
    /\ xtcp' = IF HasXtcp /\ xtcp_busy' THEN "cancelled" ELSE "none"
    /\ cleanup = (IF xtcp' # "none" THEN "WOULD_BLOCK" ELSE IF leased' THEN "STORAGE_ERROR" ELSE "OK")
    /\ other_cleared' = TRUE
    /\ hs' = "TAKEN" /\ output' = 0
    /\ tx' = "none" /\ sealed' = "none" /\ signal' = <<>> /\ awaiting' = FALSE
    /\ rx' = <<>> /\ record' = FALSE /\ plain' = <<>> /\ half' = FALSE /\ ping_pending' = FALSE

\* fail(), the first time: the transport is cancelled too.  Deadlines and what is
\* known of the server are not looked at again and are reset.
fail(code) ==
    /\ phase' = IF code = "CANCELLED" THEN "STOPPED" ELSE "FAILED"
    /\ work_cancel
    /\ \E cleanup \in {"OK", "WOULD_BLOCK", "STORAGE_ERROR"} :
          /\ clear(cleanup)
          /\ result' = IF cleanup = "STORAGE_ERROR" THEN cleanup ELSE code
    /\ ring' = <<>> /\ net' = <<>> /\ closed' = "no"
    /\ login_left' = 0 /\ registration_left' = 0 /\ ping_left' = 0 /\ next_ping_left' = 0
    /\ greeted' = 0 /\ owed' = {} /\ arriving' = FALSE
    /\ UNCHANGED <<ownVars, proxy_queued, pongs, started, transport_eof, garbled, refused, misbehaved>>

StepFails(code) == fail(code) /\ at' = "idle" /\ turn' = 0

\* efrp_session_cancel, and the same call at the start of efrp_session_destroy.
Cancel ==
    /\ at = "idle" /\ ~freed /\ result = "OK"
    /\ fail("CANCELLED")
    /\ at' \in {"idle", "destroy"} /\ UNCHANGED turn

ended == <<ownVars, turn, phase, result, proxy_queued, pongs, started, timers, transport_eof,
           streamVars, serverVars>>
contents == <<loginVars, sendVars, signalVars, receiveVars, ping_pending>>

\* step() and cancel() of a session that has ended, and efrp_session_drain.
Drain ==
    /\ at = "idle" /\ ~freed /\ result # "OK"
    /\ \/ work_cancel /\ UNCHANGED xtcp_busy
       \/ xtcp_busy' \in {xtcp_busy, FALSE} /\ UNCHANGED busy
    /\ UNCHANGED <<ended, at, contents, leased, xtcp, other_cleared>>

Mut_Destroy ==
    /\ at \in {"idle", "destroy"} /\ ~freed /\ result # "OK"
    /\ at' = "idle"
    /\ work_cancel
    /\ \E cleanup \in {"OK", "WOULD_BLOCK", "STORAGE_ERROR"} :
                  clear(cleanup) /\ freed' = (cleanup = "OK")
    /\ UNCHANGED <<role, turn, phase, result, proxy_queued, pongs, started, timers, transport_eof,
                   streamVars, serverVars>>
Destroy ==
    /\ at \in {"idle", "destroy"} /\ ~freed /\ result # "OK"
    /\ at' = "idle"
    /\ work_cancel
    /\ \/ /\ busy' /\ UNCHANGED <<contents, leased, xtcp, xtcp_busy, other_cleared, freed>>
       \/ /\ ~busy'
          /\ \E cleanup \in {"OK", "WOULD_BLOCK", "STORAGE_ERROR"} :
                clear(cleanup) /\ freed' = (cleanup = "OK")
    /\ UNCHANGED <<role, turn, phase, result, proxy_queued, pongs, started, timers, transport_eof,
                   streamVars, serverVars>>

-----------------------------------------------------------------------------
(* efrp_session_step: the transport and the deadlines. *)

\* efrp_transport_step delivers n units, and reports the end of the connection
\* once nothing is left of it.
Deliver(n) ==
    /\ ring' = ring \o SubSeq(net, 1, n)
    /\ net' = SubSeq(net, n + 1, Len(net))
    /\ transport_eof' = (transport_eof \/ (closed \in {"eof", "torn"} /\ net' = <<>>))
    /\ UNCHANGED closed

After(left, elapsed) == IF left > elapsed THEN left - elapsed ELSE 0

Mut_Expired(elapsed) ==
    \/ phase = "AUTHENTICATING" /\ login_left <= elapsed
    \/ phase = "REGISTERING" /\ registration_left <= elapsed
Expired(elapsed) ==
    \/ phase = "AUTHENTICATING" /\ login_left <= elapsed
    \/ phase = "REGISTERING" /\ registration_left <= elapsed
    \/ ping_pending /\ ping_left <= elapsed

Running == at = "idle" /\ ~freed /\ result = "OK"

StepBegins(elapsed, n) ==
    /\ Running /\ Deliver(n) /\ ~Expired(elapsed)
    /\ login_left' = After(login_left, elapsed)
    /\ registration_left' = After(registration_left, elapsed)
    /\ ping_left' = After(ping_left, elapsed)
    /\ next_ping_left' = After(next_ping_left, elapsed)
    /\ at' = "input"
    /\ UNCHANGED <<ownVars, turn, phase, result, loginVars, messageVars, sendVars, signalVars,
                   receiveVars, resourceVars, serverVars>>

\* The deadlines are looked at before the input that the transport has brought.
StepExpires(elapsed) == Running /\ Expired(elapsed) /\ StepFails("TIMEOUT")

TransportFails == (Running \/ at = "run") /\ StepFails("NETWORK_ERROR")

-----------------------------------------------------------------------------
(* control_input. *)

control_finish ==
    IF phase = "AUTHENTICATING" \/ record \/ half THEN "TRUNCATED" ELSE "SESSION_CLOSED"

NoPlain == phase = "AUTHENTICATING" \/ plain = <<>>

\* Nothing in control_rx: the stream is read, at its end if it has one.
ReadStream(n) ==
    /\ at = "input" /\ NoPlain /\ rx = <<>> /\ ring # <<>>
    /\ n = (IF Len(ring) > RxUnits THEN RxUnits ELSE Len(ring))
    /\ rx' = SubSeq(ring, 1, n) /\ ring' = SubSeq(ring, n + 1, Len(ring))
    /\ at' = "feed"
    /\ UNCHANGED <<ownVars, turn, phase, result, loginVars, messageVars, sendVars, signalVars, timers,
                   record, plain, half, resourceVars, transport_eof, net, closed, serverVars>>

ReadNothing ==
    /\ at = "input" /\ NoPlain
    /\ \/ rx # <<>> /\ at' = "feed"
       \/ rx = <<>> /\ ring = <<>> /\ (closed # "fin" \/ net # <<>>) /\ at' = "prepare"
    /\ UNCHANGED <<ownVars, turn, phase, result, loginVars, messageVars, sendVars, signalVars, timers,
                   receiveVars, resourceVars, transport_eof, streamVars, serverVars>>

ReadEof ==
    /\ at = "input" /\ NoPlain /\ rx = <<>> /\ ring = <<>> /\ closed = "fin" /\ net = <<>>
    /\ StepFails(control_finish)

Feeding == at = "feed"
Unit == Head(rx)
Frame == Unit[1] = "whole"
\* The loop over control_rx goes on until it is empty.
FedUnit == rx' = Tail(rx) /\ at' = IF rx' = <<>> THEN "prepare" ELSE "feed"

\* efrp_handshake_feed refuses input until its output has been written.
HandshakeRefuses == Feeding /\ phase = "AUTHENTICATING" /\ hs = "SEND" /\ StepFails("WOULD_BLOCK")

HandshakeReads == Feeding /\ phase = "AUTHENTICATING" /\ hs \in {"HELLO", "LOGIN"}

HandshakePart ==
    /\ HandshakeReads /\ ~Frame /\ FedUnit
    /\ UNCHANGED <<ownVars, turn, phase, result, loginVars, messageVars, sendVars, signalVars, timers,
                   record, plain, half, resourceVars, transport_eof, streamVars, serverVars>>

accept_hello ==
    /\ HandshakeReads /\ Frame /\ hs = "HELLO" /\ Unit[2] = "hello" /\ Unit[3]
    /\ FedUnit /\ hs' = "LOGIN"
    /\ UNCHANGED <<ownVars, turn, phase, result, output, messageVars, sendVars, signalVars, timers,
                   record, plain, half, resourceVars, transport_eof, streamVars, serverVars>>

\* accept_login, then finish_login: the rest of control_rx is left to the reader.
finish_login ==
    /\ HandshakeReads /\ Frame /\ hs = "LOGIN" /\ Unit[2] = "login" /\ Unit[3]
    /\ hs' = "TAKEN" /\ rx' = Tail(rx) /\ at' = "prepare"
    /\ IF visitor_role
       THEN /\ phase' = "REGISTERED" /\ next_ping_left' = 0 /\ UNCHANGED registration_left
       ELSE /\ phase' = "REGISTERING" /\ registration_left' = ResponseTime /\ UNCHANGED next_ping_left
    /\ login_left' = 0
    /\ UNCHANGED <<ownVars, turn, result, output, messageVars, sendVars, signalVars, ping_left, record, plain, half, resourceVars, transport_eof, streamVars, serverVars>>

HandshakeFails ==
    /\ HandshakeReads /\ Frame
    /\ \/ hs = "HELLO" /\ Unit[2] = "hello" /\ ~Unit[3] /\ StepFails("NEGOTIATION_FAILED")
       \/ hs = "LOGIN" /\ Unit[2] = "login" /\ ~Unit[3] /\ StepFails("LOGIN_REJECTED")
       \/ Unit[2] # (IF hs = "HELLO" THEN "hello" ELSE "login") /\ StepFails("PROTOCOL_ERROR")
       \/ StepFails("NO_MEMORY")

\* efrp_aead_flash_feed: the record may need the scratch store.
FeedPart ==
    /\ Feeding /\ phase # "AUTHENTICATING" /\ Unit = Part
    /\ FedUnit /\ record' = TRUE /\ leased' \in BOOLEAN
    /\ UNCHANGED <<ownVars, turn, phase, result, loginVars, messageVars, sendVars, signalVars, timers,
                   plain, half, busy, xtcp, xtcp_busy, other_cleared, transport_eof, streamVars,
                   serverVars>>

FeedRecord ==
    /\ Feeding /\ phase # "AUTHENTICATING" /\ Unit # Part
    /\ rx' = Tail(rx) /\ at' = "prepare"
    /\ record' = FALSE /\ plain' = <<Unit>>
    /\ UNCHANGED <<ownVars, turn, phase, result, loginVars, messageVars, sendVars, signalVars, timers,
                   half, resourceVars, transport_eof, streamVars, serverVars>>

ReaderFails == Feeding /\ phase # "AUTHENTICATING" /\ StepFails("STORAGE_ERROR")

-----------------------------------------------------------------------------
(* The plaintext of a record: efrp_wire_feed and accept_control. *)

Parsing == at = "input" /\ phase # "AUTHENTICATING" /\ plain # <<>>
Message == plain[1]

\* The frame has been taken and its bytes have been consumed.
Taken ==
    /\ at' = "prepare" /\ plain' = <<>> /\ leased' = FALSE
    /\ UNCHANGED <<ownVars, turn, result, loginVars, sendVars, login_left, rx, record, other_cleared, transport_eof, streamVars, serverVars>>

FrameHead ==
    /\ Parsing /\ Message[1] = "head" /\ Taken /\ half' = TRUE
    /\ UNCHANGED <<phase, messageVars, signalVars, timers, busy, xtcp, xtcp_busy>>

\* The messages that are expected now.
Mut_Expected(kind) ==
    \/ kind = "proxy" /\ phase = "REGISTERING" /\ proxy_queued
    \/ kind = "pong" /\ phase = "REGISTERED" /\ ping_pending
    \/ kind = "work" /\ ~visitor_role /\ phase = "REGISTERED"
    \/ kind = "signal" /\ HasXtcp /\ phase = "REGISTERED" /\ awaiting
Expected(kind) ==
    \/ kind = "proxy" /\ phase = "REGISTERING" /\ proxy_queued
    \/ kind = "pong" /\ phase = "REGISTERED" /\ ping_pending
    \/ kind = "work" /\ ~visitor_role /\ phase \in {"REGISTERING", "REGISTERED"}
    \/ kind = "signal" /\ HasXtcp /\ phase = "REGISTERED" /\ awaiting

FrameEnds(kind) ==
    /\ Parsing /\ Message[1] # "head" /\ Message[2] = kind /\ Expected(kind) /\ Message[3]
    /\ Taken /\ half' = FALSE

NewProxyResp ==
    /\ FrameEnds("proxy")
    /\ phase' = "REGISTERED" /\ next_ping_left' = 0 /\ registration_left' = 0
    /\ UNCHANGED <<messageVars, signalVars, ping_left, busy, xtcp, xtcp_busy>>

\* The first Pong starts a visitor's listener or the XTCP controller.
FirstPong == pongs = 0 /\ role \notin {Provider}

Pong ==
    /\ FrameEnds("pong")
    /\ ping_pending' = FALSE /\ ping_left' = 0 /\ pongs' = (IF pongs < 2 THEN pongs + 1 ELSE pongs)
    /\ IF FirstPong
       THEN /\ started' = started + 1
            /\ xtcp' = (IF HasXtcp THEN "started" ELSE xtcp)
            /\ xtcp_busy' = (xtcp_busy \/ role = XtcpVisitor)
            /\ busy' = (busy \/ role = Visitor)
       ELSE UNCHANGED <<started, busy, xtcp, xtcp_busy>>
    /\ UNCHANGED <<phase, proxy_queued, signalVars, registration_left, next_ping_left>>

\* The listener cannot be opened.
StartFails ==
    /\ Parsing /\ Message[1] # "head" /\ Message[2] = "pong" /\ Expected("pong") /\ Message[3]
    /\ FirstPong /\ StepFails("NETWORK_ERROR")

ReqWorkConn ==
    /\ FrameEnds("work")
    /\ IF HasXtcp THEN xtcp_busy' = TRUE /\ UNCHANGED busy ELSE busy' = TRUE /\ UNCHANGED xtcp_busy
    /\ UNCHANGED <<phase, messageVars, signalVars, timers, xtcp>>

Signal ==
    /\ FrameEnds("signal")
    /\ awaiting' = FALSE
    /\ UNCHANGED <<phase, messageVars, signal, timers, busy, xtcp, xtcp_busy>>

RefusedFrame ==
    /\ Parsing /\ Message[1] # "head"
    /\ \/ ~Expected(Message[2]) /\ StepFails("PROTOCOL_ERROR")
       \/ Message[2] \in {"work", "signal"} /\ ~Message[3] /\ StepFails("PROTOCOL_ERROR")
       \/ Expected("proxy") /\ Message[2] = "proxy" /\ ~Message[3] /\ StepFails("PROXY_REJECTED")
       \/ Expected("pong") /\ Message[2] = "pong" /\ ~Message[3] /\ StepFails("AUTHENTICATION_FAILED")
       \/ StepFails("NO_MEMORY")

\* The store fails when a window is opened or the record is released.
ConsumeFails == Parsing /\ leased /\ StepFails("STORAGE_ERROR")

-----------------------------------------------------------------------------
(* prepare_control and control_output, unless the connection has ended. *)

NextTurn ==
    IF turn + 1 < Turns THEN at' = "input" /\ turn' = turn + 1 ELSE at' = "end" /\ turn' = 0

SkipOutput ==
    /\ at = "prepare" /\ transport_eof /\ NextTurn
    /\ UNCHANGED <<ownVars, phase, result, loginVars, messageVars, sendVars, signalVars, timers,
                   receiveVars, resourceVars, transport_eof, streamVars, serverVars>>

\* control_tx is free and no frame of the XTCP controller is under way.
Mut_MayPrepare == tx = "none" /\ phase # "AUTHENTICATING"
MayPrepare == tx = "none" /\ phase # "AUTHENTICATING" /\ ~(HasXtcp /\ phase = "REGISTERED" /\ signal # <<>>)

ProxyDue == MayPrepare /\ phase = "REGISTERING" /\ ~proxy_queued
PingDue == MayPrepare /\ phase = "REGISTERED" /\ ~ping_pending /\ next_ping_left = 0

prepare_control ==
    /\ at = "prepare" /\ ~transport_eof
    /\ at' = "output"
    /\ \/ /\ ProxyDue /\ tx' = "proxy" /\ proxy_queued' = TRUE
          /\ UNCHANGED <<ping_pending, ping_left, next_ping_left>>
       \/ /\ PingDue /\ tx' = "ping" /\ ping_pending' = TRUE
          /\ ping_left' = ResponseTime /\ next_ping_left' = HeartbeatTime
          /\ UNCHANGED proxy_queued
       \/ /\ ~ProxyDue /\ ~PingDue
          /\ UNCHANGED <<tx, proxy_queued, ping_pending, ping_left, next_ping_left>>
    /\ UNCHANGED <<ownVars, turn, phase, result, loginVars, pongs, started, sealed, signalVars,
                   login_left, registration_left, receiveVars, resourceVars, transport_eof, streamVars,
                   serverVars>>

PrepareFails == at = "prepare" /\ ~transport_eof /\ (ProxyDue \/ PingDue) /\ StepFails("NO_MEMORY")

Outputs ==
    /\ at = "output" /\ at' = "run"
    /\ UNCHANGED <<ownVars, turn, phase, result, messageVars, awaiting, timers, receiveVars,
                   resourceVars, transport_eof, streamVars>>
ServerWaits == UNCHANGED serverVars

\* A write of the login output; the handshake then waits for the answers.
WriteLogin ==
    /\ Outputs /\ ServerWaits /\ phase = "AUTHENTICATING" /\ hs = "SEND"
    /\ output' = output - 1
    /\ hs' = IF output' = 0 THEN "HELLO" ELSE hs
    /\ UNCHANGED <<sendVars, signal>>

\* Bytes that the stream takes reach the server, which puts the frames together.
ServerReads(kind) ==
    /\ garbled' = (garbled \/ (arriving /\ kind \notin {"request", "request end"}))
    /\ arriving' = (kind = "request")
    /\ owed' = owed \cup (CASE kind = "ping" -> {"pong"}
                            [] kind = "proxy" -> {"proxy"}
                            [] kind = "request end" -> {"signal"}
                            [] OTHER -> {})
    /\ UNCHANGED <<greeted, refused, misbehaved>>

WriteRecord ==
    /\ Outputs /\ phase # "AUTHENTICATING" /\ sealed # "none"
    /\ ServerReads(sealed)
    /\ sealed' = "none"
    /\ UNCHANGED <<loginVars, tx, signal>>

SealMessage ==
    /\ Outputs /\ ServerWaits /\ phase # "AUTHENTICATING" /\ sealed = "none" /\ tx # "none"
    /\ sealed' = tx /\ tx' = "none"
    /\ UNCHANGED <<loginVars, signal>>

SealSignal ==
    /\ Outputs /\ ServerWaits /\ phase = "REGISTERED" /\ sealed = "none" /\ tx = "none"
    /\ HasXtcp /\ signal # <<>>
    /\ sealed' = Head(signal) /\ signal' = Tail(signal)
    /\ UNCHANGED <<loginVars, tx>>

\* Nothing to write, or a stream that takes nothing now.
WriteNothing ==
    /\ Outputs /\ ServerWaits
    /\ hs \in {"SEND", "HELLO", "LOGIN"} \/ sealed # "none" \/ (tx = "none" /\ signal = <<>>)
    /\ UNCHANGED <<loginVars, sendVars, signal>>

OutputFails == at = "output" /\ StepFails("NETWORK_ERROR")

-----------------------------------------------------------------------------
(* The work of the turn, the transport, and the end of the step. *)

RunVars == <<ownVars, phase, result, loginVars, messageVars, sendVars, timers, receiveVars, leased,
             xtcp, other_cleared, serverVars>>

\* efrp_work_step and efrp_work_visit_step, or nothing to do yet.
Work(n) ==
    /\ at = "run" /\ Deliver(n) /\ NextTurn
    /\ ~HasXtcp \/ pongs = 0
    /\ busy' \in IF role = Provider THEN {busy, FALSE} ELSE {busy}
    /\ UNCHANGED <<RunVars, signalVars, xtcp_busy>>

\* efrp_xtcp_step: the controller may have a request or a report to send.
XtcpWork(n) ==
    /\ at = "run" /\ Deliver(n) /\ NextTurn
    /\ HasXtcp /\ pongs > 0 /\ phase # "AUTHENTICATING"
    /\ xtcp_busy' \in IF role = XtcpVisitor THEN {TRUE} ELSE BOOLEAN
    /\ \/ UNCHANGED signalVars
       \/ signal = <<>> /\ ~awaiting /\ signal' = Request /\ awaiting' = TRUE
       \/ signal = <<>> /\ ~awaiting /\ signal' = Report /\ UNCHANGED awaiting
    /\ UNCHANGED <<RunVars, busy>>

WorkFails == at = "run" /\ phase # "AUTHENTICATING" /\ StepFails("NO_MEMORY")

\* check_eof: what has been received is used up first.
Mut_AtEof == transport_eof /\ rx = <<>> /\ ring = <<>>
AtEof == transport_eof /\ rx = <<>> /\ ring = <<>> /\ NoPlain

StepEnds ==
    /\ at = "end" /\ ~AtEof
    /\ at' = "idle"
    /\ UNCHANGED <<ownVars, turn, phase, result, loginVars, messageVars, sendVars, signalVars, timers,
                   receiveVars, resourceVars, transport_eof, streamVars, serverVars>>

\* efrp_stream_finish finds a cut mux frame.
check_eof ==
    /\ at = "end" /\ AtEof
    /\ StepFails(IF closed = "torn" THEN "TRUNCATED" ELSE control_finish)

-----------------------------------------------------------------------------
(* The server and the network. *)

SessionVars == <<ownVars, loopVars, phase, result, loginVars, messageVars, sendVars, signalVars,
                 timers, receiveVars, resourceVars, transport_eof>>

MayAct == at \in {"idle", "run"} /\ result = "OK" /\ closed = "no"

Whole(kind, ok) == <<Part, <<"whole", kind, ok>>>>
Split(kind, ok) == <<Part, <<"head", kind, ok>>, Part, <<"tail", kind, ok>>>>

Sends(kind, ok) ==
    /\ MayAct /\ ~misbehaved /\ Len(ring \o net) < MaxInFlight
    /\ \/ net' = net \o Whole(kind, ok)
       \/ greeted = 2 /\ kind \in Splits /\ net' = net \o Split(kind, ok)
    /\ UNCHANGED <<SessionVars, ring, closed, arriving, garbled>>

\* frps answers the ClientHello before it reads the Login.
ServerGreets(ok) ==
    /\ \/ greeted = 0 /\ output < LoginWrites /\ Sends("hello", ok)
       \/ greeted = 1 /\ output = 0 /\ Sends("login", ok)
    /\ greeted' = greeted + 1
    /\ refused' = refused \cup (IF ok THEN {} ELSE {IF greeted = 0 THEN "hello" ELSE "login"})
    /\ UNCHANGED <<owed, misbehaved>>

ServerAnswers(kind, ok) ==
    /\ greeted = 2 /\ kind \in owed /\ (kind = "signal" => ok)
    /\ Sends(kind, ok)
    /\ owed' = owed \ {kind}
    /\ refused' = refused \cup (IF ok THEN {} ELSE {kind})
    /\ UNCHANGED <<greeted, misbehaved>>

\* A proxy is up before its answer is written, so work may be asked for first.
ServerAsks ==
    /\ greeted = 2 /\ ~visitor_role /\ proxy_queued /\ tx # "proxy" /\ sealed # "proxy"
    /\ Sends("work", TRUE)
    /\ UNCHANGED <<greeted, owed, refused, misbehaved>>

ServerMisbehaves(kind, ok) ==
    /\ kind \in Rogue /\ misbehaved' = TRUE
    /\ Sends(kind, ok)
    /\ UNCHANGED <<greeted, owed, refused>>

\* The stream is finished or the connection is closed, with any prefix of what
\* was sent.
ServerCloses(n) ==
    /\ MayAct
    /\ net' = SubSeq(net, 1, n)
    /\ closed' \in {"fin", "eof", "torn"}
    /\ UNCHANGED <<SessionVars, ring, greeted, owed, arriving, garbled, refused, misbehaved>>

-----------------------------------------------------------------------------
Freed == freed /\ UNCHANGED vars

Input ==
    \/ (\E n \in 1..RxUnits : ReadStream(n)) \/ ReadNothing \/ ReadEof
    \/ HandshakeRefuses \/ HandshakePart \/ accept_hello \/ finish_login \/ HandshakeFails
    \/ FeedPart \/ FeedRecord \/ ReaderFails
    \/ FrameHead \/ NewProxyResp \/ Pong \/ StartFails \/ ReqWorkConn \/ Signal \/ RefusedFrame
    \/ ConsumeFails

Output ==
    \/ SkipOutput \/ prepare_control \/ PrepareFails
    \/ WriteLogin \/ WriteRecord \/ SealMessage \/ SealSignal \/ WriteNothing \/ OutputFails

Run == (\E n \in 0..Len(net) : Work(n) \/ XtcpWork(n)) \/ WorkFails

\* A step of the session that began.
Continue == Input \/ Output \/ Run \/ StepEnds \/ check_eof

Begin(elapsed) == (\E n \in 0..Len(net) : StepBegins(elapsed, n)) \/ StepExpires(elapsed)

Server ==
    \/ \E ok \in BOOLEAN : ServerGreets(ok)
    \/ \E kind \in Kinds, ok \in BOOLEAN : ServerAnswers(kind, ok) \/ ServerMisbehaves(kind, ok)
    \/ ServerAsks
    \/ \E n \in 0..Len(net) : ServerCloses(n)

Next ==
    \/ \E elapsed \in 0..MaxElapsed : Begin(elapsed)
    \/ Continue \/ TransportFails
    \/ Cancel \/ Drain \/ Destroy
    \/ Server \/ Freed

Spec == Init /\ [][Next]_vars

\* The worker calls step() at every tick of a clock that goes on, and a step
\* that has begun comes to its end.
Fairness == WF_vars(Continue) /\ SF_vars(Begin(1))
LiveSpec == Spec /\ Fairness

-----------------------------------------------------------------------------
(* What the session promises. *)

\* A server that keeps to the protocol is never accused of breaking it, whatever
\* the order of its answers and requests, and a refusal is reported only when the
\* server refused that very thing.
ServerNeverAccused ==
    /\ result = "PROTOCOL_ERROR" => misbehaved
    /\ \A r \in Refusals :
          result = r => misbehaved \/ (CASE r = "NEGOTIATION_FAILED" -> "hello"
                                         [] r = "LOGIN_REJECTED" -> "login"
                                         [] r = "PROXY_REJECTED" -> "proxy"
                                         [] r = "AUTHENTICATION_FAILED" -> "pong") \in refused

\* Frames that take several records are not mixed with a heartbeat or a report.
FramesContiguous == ~garbled

\* SESSION_CLOSED is reported only when all that was received has been used and
\* ended with a frame; TRUNCATED only when something was cut.
EndIsExact ==
    [][/\ result' = "SESSION_CLOSED" /\ result = "OK" =>
             /\ phase # "AUTHENTICATING" /\ closed # "no"
             /\ net \o ring \o rx \o plain = <<>> /\ ~record /\ ~half
       /\ result' = "TRUNCATED" /\ result = "OK" =>
             closed = "torn" \/ record \/ half \/ phase = "AUTHENTICATING"]_vars

\* "Only OK frees and nulls the handle": no lease, socket or controller is left.
FreedClean == freed => ~leased /\ ~busy /\ xtcp = "none"

\* The login, the registration and each ping are answered or end the session, and
\* so does the end of the connection.
PhasesEnd ==
    /\ phase = "AUTHENTICATING" ~> phase # "AUTHENTICATING"
    /\ phase = "REGISTERING" ~> phase # "REGISTERING"
    /\ ping_pending ~> ~ping_pending
    /\ transport_eof ~> result # "OK"

==============================================================================
