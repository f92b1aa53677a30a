--------------------------- MODULE YamuxTransport ---------------------------
(***************************************************************************)
(* The Yamux transport (stream_yamux.c): one task pumps the multiplexer    *)
(* through TLS (tls_mbedtls.c) to a peer that keeps to the protocol.       *)
(*                                                                         *)
(* A step() of the transport is up to eight turns, each of which flushes   *)
(* TLS, consumes the output that has gone out, reads, feeds and stages     *)
(* the next output.  Between the steps the owner uses its streams.  The    *)
(* peer and the network run at any time.                                   *)
(***************************************************************************)
EXTENDS Yamux

CONSTANTS
    MaxPings,           \* model bound on the unanswered keepalive pings of the peer
    PingIds,            \* model bound: the peer pings as long as the next stream has at most this id
    MaxInFlight,        \* model bound on the frames in each direction
    RogueFrames         \* the frames that a peer may send, as its last, whatever it knows

ASSUME LinkAssumption == MaxPings \in Nat /\ PingIds \in Nat /\ MaxInFlight \in Nat \ {0} /\ RogueFrames \subseteq Frames

VARIABLES
    turn,           \* where the task is
    staged,         \* the output has been handed to TLS
    tls_pending,    \* TLS has not written all of it
    input,          \* a header that has been read, as a sequence of at most one
    eof,
    up, down,       \* frames on their way to the peer and to the client
    peer,           \* what the peer knows of each stream
    hung_up,        \* the peer has closed the connection
    misbehaved      \* it has sent a frame out of turn

pumpVars == <<turn, staged, tls_pending, input, eof>>
netVars == <<up, down, peer, hung_up, misbehaved>>
linkVars == <<vars, pumpVars, netVars>>

Turns == {"owner", "feed"}

\* known: it has seen SYN; window: what it may send; owed: what it has received
\* and not granted again.  Entry 0 is the session: owed counts the pings without an answer.
Unknown == [known |-> FALSE, acked |-> FALSE, window |-> 0, owed |-> 0, fin |-> FALSE,
            gone |-> FALSE]
Gone == [Unknown EXCEPT !.known = TRUE, !.gone = TRUE]

LinkTypeOK ==
    /\ turn \in Turns /\ staged \in BOOLEAN /\ tls_pending \in BOOLEAN /\ eof \in BOOLEAN
    /\ input \in Seq(Frames) /\ Len(input) <= 1
    /\ up \in Seq(Frames) /\ down \in Seq(Frames)
    /\ \A id \in Ids : /\ peer[id].window \in 0..Window /\ peer[id].owed \in 0..MaxCredit
    /\ hung_up \in BOOLEAN /\ misbehaved \in BOOLEAN

LinkInit ==
    /\ Init
    /\ turn = "owner" /\ staged = FALSE /\ tls_pending = FALSE /\ input = <<>> /\ eof = FALSE
    /\ up = <<>> /\ down = <<>> /\ hung_up = FALSE /\ misbehaved = FALSE
    /\ peer = [id \in Ids |-> Unknown]

-----------------------------------------------------------------------------
(* The turns of step(). *)

\* A turn starts: efrp_tls_step writes what is staged, all of it or not yet, and
\* once it has reached the network the multiplexer may go on.  A step() may have
\* been the last one after any turn, so that a turn always starts from the owner.
StepFlush ==
    /\ turn = "owner" /\ Ready
    /\ turn' = "feed"
    /\ \/ /\ tls_pending /\ ~eof /\ Len(up) < MaxInFlight
          /\ tls_pending' = FALSE
          /\ up' = IF hung_up THEN up ELSE Append(up, output[1])
       \/ UNCHANGED <<tls_pending, up>>
    /\ IF staged /\ ~tls_pending' /\ ~eof
       THEN efrp_yamux_consume_output /\ staged' = FALSE
       ELSE UNCHANGED <<vars, staged>>
    /\ UNCHANGED <<input, eof, down, peer, hung_up, misbehaved>>

\* efrp_tls_read returns nothing while a write is pending, and otherwise some
\* frames, which feed() takes one after the other.
StepRead ==
    /\ turn = "feed" /\ Ready /\ input = <<>> /\ ~eof /\ ~tls_pending
    /\ \/ /\ down # <<>>
          /\ input' = <<Head(down)>> /\ down' = Tail(down)
          /\ UNCHANGED eof
       \/ /\ down = <<>> /\ hung_up
          /\ eof' = TRUE
          /\ UNCHANGED <<input, down>>
    /\ UNCHANGED <<vars, turn, staged, tls_pending, up, peer, hung_up, misbehaved>>

\* feed() takes the header that was read, or resumes one that waits.
StepHeader ==
    /\ turn = "feed"
    /\ header # <<>> \/ input # <<>>
    /\ LET f == IF header = <<>> THEN input[1] ELSE header[1] IN
          \/ HeaderWaits(f) \/ PingFrame(f) \/ GoawayFrame(f) \/ StreamFrame(f)
          \/ RejectedFrame(f)
    /\ input' = IF header = <<>> THEN <<>> ELSE input
    /\ UNCHANGED <<turn, staged, tls_pending, eof, netVars>>

StepBody ==
    /\ turn = "feed"
    /\ (\E n \in 1..MaxCredit : DiscardBody(n) \/ StoreBody(n)) \/ BodyBlocked
    /\ UNCHANGED <<pumpVars, netVars>>

\* feed() has taken what it can, and the turn ends with efrp_yamux_output and
\* efrp_tls_write: TLS takes a whole frame.
StepOutput ==
    /\ turn = "feed" /\ Ready
    /\ turn' = "owner"
    /\ IF staged \/ eof
       THEN UNCHANGED <<vars, staged, tls_pending>>
       ELSE /\ \/ OutputControl
               \/ \E i \in Slots : OutputGrant(i)
               \/ output # <<>> /\ UNCHANGED vars
               \/ /\ output = <<>> /\ controls = <<>> /\ ~\E i \in Slots : Grantable(i)
                  /\ UNCHANGED vars
            /\ staged' = (output' # <<>>)
            /\ tls_pending' = staged'
    /\ UNCHANGED <<input, eof, netVars>>

-----------------------------------------------------------------------------
(* The owner, between steps: sessions and work streams use these calls. *)

Owner ==
    /\ turn = "owner" /\ Ready
    /\ \/ ~eof /\ (efrp_yamux_open \/ \E i \in Slots, n \in 1..Ring : efrp_yamux_write(i, n))
       \/ \E i \in Slots :
             \/ \E n \in 1..Ring : efrp_yamux_read(i, n)
             \/ efrp_yamux_close_write(i) \/ efrp_yamux_reset(i) \/ efrp_yamux_release(i)
    /\ UNCHANGED <<pumpVars, netVars>>

\* cancel(): the multiplexer is destroyed and what was staged is not sent.
cancel ==
    /\ turn = "owner" /\ Ready
    /\ Fail("CANCELLED")
    /\ staged' = FALSE /\ tls_pending' = FALSE /\ input' = <<>>
    /\ UNCHANGED <<turn, eof, netVars>>

\* step() starts with the tick.
StepTicks ==
    /\ turn = "owner"
    /\ Tick
    /\ UNCHANGED <<pumpVars, netVars>>

-----------------------------------------------------------------------------
(* The peer, as long as there is a client to hear it. *)

\* It acknowledges a stream with the first frame of it that it sends.
Flagged(id, flags) == IF peer[id].acked THEN flags ELSE flags \cup {"ACK"}

PeerSends(f, p) ==
    /\ Ready /\ ~hung_up /\ Len(down) < MaxInFlight
    /\ down' = Append(down, f)
    /\ peer' = [peer EXCEPT ![f.id] = p]
    /\ UNCHANGED <<vars, pumpVars, up, hung_up, misbehaved>>

Speaks(id) == peer[id].known /\ ~peer[id].gone

PeerData(id, n) ==
    /\ Speaks(id) /\ ~peer[id].fin /\ n <= peer[id].window
    /\ PeerSends(Frame("DATA", Flagged(id, {}), id, n),
                 [peer[id] EXCEPT !.window = @ - n, !.acked = TRUE])

PeerGrants(id) ==
    /\ Speaks(id) /\ (~peer[id].acked \/ peer[id].owed > 0)
    /\ PeerSends(Frame("WINDOW", Flagged(id, {}), id, peer[id].owed),
                 [peer[id] EXCEPT !.owed = 0, !.acked = TRUE])

PeerCloses(id) ==
    /\ Speaks(id) /\ ~peer[id].fin
    /\ PeerSends(Frame("WINDOW", Flagged(id, {"FIN"}), id, 0),
                 [peer[id] EXCEPT !.fin = TRUE, !.acked = TRUE])

PeerResets(id) ==
    /\ Speaks(id)
    /\ PeerSends(Frame("WINDOW", {"RST"}, id, 0), Gone)

PeerPings ==
    /\ peer[0].owed < MaxPings /\ next_id \in 1..PingIds
    /\ PeerSends(Frame("PING", {"SYN"}, 0, 1), [peer[0] EXCEPT !.owed = @ + 1])

PeerHangsUp ==
    /\ Ready /\ ~hung_up
    /\ hung_up' = TRUE
    /\ up' = <<>> /\ peer' = [id \in Ids |-> Unknown]
    /\ \/ UNCHANGED <<down, misbehaved>>
       \/ \E f \in RogueFrames : Len(down) < MaxInFlight /\ down' = Append(down, f) /\ misbehaved' = TRUE
    /\ UNCHANGED <<vars, pumpVars>>

\* What the peer makes of a frame; the frames of a stream it has reset are dropped.
Noted(p, f) ==
    IF f.type = "PING" THEN [p EXCEPT !.owed = @ - 1]
    ELSE IF Has(f, "SYN") THEN [p EXCEPT !.known = TRUE, !.window = Window]
    ELSE IF p.gone THEN p
    ELSE IF Has(f, "RST") THEN Gone
    ELSE IF f.type = "DATA" THEN [p EXCEPT !.owed = @ + f.value]
    ELSE IF f.type = "WINDOW" THEN [p EXCEPT !.window = @ + f.value]
    ELSE p

PeerReceives ==
    /\ Ready /\ ~hung_up /\ up # <<>>
    /\ up' = Tail(up)
    /\ peer' = [peer EXCEPT ![Head(up).id] = Noted(@, Head(up))]
    /\ UNCHANGED <<vars, pumpVars, down, hung_up, misbehaved>>

-----------------------------------------------------------------------------
Pump == StepTicks \/ StepFlush \/ StepRead \/ StepHeader \/ StepBody \/ StepOutput

Peer ==
    \/ \E id \in Ids \ {0} :
          \/ \E n \in 1..Window : PeerData(id, n)
          \/ PeerGrants(id) \/ PeerCloses(id) \/ PeerResets(id)
    \/ PeerReceives
    \/ PeerPings \/ PeerHangsUp

Stopped == ~Ready /\ UNCHANGED linkVars

LinkNext == Owner \/ cancel \/ Pump \/ Peer \/ Stopped

LinkSpec == LinkInit /\ [][LinkNext]_linkVars

-----------------------------------------------------------------------------
(* What the two ends promise each other. *)

\* A peer that keeps to the protocol is not accused of breaking it by a window
\* that it was granted and has used at once, nor by frames that cross a release or
\* a close.  Nor by frames that cross a reset, as long as the streams this side
\* has reset so far cannot have had more bytes on their way than the session may
\* discard: the budget of start_frame() and feed() is one for the whole session
\* and is never refilled.
PeerNeverAccused ==
    /\ failure # "INVALID_STATE"
    /\ failure = "PROTOCOL_ERROR" => misbehaved \/ resets * Window > DiscardLimit

\* The bytes announced by the DATA frames of the stream id in s, and the credit
\* in its grants.
RECURSIVE Carried(_, _, _)
Carried(s, id, type) ==
    IF s = <<>> THEN 0
    ELSE (IF Head(s).id = id /\ Head(s).type = type THEN Head(s).value ELSE 0)
         + Carried(Tail(s), id, type)

\* The peer is never short of credit for good: whatever it may not send now is
\* unread, being granted, or still on its way.
CreditAccounted ==
    \A i \in Slots : Live(i) /\ peer[streams[i].id].known /\ ~peer[streams[i].id].gone /\ ~misbehaved =>
        LET s == streams[i] IN
        peer[s.id].window + Carried(down, s.id, "DATA") + Carried(input, s.id, "DATA")
          + Expected(s.id) + s.used + s.return_credit + Carried(up, s.id, "WINDOW")
          + (IF staged /\ ~tls_pending THEN 0 ELSE Granted(s.id)) = Window
=============================================================================
