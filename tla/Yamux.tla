------------------------------- MODULE Yamux -------------------------------
(***************************************************************************)
(* The client side of the Yamux multiplexer (yamux.c): stream slots, send  *)
(* and receive credit, the control queue, the one output frame and the     *)
(* frame being received.  YamuxTransport composes it with its owner, the   *)
(* pump and a peer.                                                        *)
(*                                                                         *)
(* Bytes are counted, not stored.  A feed() of several frames is the same  *)
(* as one feed() for each of them, so that a step handles one header or    *)
(* one piece of a body; tick() handles one expired timer, and any armed    *)
(* timer may have expired.                                                 *)
(***************************************************************************)
EXTENDS Integers, Sequences

CONSTANTS
    SlotCount,          \* EFRP_YAMUX_STREAMS
    Window,             \* EFRP_YAMUX_INITIAL_WINDOW
    Ring,               \* EFRP_YAMUX_RING_BYTES
    ControlSlots,       \* EFRP_YAMUX_CONTROL_SLOTS
    DiscardLimit,       \* EFRP_YAMUX_DISCARD_LIMIT
    MaxCredit,          \* UINT32_MAX, as a credit
    MaxId               \* UINT32_MAX, as a stream id

ASSUME SizesAssumption ==
    /\ SlotCount \in Nat \ {0}
    /\ Window \in Nat \ {0} /\ Ring \in Nat \ {0} /\ ControlSlots \in Nat \ {0}
    /\ DiscardLimit \in Nat
    /\ MaxCredit \in Nat /\ Window <= MaxCredit
    /\ MaxId \in Nat /\ MaxId % 2 = 1

Slots == 1..SlotCount
Types == {"DATA", "WINDOW", "PING", "GOAWAY", "BAD"}
Flags == {"SYN", "ACK", "FIN", "RST"}
Ids == 0..MaxId
Frames == [type : Types, flags : SUBSET Flags, id : Ids, value : 0..MaxCredit]

VARIABLES
    streams,            \* the slots; id 0 is a free one
    controls,           \* the control queue
    output,             \* the frame being transmitted, as a sequence of at most one
    credit_cursor, prefer_data,
    header,             \* a header that waits for a control slot, likewise
    frame_active, frame_discard, frame_id, frame_fin, frame_remaining,
    next_id, peer_last_id, discarded_bytes,
    resets,             \* a count of the streams that this side has reset, for the properties
    remote_goaway,
    failure,
    wire                \* what the peer has been sent of each stream

outVars == <<controls, output, credit_cursor, prefer_data, wire>>
frameVars == <<header, frame_active, frame_discard, frame_id, frame_fin, frame_remaining>>
idVars == <<next_id, peer_last_id, discarded_bytes, resets>>
sessionVars == <<remote_goaway, failure>>
vars == <<streams, outVars, frameVars, idVars, sessionVars>>

Streams == [id : Ids, send_credit : 0..MaxCredit, receive_credit : 0..Window,
            return_credit : 0..Window, used : 0..Ring, acknowledged : BOOLEAN,
            local_fin : BOOLEAN, remote_fin : BOOLEAN, reset : BOOLEAN, blocked : BOOLEAN]

Failures == {"PROTOCOL_ERROR", "SESSION_CLOSED", "TIMEOUT", "CAPACITY_EXCEEDED",
             "INVALID_STATE", "CANCELLED"}

TypeOK ==
    /\ streams \in [Slots -> Streams]
    /\ controls \in Seq(Frames) /\ Len(controls) <= ControlSlots
    /\ output \in Seq(Frames) /\ Len(output) <= 1
    /\ credit_cursor \in Slots /\ prefer_data \in BOOLEAN
    /\ header \in Seq(Frames) /\ Len(header) <= 1
    /\ frame_active \in BOOLEAN /\ frame_discard \in BOOLEAN /\ frame_fin \in BOOLEAN
    /\ frame_id \in Ids /\ frame_remaining \in 0..MaxCredit
    /\ next_id \in Ids /\ peer_last_id \in Ids /\ discarded_bytes \in 0..DiscardLimit
    /\ resets \in Nat
    /\ remote_goaway \in BOOLEAN
    /\ failure \in Failures \cup {"OK"}
    /\ wire \in [Ids -> {"none", "open", "fin", "rst"}]

Free == [id |-> 0, send_credit |-> 0, receive_credit |-> 0, return_credit |-> 0, used |-> 0,
         acknowledged |-> FALSE, local_fin |-> FALSE, remote_fin |-> FALSE, reset |-> FALSE,
         blocked |-> FALSE]

\* efrp_yamux_init
Init ==
    /\ streams = [i \in Slots |-> Free]
    /\ controls = <<>> /\ output = <<>> /\ credit_cursor = 1 /\ prefer_data = FALSE
    /\ header = <<>> /\ frame_active = FALSE /\ frame_discard = FALSE
    /\ frame_id = 0 /\ frame_fin = FALSE /\ frame_remaining = 0
    /\ next_id = 1 /\ peer_last_id = 0 /\ discarded_bytes = 0 /\ resets = 0
    /\ remote_goaway = FALSE
    /\ failure = "OK"
    /\ wire = [id \in Ids |-> "none"]

-----------------------------------------------------------------------------
(* Output: the control queue, the grants and the frame in transmission. *)

Ready == failure = "OK"

\* From here on every function returns the result and leaves the state alone,
\* until efrp_yamux_destroy clears it: it is dropped at once.
Fail(result) ==
    /\ failure' = result
    /\ streams' = [i \in Slots |-> Free]
    /\ controls' = <<>> /\ output' = <<>> /\ credit_cursor' = 1 /\ prefer_data' = FALSE
    /\ header' = <<>> /\ frame_active' = FALSE /\ frame_discard' = FALSE
    /\ frame_id' = 0 /\ frame_fin' = FALSE /\ frame_remaining' = 0
    /\ next_id' = 1 /\ peer_last_id' = 0 /\ discarded_bytes' = 0 /\ UNCHANGED resets
    /\ remote_goaway' = FALSE
    /\ wire' = [id \in Ids |-> "none"]

Frame(type, flags, id, value) == [type |-> type, flags |-> flags, id |-> id, value |-> value]

QueueFull == Len(controls) = ControlSlots
Queue(f) == ~QueueFull /\ controls' = Append(controls, f)

\* A slot in use whose stream neither side has reset.
Live(i) == streams[i].id # 0 /\ ~streams[i].reset

\* A stream whose read bytes may be granted to the peer again.
Grantable(i) == Live(i) /\ ~streams[i].remote_fin /\ streams[i].return_credit > 0

After(i) == IF i + 1 \in Slots THEN i + 1 ELSE 1

\* The first grantable stream from the cursor on, in round-robin order.
NextGrant(i) ==
    /\ Grantable(i)
    /\ \A j \in Slots : Grantable(j) =>
          \/ j >= credit_cursor /\ i >= credit_cursor /\ i <= j
          \/ j < credit_cursor /\ i >= credit_cursor
          \/ j < credit_cursor /\ i < credit_cursor /\ i <= j

\* efrp_yamux_output fills the output; the branch for a control frame.
OutputControl ==
    /\ Ready /\ output = <<>> /\ controls # <<>>
    /\ output' = <<Head(controls)>>
    /\ controls' = Tail(controls)
    /\ UNCHANGED <<streams, credit_cursor, prefer_data, wire, frameVars, idVars, sessionVars>>

\* The branch for a grant: the bytes are in the frame, no longer in the stream.
OutputGrant(i) ==
    /\ Ready /\ output = <<>> /\ controls = <<>> /\ NextGrant(i)
    /\ output' = <<Frame("WINDOW", {}, streams[i].id, streams[i].return_credit)>>
    /\ streams' = [streams EXCEPT ![i].return_credit = 0]
    /\ credit_cursor' = After(i)
    /\ prefer_data' = TRUE
    /\ UNCHANGED <<controls, wire, frameVars, idVars, sessionVars>>

IsGrant(f) == f.type = "WINDOW" /\ f.flags = {}

\* The credit that is on its way to the peer for the stream id.
Granted(id) == IF output # <<>> /\ IsGrant(output[1]) /\ output[1].id = id
               THEN output[1].value ELSE 0

\* What the peer knows of a stream once it has been sent f.
Sent(w, f) ==
    IF f.id = 0 THEN w
    ELSE IF "SYN" \in f.flags THEN "open"
    ELSE IF "FIN" \in f.flags THEN "fin"
    ELSE IF "RST" \in f.flags THEN "rst"
    ELSE w

\* efrp_yamux_consume_output, for the last byte of the frame: only now is the
\* granted credit the peer's.
efrp_yamux_consume_output ==
    /\ Ready /\ output # <<>>
    /\ IF \E i \in Slots : Live(i) /\ Granted(streams[i].id) > Window - streams[i].receive_credit
       THEN Fail("PROTOCOL_ERROR")
       ELSE /\ streams' = [i \in Slots |->
                  IF Live(i)
                  THEN [streams[i] EXCEPT !.receive_credit = @ + Granted(streams[i].id)]
                  ELSE streams[i]]
            /\ output' = <<>>
            /\ wire' = [wire EXCEPT ![output[1].id] = Sent(@, output[1])]
            /\ UNCHANGED <<controls, credit_cursor, prefer_data, frameVars, idVars, sessionVars>>

-----------------------------------------------------------------------------
(* Streams, as their owner uses them. *)

\* efrp_yamux_open takes the first free slot.
NextId(id) == IF id = MaxId THEN 0 ELSE id + 2

efrp_yamux_open ==
    /\ Ready /\ ~remote_goaway /\ next_id # 0
    /\ \E i \in Slots :
          /\ streams[i].id = 0 /\ \A j \in Slots : streams[j].id = 0 => i <= j
          /\ streams' = [streams EXCEPT ![i] =
                [Free EXCEPT !.id = next_id, !.send_credit = Window, !.receive_credit = Window]]
    /\ Queue(Frame("WINDOW", {"SYN"}, next_id, 0))
    /\ next_id' = NextId(next_id)
    /\ UNCHANGED <<output, credit_cursor, prefer_data, wire, frameVars, peer_last_id,
                   discarded_bytes, resets, sessionVars>>

\* A grant takes the output before DATA does, but not twice in a row.
Mut_DataMayPass ==
    output = <<>> /\ (prefer_data \/ ~\E i \in Slots : Grantable(i))
DataMayPass ==
    output = <<>> /\ controls = <<>> /\ (prefer_data \/ ~\E i \in Slots : Grantable(i))

\* efrp_yamux_write accepts n bytes as one DATA frame.
efrp_yamux_write(i, n) ==
    /\ Ready /\ Live(i) /\ ~streams[i].local_fin
    /\ DataMayPass
    /\ n <= Ring /\ n <= streams[i].send_credit
    /\ output' = <<Frame("DATA", {}, streams[i].id, n)>>
    /\ prefer_data' = FALSE
    /\ streams' = [streams EXCEPT ![i].send_credit = @ - n]
    /\ UNCHANGED <<controls, credit_cursor, wire, frameVars, idVars, sessionVars>>

Mut_efrp_yamux_read(i, n) ==
    /\ Ready /\ Live(i) /\ n <= streams[i].used
    /\ streams' = [streams EXCEPT ![i].used = @ - n, ![i].return_credit = n, ![i].blocked = FALSE]
    /\ UNCHANGED <<outVars, frameVars, idVars, sessionVars>>
efrp_yamux_read(i, n) ==
    /\ Ready /\ Live(i) /\ n <= streams[i].used
    /\ streams' = [streams EXCEPT ![i].used = @ - n, ![i].return_credit = @ + n,
                                  ![i].blocked = FALSE]
    /\ UNCHANGED <<outVars, frameVars, idVars, sessionVars>>

efrp_yamux_close_write(i) ==
    /\ Ready /\ Live(i) /\ ~streams[i].local_fin
    /\ Queue(Frame("WINDOW", {"FIN"}, streams[i].id, 0))
    /\ streams' = [streams EXCEPT ![i].local_fin = TRUE]
    /\ UNCHANGED <<output, credit_cursor, prefer_data, wire, frameVars, idVars, sessionVars>>

\* reset_state, for the stream and for what is left of its frame.  Of a stream
\* that has been reset only its id is read again.
Reset(s) == [Free EXCEPT !.id = s.id, !.reset = TRUE]

DiscardFrameOf(id) == frame_discard' = (frame_discard \/ (frame_active /\ frame_id = id))

\* efrp_yamux_reset
ResetStream(i) ==
    /\ Queue(Frame("WINDOW", {"RST"}, streams[i].id, 0))
    /\ streams' = [streams EXCEPT ![i] = Reset(@)]
    /\ DiscardFrameOf(streams[i].id)
    /\ resets' = resets + 1
    /\ UNCHANGED <<output, credit_cursor, prefer_data, wire, header, frame_active, frame_id,
                   frame_fin, frame_remaining, next_id, peer_last_id, discarded_bytes,
                   sessionVars>>

efrp_yamux_reset(i) == Ready /\ Live(i) /\ ResetStream(i)

MayRelease(s) == s.reset \/ (s.local_fin /\ s.remote_fin /\ s.used = 0)

efrp_yamux_release(i) ==
    /\ Ready /\ streams[i].id # 0 /\ MayRelease(streams[i])
    /\ DiscardFrameOf(streams[i].id)
    /\ streams' = [streams EXCEPT ![i] = Free]
    /\ UNCHANGED <<outVars, header, frame_active, frame_id, frame_fin, frame_remaining, idVars,
                   sessionVars>>

-----------------------------------------------------------------------------
(* start_frame(), for a complete header f. *)

Odd(id) == id % 2 = 1
Has(f, flag) == flag \in f.flags

\* What is wrong with a header whatever the state.
Malformed(f) ==
    CASE f.type = "BAD"    -> TRUE
      [] f.type = "PING"   -> f.id # 0 \/ f.flags \notin {{"SYN"}, {"ACK"}}
      [] f.type = "GOAWAY" -> f.id # 0 \/ f.flags # {} \/ f.value > 2
      [] OTHER -> f.id = 0 \/ {"SYN", "ACK"} \subseteq f.flags \/ {"FIN", "RST"} \subseteq f.flags

\* A stream that neither side can have opened, or that is opened twice.
WrongId(f) ==
    IF Has(f, "SYN") THEN Odd(f.id) \/ f.id <= peer_last_id \/ Has(f, "RST")
    ELSE IF Odd(f.id) THEN next_id # 0 /\ f.id >= next_id
    ELSE f.id > peer_last_id

\* What a live stream does not accept.
Mut_Violates(f, s) ==
    \/ Has(f, "ACK") /\ s.acknowledged
    \/ ~s.acknowledged /\ ~Has(f, "ACK")
    \/ s.remote_fin /\ ~Has(f, "RST") /\ (f.type = "DATA" \/ Has(f, "FIN"))
    \/ f.type = "DATA" /\ f.value > s.receive_credit
    \/ f.type = "WINDOW" /\ f.value > MaxCredit - s.send_credit
Violates(f, s) ==
    \/ Has(f, "ACK") /\ s.acknowledged
    \/ ~s.acknowledged /\ ~Has(f, "ACK") /\ ~Has(f, "RST")
    \/ s.remote_fin /\ ~Has(f, "RST") /\ (f.type = "DATA" \/ Has(f, "FIN"))
    \/ f.type = "DATA" /\ f.value > s.receive_credit
    \/ f.type = "WINDOW" /\ f.value > MaxCredit - s.send_credit

\* The stream after a frame that it accepts: without the body of a DATA frame.
Accepted(f, s) ==
    LET t == [s EXCEPT !.acknowledged = @ \/ Has(f, "ACK"),
                       !.receive_credit = IF f.type = "DATA" THEN @ - f.value ELSE @,
                       !.send_credit = IF f.type = "WINDOW" THEN @ + f.value ELSE @]
    IN  IF Has(f, "RST") THEN Reset(t) ELSE t

Holder(f) == {i \in Slots : streams[i].id = f.id}
Discarded(f) == \A i \in Holder(f) : streams[i].reset \/ Has(f, "RST")

TooMuch(f) ==
    /\ f.type = "DATA" /\ Discarded(f)
    /\ f.value > Window \/ f.value > DiscardLimit - discarded_bytes

\* efrp_yamux_feed hands over the header f: a new one, or the one that waited.
Arrives(f) ==
    /\ Ready /\ ~frame_active
    /\ header # <<>> => f = header[1]

\* A frame that needs a control slot for its answer waits with its header.
Answered(f) == Has(f, "SYN") /\ ~Malformed(f)

HeaderWaits(f) ==
    /\ Arrives(f) /\ header = <<>>
    /\ Answered(f) /\ QueueFull
    /\ f.type # "PING" => ~WrongId(f)
    /\ header' = <<f>>
    /\ UNCHANGED <<streams, outVars, frame_active, frame_discard, frame_id, frame_fin,
                   frame_remaining, idVars, sessionVars>>

PingFrame(f) ==
    /\ Arrives(f) /\ f.type = "PING" /\ ~Malformed(f)
    /\ Has(f, "SYN") /\ Queue(Frame("PING", {"ACK"}, 0, f.value))
    /\ header' = <<>>
    /\ UNCHANGED <<streams, output, credit_cursor, prefer_data, wire, frame_active, frame_discard,
                   frame_id, frame_fin, frame_remaining, idVars, sessionVars>>

GoawayFrame(f) ==
    /\ Arrives(f) /\ f.type = "GOAWAY" /\ ~Malformed(f)
    /\ IF f.value # 0
       THEN Fail("SESSION_CLOSED")
       ELSE /\ remote_goaway' = TRUE
            /\ UNCHANGED <<streams, outVars, frameVars, idVars, failure>>

\* end_frame(), for the streams ss as the frame has left them.
EndFrame(ss, id, fin) ==
    [i \in Slots |-> IF fin /\ id # 0 /\ ss[i].id = id /\ ~ss[i].reset
                     THEN [ss[i] EXCEPT !.remote_fin = TRUE] ELSE ss[i]]

\* A frame of a stream: an incoming SYN is answered by RST, a frame of a stream
\* that is gone is discarded, and one without a body ends at once.
StreamFrame(f) ==
    /\ Arrives(f) /\ f.type \in {"DATA", "WINDOW"} /\ ~Malformed(f)
    /\ ~WrongId(f) /\ ~TooMuch(f)
    /\ \A i \in Holder(f) : Live(i) => ~Violates(f, streams[i])
    /\ IF Has(f, "SYN")
       THEN Queue(Frame("WINDOW", {"RST"}, f.id, 0)) /\ peer_last_id' = f.id
       ELSE UNCHANGED <<controls, peer_last_id>>
    /\ LET body == IF f.type = "DATA" THEN f.value ELSE 0
           accepted == [i \in Slots |-> IF i \in Holder(f) /\ Live(i)
                                        THEN Accepted(f, streams[i]) ELSE streams[i]]
       IN  /\ streams' = IF body = 0 THEN EndFrame(accepted, f.id, Has(f, "FIN")) ELSE accepted
           /\ frame_remaining' = body
           /\ frame_active' = (body # 0)
           /\ frame_id' = IF body # 0 THEN f.id ELSE 0
           /\ frame_fin' = (body # 0 /\ Has(f, "FIN"))
           /\ frame_discard' = (body # 0 /\ Discarded(f))
    /\ header' = <<>>
    /\ UNCHANGED <<output, credit_cursor, prefer_data, wire, next_id, discarded_bytes, resets,
                   sessionVars>>

\* Everything else is a violation by the peer.
RejectedFrame(f) ==
    /\ Arrives(f)
    /\ \/ Malformed(f)
       \/ f.type = "PING" /\ Has(f, "ACK")
       \/ /\ f.type \in {"DATA", "WINDOW"}
          /\ \/ WrongId(f)
             \/ /\ ~(Answered(f) /\ QueueFull)
                /\ \/ TooMuch(f)
                   \/ \E i \in Holder(f) : Live(i) /\ Violates(f, streams[i])
    /\ Fail("PROTOCOL_ERROR")

-----------------------------------------------------------------------------
(* efrp_yamux_feed, for n bytes of the body of the active frame. *)

\* What is known of a frame is read only while it is active: with its last byte
\* it is forgotten.
TakeBody(n) ==
    /\ frame_remaining' = frame_remaining - n
    /\ frame_active' = (n # frame_remaining)
    /\ IF n = frame_remaining
       THEN frame_id' = 0 /\ frame_fin' = FALSE /\ frame_discard' = FALSE
       ELSE UNCHANGED <<frame_id, frame_fin, frame_discard>>

DiscardBody(n) ==
    /\ Ready /\ frame_active /\ frame_discard /\ n <= frame_remaining
    /\ IF n > DiscardLimit - discarded_bytes
       THEN Fail("PROTOCOL_ERROR")
       ELSE /\ discarded_bytes' = discarded_bytes + n
            /\ TakeBody(n)
            /\ streams' = IF n = frame_remaining THEN EndFrame(streams, frame_id, frame_fin)
                                                 ELSE streams
            /\ UNCHANGED <<outVars, header, next_id, peer_last_id, resets, sessionVars>>

FrameHolder == {i \in Slots : streams[i].id = frame_id}

Room(i) == Ring - streams[i].used

StoreBody(n) ==
    /\ Ready /\ frame_active /\ ~frame_discard /\ n <= frame_remaining
    /\ IF FrameHolder = {}
       THEN Fail("INVALID_STATE")
       ELSE \E i \in FrameHolder :
              /\ n <= Room(i)
              /\ LET stored == [streams EXCEPT ![i].used = @ + n]
                 IN  streams' = IF n = frame_remaining THEN EndFrame(stored, frame_id, frame_fin)
                                                      ELSE stored
              /\ TakeBody(n)
              /\ UNCHANGED <<outVars, header, idVars, sessionVars>>

\* The ring is full: the body waits and the stall timer runs.
BodyBlocked ==
    /\ Ready /\ frame_active /\ ~frame_discard
    /\ \E i \in FrameHolder :
          /\ Room(i) = 0
          /\ streams' = [streams EXCEPT ![i].blocked = TRUE]
    /\ UNCHANGED <<outVars, frameVars, idVars, sessionVars>>

-----------------------------------------------------------------------------
(* efrp_yamux_tick *)

\* Output, input or the pending ping made no progress in time.  Input may have
\* stopped within a header.
TickFails ==
    /\ Ready
    /\ Fail("TIMEOUT")

\* A stalled or unacknowledged stream is reset.
TickResets(i) ==
    /\ Ready /\ Live(i)
    /\ streams[i].blocked \/ ~streams[i].acknowledged
    /\ IF QueueFull THEN Fail("CAPACITY_EXCEEDED") ELSE ResetStream(i)

Tick == TickFails \/ \E i \in Slots : TickResets(i)

-----------------------------------------------------------------------------
(* What the multiplexer promises. *)

\* The bytes of the active frame that are still to come for the stream id.
Expected(id) == IF frame_active /\ ~frame_discard /\ frame_id = id THEN frame_remaining ELSE 0

\* Receive credit is neither lost nor invented: what the peer may send, what it
\* has announced, what waits in the ring and what has been read but not granted
\* again is one window, in every order of reads, grants, resets and frames.
CreditConserved ==
    \A i \in Slots : Live(i) =>
        LET s == streams[i] IN
        s.receive_credit + s.return_credit + s.used + Granted(s.id) + Expected(s.id) = Window

\* A body that is stored belongs to a live stream that has not ended, so that
\* feed() never fails for want of one; a reset or a release in the middle of the
\* body turns it into one that is discarded.
BodyHasStream ==
    /\ frame_active /\ ~frame_discard =>
          \E i \in Slots : Live(i) /\ streams[i].id = frame_id /\ ~streams[i].remote_fin
    /\ failure # "INVALID_STATE"

\* Whether the peer may be sent f when it knows w of the stream.
Legal(w, f) ==
    IF f.id = 0 THEN TRUE
    ELSE IF Has(f, "SYN") THEN w = "none"
    ELSE IF Has(f, "RST") THEN IF Odd(f.id) THEN w \in {"open", "fin"} ELSE w = "none"
    ELSE IF Has(f, "FIN") \/ f.type = "DATA" THEN w = "open"
    ELSE w \in {"open", "fin"}

\* Each stream leaves in order, although control frames overtake grants and
\* DATA: SYN first and once, no DATA after FIN, nothing after RST.
WireOrder == output # <<>> => Legal(wire[output[1].id], output[1])
=============================================================================
