------------------------------- MODULE Packets -------------------------------
(***************************************************************************)
(* The goroutines that carry datagrams over the work connections of udp    *)
(* and sudp proxies and over the connections of sudp visitors              *)
(* (client/proxy/udp.go, client/proxy/sudp.go, client/visitor/sudp.go,      *)
(* pkg/proto/udp).  Datagrams themselves may be lost and are left out: what *)
(* counts is who closes the connections and the channels, and who ends.     *)
(*                                                                          *)
(* A flow is one connection: the proxy or visitor it belongs to (of, name,  *)
(* cfg), how far InWorkConn has come (at), whether the far end is there,    *)
(* whether this end and the channels made for it were closed, and the       *)
(* goroutines that run.  A udp proxy names one connection and its channels, *)
(* and every call of InWorkConn runs in a goroutine of its own: held tells  *)
(* that the proxy names this one, late that it was named after the proxy    *)
(* had been closed, raced that another call was then between its Close and  *)
(* its own naming, and chan which flow's channels the goroutines were given.*)
(* The operators take the function fs of all flows, and gone, which tells   *)
(* whether the proxy or the visitor of a flow was closed.                   *)
(***************************************************************************)
EXTENDS Naturals, Sequences, FiniteSets

Unused == [kind |-> "unused"]
Done == [kind |-> "done"]
Flowing(f) == f.kind \notin {"unused", "done"}

\* The goroutines started for a work connection, where Forwarder adds one that reads the
\* channel and, while a user sends, one that reads the socket of that user; and the two of
\* a visitor's worker.
Goroutines(kind) ==
    IF kind = "visitor" THEN {"reader", "sender"} ELSE {"reader", "sender", "heartbeat", "forwarder"}

\* UDPProxy.InWorkConn reads sendCh and readCh for each of them, without the lock, in this
\* order; the last two are for Forwarder and the sockets it opens.
Reads == <<"sender", "reader", "heartbeat", "forwarder", "socket">>
ChannelOf(f, g) == f.chan[CHOOSE n \in DOMAIN Reads : Reads[n] = g]

NewFlow(kind, k, name, value) ==
    [kind |-> kind, of |-> k, name |-> name, cfg |-> value, at |-> "enter", peer |-> TRUE, shut |-> FALSE,
     held |-> FALSE, late |-> FALSE, raced |-> FALSE, run |-> {}, chan |-> <<>>]
Started(f) == [f EXCEPT !.at = "run", !.run = Goroutines(f.kind)]

\* Whether InWorkConn or one of its goroutines is still there.
Active(f) == Flowing(f) /\ (f.at # "run" \/ f.run # {})

\* UDPProxy.Close closes the connection that the proxy names and both channels at once; the
\* other two only close a channel that somebody has to notice.
Shut(f, gone) == f.shut \/ (f.kind = "udp" /\ f.held /\ ~f.late /\ gone)

-----------------------------------------------------------------------------
(* UDPProxy.InWorkConn: Close, the naming of the new connection under the   *)
(* lock, and the start of the goroutines.                                   *)

SameProxy(f, h) ==
    Flowing(f) /\ Flowing(h) /\ f.kind = "udp" /\ h.kind = "udp" /\ f.of = h.of /\ f.name = h.name /\ f.cfg = h.cfg
Named(fs, i) == {j \in DOMAIN fs : SameProxy(fs[i], fs[j]) /\ fs[j].held}

ClosesOld(fs, i) ==
    [j \in DOMAIN fs |-> IF j = i THEN [fs[j] EXCEPT !.at = "wrap"]
                         ELSE IF j \in Named(fs, i) THEN [fs[j] EXCEPT !.shut = TRUE]
                         ELSE fs[j]]

PastClose(fs, i) == {j \in DOMAIN fs \ {i} : SameProxy(fs[i], fs[j]) /\ fs[j].at = "wrap"}
NamesNew(fs, gone, i) ==
    [j \in DOMAIN fs |->
        IF j = i THEN [fs[j] EXCEPT !.at = "named", !.held = TRUE, !.late = gone[j], !.raced = PastClose(fs, i) # {}]
        ELSE IF j \in Named(fs, i) THEN [fs[j] EXCEPT !.held = FALSE, !.shut = Shut(fs[j], gone[j])]
        ELSE fs[j]]

\* The first n fields are read, as far as they were not, whichever flow the proxy names by
\* now.
ReadUpTo(fs, i, n) ==
    LET now == CHOOSE j \in Named(fs, i) : TRUE
    IN  [fs[i] EXCEPT !.chan = [k \in 1..(IF n > Len(@) THEN n ELSE Len(@)) |-> IF k <= Len(@) THEN @[k] ELSE now]]

\* The calls that have named their connection and still read.  What they read changes only
\* when another one is named, so that each has read some of it then and the rest in one step.
\* Goroutines that were started before that step have done nothing another call can see.
Reading(fs, i) == {j \in DOMAIN fs \ {i} : SameProxy(fs[i], fs[j]) /\ fs[j].at = "named"}
ReadSome(fs, upTo) == [j \in DOMAIN fs |-> IF j \in DOMAIN upTo THEN ReadUpTo(fs, j, upTo[j]) ELSE fs[j]]
StartsAll(fs, i) == [fs EXCEPT ![i] = Started(ReadUpTo(fs, i, Len(Reads)))]

-----------------------------------------------------------------------------
(* The goroutines end. *)

\* UDPProxy: the reader ends with its connection; the others when their channel is closed,
\* and the sender also when it has something to send, which is at least the Ping of a
\* heartbeat.  Nobody closes anything.
UdpEnds(fs, gone, i, g) ==
    LET f == fs[i]
        closed(j) == Shut(fs[j], gone[j])
        dead == closed(i) \/ ~f.peer
        pinged == \E j \in DOMAIN fs : SameProxy(f, fs[j]) /\ "heartbeat" \in fs[j].run
                                       /\ ChannelOf(fs[j], "heartbeat") = ChannelOf(f, "sender")
    IN  \/ g = "reader" /\ dead
        \/ g # "reader" /\ closed(ChannelOf(f, g))
        \/ g = "sender" /\ dead /\ pinged

\* SUDPProxy: whoever ends closes the connection and the channels (closeFn).
SudpEnds(f, gone, g) ==
    \/ f.shut
    \/ ~f.peer /\ g \in {"reader", "sender"}
    \/ gone /\ g = "heartbeat"

\* SUDPVisitor.worker: each of the two closes the connection when it ends, and the reader
\* tells the sender; Close closes the channel that the sender takes packets from.
VisitorEnds(f, gone, g) ==
    \/ f.shut \/ ~f.peer
    \/ gone /\ g = "sender"

CanEnd(fs, gone, i, g) ==
    CASE fs[i].kind = "udp" -> UdpEnds(fs, gone, i, g)
      [] fs[i].kind = "sudp" -> SudpEnds(fs[i], gone[i], g)
      [] fs[i].kind = "visitor" -> VisitorEnds(fs[i], gone[i], g)

\* What is left of a flow when some goroutines have ended.  The channels of a udp flow may
\* be in use by others after its own goroutines.
Without(f, gone, some) ==
    LET rest == f.run \ some
        closes == f.kind # "udp" /\ some \ {"forwarder", "socket"} # {}
    IN  IF rest # {} THEN [f EXCEPT !.run = rest, !.shut = f.shut \/ closes]
        ELSE IF f.kind = "udp" THEN [f EXCEPT !.run = {}, !.shut = Shut(f, gone), !.peer = FALSE, !.chan = <<>>]
        ELSE Done

\* What a goroutine does when it ends does not depend on the others, so that all that can
\* end are taken at once.
Ending(fs, gone, i) == {g \in fs[i].run : CanEnd(fs, gone, i, g)}
GoroutinesEnd(fs, gone, i) == [fs EXCEPT ![i] = Without(fs[i], gone[i], Ending(fs, gone, i))]

\* Forwarder: a packet of a user without a socket opens one, which is closed after a time
\* without answers or when the answer can no longer be handed on.
SocketOpens(f) == [f EXCEPT !.run = @ \cup {"socket"}]
SocketTimesOut(f, gone) == Without(f, gone, {"socket"})

\* The flows whose Forwarder gets what the reader of flow i has read.
Receivers(fs, i) ==
    IF fs[i].kind # "udp" THEN {i}
    ELSE {j \in DOMAIN fs : /\ SameProxy(fs[i], fs[j]) /\ "forwarder" \in fs[j].run
                            /\ ChannelOf(fs[j], "forwarder") = ChannelOf(fs[i], "reader")}
=============================================================================
