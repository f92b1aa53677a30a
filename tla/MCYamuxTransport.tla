------------------------- MODULE MCYamuxTransport -------------------------
(* Small instances of YamuxTransport for TLC. *)
EXTENDS YamuxTransport

\* A malformed header, an answer to nothing, a farewell and a frame that a stream
\* may not take.
SomeRogueFrames ==
    {Frame("BAD", {}, 0, 0), Frame("PING", {"ACK"}, 0, 1), Frame("GOAWAY", {}, 0, 1),
     Frame("DATA", {}, 1, 2)}
===========================================================================
