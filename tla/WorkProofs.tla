------------------------------ MODULE WorkProofs ------------------------------
(* Proofs about the work streams, for any number of slots, requests and bytes, and any
   limits and deadlines. *)
EXTENDS Work, FiniteSetTheorems, WellFoundedInduction, TLAPS

-----------------------------------------------------------------------------
(* The inductive invariant. *)

\* Where the loop of a step can be with the stream it is at.
Forwarding == {"timers", "read", "send", "fin", "recv", "write", "close"}
Placed(location, w) ==
    /\ location = "handshake" => w.phase = "SENDING"
    /\ location = "frame" => w.phase = "WAITING"
    /\ location = "connect" => w.phase = "CONNECTING" /\ role # Udp
    /\ location \in Forwarding => w.phase = "ACTIVE" /\ role # Udp
    /\ location = "udp" => w.phase \in {"CONNECTING", "ACTIVE"} /\ role = Udp
    /\ location \in {"cleanup", "local", "free"} => w.phase = "CLOSING"

\* What was read in one direction and has not been written follows what has been written.
Follows(got, waiting, read) ==
    /\ read = Len(got) + Len(waiting)
    /\ \A i \in 1..Len(waiting) : waiting[i] = Len(got) + i

\* The bytes and the ends of both directions of one stream.
Unread(w) ==
    /\ w.taken = 0 /\ w.given = 0 /\ w.local_got = <<>> /\ w.stream_got = <<>>
    /\ ~w.remote_eof /\ ~w.local_fin /\ ~w.local_eof /\ ~w.stream_fin
Delivered(w) ==
    /\ Numbered(w.local_got) /\ Numbered(w.stream_got)
    /\ w.local_fin => w.remote_eof /\ Len(w.local_got) = w.taken
    /\ w.stream_fin => w.local_eof /\ Len(w.stream_got) = w.given
Flow(w) ==
    /\ Delivered(w)
    /\ w.phase # "CLOSING" =>
          Follows(w.local_got, w.incoming, w.taken) /\ Follows(w.stream_got, w.outgoing, w.given)
    /\ w.phase = "CLOSING" => w.incoming = <<>> /\ w.outgoing = <<>>
    /\ w.remote_eof => w.incoming = <<>>
    /\ w.local_eof => w.outgoing = <<>>
    /\ w.phase \in {"none", "SENDING", "WAITING", "PEER_OPENING"} => Unread(w)
    /\ w.phase = "CLOSING" /\ w.result = "OK" => w.local_fin /\ w.stream_fin

\* The socket that a stream has in each phase; a frame reader is one of a stream in admission.
Socketed(w) ==
    /\ w.phase = "none" => w.local = "none"
    /\ w.phase \in {"CONNECTING", "ACTIVE"} /\ role # Udp => w.local # "none"
    /\ w.phase = "PEER_OPENING" => w.local # "none" /\ role = PeerVisitor
    /\ w.phase \in {"SENDING", "WAITING"} => (w.local = "none" <=> role # Visitor)
    /\ w.reader => w.phase = "WAITING"

\* The streams whose request is not settled, and those with a socket.
Counted(w) == w.phase # "none" /\ (w.phase # "CLOSING" \/ w.result = "OK")
Open == {s \in Slots : Counted(streams[s])}
Locals == {s \in Slots : streams[s].local # "none"}
InAdmission(w) == w.phase \in {"SENDING", "WAITING"}

\* What holds until the session ends.
Working ==
    /\ Placed(at, Me)
    /\ \A s \in Slots : Flow(streams[s]) /\ Socketed(streams[s])
    /\ \A s, t \in Slots : InAdmission(streams[s]) /\ InAdmission(streams[t]) => s = t
    /\ handshake_json <=> \E s \in Slots : streams[s].reader
    /\ unsettled = pending + Cardinality(Open)

Ending ==
    /\ ended # "no" => at = "idle"
    /\ drained => /\ ended # "no" /\ listener = "none" /\ ~accepted
                  /\ \A s \in Slots : streams[s].local = "none" /\ ~streams[s].udp

\* The listener's socket is one of the limit too.
Held == IF accepted THEN 1 ELSE 0
Bounded ==
    /\ accepted => role = Visitor
    /\ role # Udp => Cardinality(Locals) + Held <= SocketLimit

Inv == TypeOK /\ (ended = "no" => Working) /\ Ending /\ Bounded

-----------------------------------------------------------------------------
(* Types. *)

\* The sizes and the limits are what they are called.
LEMMA Sizes ==
    /\ NumSlots \in Nat /\ SocketLimit \in Nat /\ PendingLimit \in Nat /\ BufferSize \in Nat
    /\ NumSlots > 0 /\ SocketLimit > 0 /\ PendingLimit > 0 /\ BufferSize > 0
    /\ ResponseTime \in Nat /\ ConnectTime \in Nat /\ StallTime \in Nat /\ IdleTime \in Nat /\ CleanupTime \in Nat
    /\ MaxElapsed \in Nat /\ StreamBytes \in Nat /\ LocalBytes \in Nat
  BY WorkSizes, WorkBounds

\* The longest of two times.
LEMMA LaterType ==
    /\ Later(ResponseTime, CleanupTime) \in Nat
    /\ ResponseTime <= Later(ResponseTime, CleanupTime)
    /\ CleanupTime <= Later(ResponseTime, CleanupTime)
  BY Sizes DEF Later

\* The values that the actions give to the fields of a stream.
LEMMA Values ==
    /\ <<>> \in InBytes /\ <<>> \in OutBytes /\ 0 \in Taken /\ 0 \in Given
    /\ 0 \in Lefts /\ ResponseTime \in Lefts /\ CleanupTime \in Lefts
    /\ 0 \in ConnectLefts /\ ConnectTime \in ConnectLefts /\ 0 \in Idles /\ 0 \in Ages
  BY Sizes, LaterType DEF InBytes, OutBytes, Taken, Given, Lefts, ConnectLefts, Idles, Ages

\* The record of a free slot.
LEMMA EmptyType == Empty \in Stream
  BY Values DEF Empty, Stream, Phases

\* The halves are kept or reset.
LEMMA HalvesType ==
    ASSUME NEW w \in Stream, NEW kept \in BOOLEAN
    PROVE  /\ Halves(w, kept) \in Stream
           /\ \A x \in {"phase", "local", "stream", "udp", "reader", "result", "incoming", "outgoing", "taken", "given",
                        "local_got", "stream_got"} : Halves(w, kept)[x] = w[x]
           /\ Halves(w, kept).remote_eof = (w.remote_eof /\ kept) /\ Halves(w, kept).local_fin = (w.local_fin /\ kept)
           /\ Halves(w, kept).local_eof = (w.local_eof /\ kept) /\ Halves(w, kept).stream_fin = (w.stream_fin /\ kept)
<1> DEFINE a == w.remote_eof /\ kept
           b == w.local_fin /\ kept
           c == w.local_eof /\ kept
           d == w.stream_fin /\ kept
<1>1. a \in BOOLEAN /\ b \in BOOLEAN /\ c \in BOOLEAN /\ d \in BOOLEAN
  OBVIOUS
<1> HIDE DEF a, b, c, d
<1> DEFINE h == [w EXCEPT !.remote_eof = a, !.local_fin = b, !.local_eof = c, !.stream_fin = d]
<1>2. h \in Stream
  BY <1>1 DEF Stream
<1>3. /\ h.phase = w.phase /\ h.local = w.local /\ h.stream = w.stream /\ h.udp = w.udp /\ h.reader = w.reader
      /\ h.result = w.result /\ h.incoming = w.incoming /\ h.outgoing = w.outgoing
      /\ h.taken = w.taken /\ h.given = w.given /\ h.local_got = w.local_got /\ h.stream_got = w.stream_got
      /\ h.remote_eof = a /\ h.local_fin = b /\ h.local_eof = c /\ h.stream_fin = d
  BY DEF Stream
<1>4. Halves(w, kept) = h
  BY DEF Halves, a, b, c, d
<1> HIDE DEF h
<1> QED
  BY <1>2, <1>3, <1>4 DEF a, b, c, d

\* A stream that is closed keeps its socket and what it delivered.
LEMMA ClosedType ==
    ASSUME NEW w \in Stream, NEW reason
    PROVE  /\ Closed(w, reason) \in Stream
           /\ Closed(w, reason).phase = "CLOSING"
           /\ Closed(w, reason).result = (IF reason = "OK" THEN "OK" ELSE "FAILED")
           /\ Closed(w, reason).local = w.local /\ ~Closed(w, reason).reader
           /\ Closed(w, reason).incoming = <<>> /\ Closed(w, reason).outgoing = <<>>
           /\ Closed(w, reason).taken = w.taken /\ Closed(w, reason).given = w.given
           /\ Closed(w, reason).local_got = w.local_got /\ Closed(w, reason).stream_got = w.stream_got
           /\ Closed(w, reason).remote_eof = (w.remote_eof /\ reason = "OK")
           /\ Closed(w, reason).local_fin = (w.local_fin /\ reason = "OK")
           /\ Closed(w, reason).local_eof = (w.local_eof /\ reason = "OK")
           /\ Closed(w, reason).stream_fin = (w.stream_fin /\ reason = "OK")
<1> DEFINE h == Halves(w, reason = "OK")
           d == Dropped(h)
           r == IF reason = "OK" THEN "OK" ELSE "FAILED"
           l == IF reason = "OK" THEN CleanupTime ELSE 0
<1>1. /\ h \in Stream /\ h.local = w.local
      /\ h.taken = w.taken /\ h.given = w.given /\ h.local_got = w.local_got /\ h.stream_got = w.stream_got
      /\ h.remote_eof = (w.remote_eof /\ reason = "OK") /\ h.local_fin = (w.local_fin /\ reason = "OK")
      /\ h.local_eof = (w.local_eof /\ reason = "OK") /\ h.stream_fin = (w.stream_fin /\ reason = "OK")
  BY HalvesType
<1> HIDE DEF h
<1>2. /\ d \in Stream /\ d.local = h.local /\ d.reader = FALSE /\ d.incoming = <<>> /\ d.outgoing = <<>>
      /\ d.taken = h.taken /\ d.given = h.given /\ d.local_got = h.local_got /\ d.stream_got = h.stream_got
      /\ d.remote_eof = h.remote_eof /\ d.local_fin = h.local_fin
      /\ d.local_eof = h.local_eof /\ d.stream_fin = h.stream_fin
  BY <1>1, Values DEF Dropped, Stream
<1> HIDE DEF d
<1>3. r \in {"OK", "FAILED"} /\ l \in Lefts
  BY Values
<1> HIDE DEF r, l
<1> DEFINE e == [d EXCEPT !.phase = "CLOSING", !.result = r, !.left = l]
<1>4. e \in Stream
  BY <1>2, <1>3 DEF Stream, Phases
<1>5. /\ e.phase = "CLOSING" /\ e.result = r /\ e.local = d.local /\ e.reader = d.reader
      /\ e.incoming = d.incoming /\ e.outgoing = d.outgoing
      /\ e.taken = d.taken /\ e.given = d.given /\ e.local_got = d.local_got /\ e.stream_got = d.stream_got
      /\ e.remote_eof = d.remote_eof /\ e.local_fin = d.local_fin
      /\ e.local_eof = d.local_eof /\ e.stream_fin = d.stream_fin
  BY <1>2 DEF Stream
<1>6. Closed(w, reason) = e
  BY DEF Closed, d, h, r, l
<1> HIDE DEF e
<1> QED
  BY <1>1, <1>2, <1>4, <1>5, <1>6 DEF r

-----------------------------------------------------------------------------
(* Counting. *)

\* Sets of slots are finite.
LEMMA SlotSets ==
    /\ IsFiniteSet(Slots) /\ Cardinality(Slots) = NumSlots
    /\ \A S \in SUBSET Slots : IsFiniteSet(S) /\ Cardinality(S) \in 0..NumSlots
<1>1. IsFiniteSet(Slots) /\ Cardinality(Slots) = NumSlots
  BY Sizes, FS_Interval DEF Slots
<1>2. ASSUME NEW S \in SUBSET Slots
      PROVE  IsFiniteSet(S) /\ Cardinality(S) \in 0..NumSlots
  BY <1>1, FS_Subset, FS_CardinalityType, Sizes
<1> QED
  BY <1>1, <1>2

\* What a stream adds to the unsettled requests, and to the sockets.
Weight(w) == IF Counted(w) THEN 1 ELSE 0
Plug(w) == IF w.local # "none" THEN 1 ELSE 0

\* A slot that changes changes the number of unsettled streams by its own weight.
LEMMA OpenStep ==
    ASSUME TypeOK, NEW s \in Slots, NEW w, streams' = [streams EXCEPT ![s] = w]
    PROVE  Cardinality(Open') = Cardinality(Open) + Weight(w) - Weight(streams[s])
<1>1. Open \in SUBSET Slots /\ Open' \in SUBSET Slots
  BY DEF Open
<1>2. IsFiniteSet(Open) /\ Cardinality(Open) \in Nat
  BY <1>1, SlotSets, Sizes
<1>3. \A t \in Slots : streams'[t] = IF t = s THEN w ELSE streams[t]
  BY DEF TypeOK
<1>4. s \in Open <=> Counted(streams[s])
  BY DEF Open
<1>5. CASE Counted(w)
  <2>1. Open' = Open \cup {s}
    BY <1>3, <1>5 DEF Open
  <2> QED
    BY <1>2, <1>4, <1>5, <2>1, FS_AddElement DEF Weight
<1>6. CASE ~Counted(w)
  <2>1. Open' = Open \ {s}
    BY <1>3, <1>6 DEF Open
  <2>2. Cardinality(Open \ {s}) = IF s \in Open THEN Cardinality(Open) - 1 ELSE Cardinality(Open)
    BY <1>2, FS_RemoveElement
  <2> QED
    BY <1>2, <1>4, <1>6, <2>1, <2>2 DEF Weight
<1> QED
  BY <1>5, <1>6

\* And the number of sockets by its own.
LEMMA LocalsStep ==
    ASSUME TypeOK, NEW s \in Slots, NEW w, streams' = [streams EXCEPT ![s] = w]
    PROVE  Cardinality(Locals') = Cardinality(Locals) + Plug(w) - Plug(streams[s])
<1>1. Locals \in SUBSET Slots /\ Locals' \in SUBSET Slots
  BY DEF Locals
<1>2. IsFiniteSet(Locals) /\ Cardinality(Locals) \in Nat
  BY <1>1, SlotSets, Sizes
<1>3. \A t \in Slots : streams'[t] = IF t = s THEN w ELSE streams[t]
  BY DEF TypeOK
<1>4. s \in Locals <=> streams[s].local # "none"
  BY DEF Locals
<1>5. CASE w.local # "none"
  <2>1. Locals' = Locals \cup {s}
    BY <1>3, <1>5 DEF Locals
  <2> QED
    BY <1>2, <1>4, <1>5, <2>1, FS_AddElement DEF Plug
<1>6. CASE w.local = "none"
  <2>1. Locals' = Locals \ {s}
    BY <1>3, <1>6 DEF Locals
  <2>2. Cardinality(Locals \ {s}) = IF s \in Locals THEN Cardinality(Locals) - 1 ELSE Cardinality(Locals)
    BY <1>2, FS_RemoveElement
  <2> QED
    BY <1>2, <1>4, <1>6, <2>1, <2>2 DEF Plug
<1> QED
  BY <1>5, <1>6

-----------------------------------------------------------------------------
(* One step of the loop on the stream it is at. *)

\* While a step is under way nothing has ended, and the loop is at one of the slots.
LEMMA Under ==
    ASSUME Inv, ended = "no"
    PROVE  /\ Working /\ Me \in Stream /\ slot \in Slots /\ Flow(Me) /\ Socketed(Me) /\ Placed(at, Me)
           /\ handshake_json \in BOOLEAN
           /\ InAdmission(Me) => (handshake_json <=> Me.reader)
           /\ ~drained
<1>1. Working /\ TypeOK /\ Ending
  BY DEF Inv
<1>2. slot \in Slots /\ Me \in Stream /\ handshake_json \in BOOLEAN
  BY <1>1 DEF TypeOK, Me
<1>3. Flow(Me) /\ Socketed(Me) /\ Placed(at, Me)
  BY <1>1, <1>2 DEF Working, Me
<1>4. ASSUME InAdmission(Me) PROVE handshake_json <=> Me.reader
  <2>1. \A t \in Slots : streams[t].reader => InAdmission(streams[t])
    BY <1>1 DEF Working, Socketed, InAdmission
  <2>2. \A t \in Slots : streams[t].reader => t = slot
    BY <1>1, <1>2, <1>4, <2>1 DEF Working, Me
  <2> QED
    BY <1>1, <1>2, <2>2 DEF Working, Me
<1> QED
  BY <1>1, <1>2, <1>3, <1>4 DEF Ending

\* The stream that the loop is at becomes w, which is sound, has a new socket only if there
\* is room for it, is not newly in admission and is accounted for.
LEMMA SlotStep ==
    ASSUME Inv, ended = "no", NEW w \in Stream, Flow(w), Socketed(w), Put(w),
           UNCHANGED <<role, pending, listenerVars, endVars>>,
           at' \in Locations, slot' \in Slots, visited' \in Slots, cursor' \in Slots, Placed(at, Me)',
           unsettled' = unsettled + Weight(w) - Weight(Me),
           w.local # "none" => Me.local # "none" \/ Cardinality(Locals) + Held < SocketLimit,
           InAdmission(w) => InAdmission(Me),
           handshake_json' \in BOOLEAN,
           handshake_json' <=> (IF InAdmission(Me) THEN w.reader ELSE handshake_json)
    PROVE  Inv'
<1>1. Working /\ TypeOK /\ slot \in Slots /\ Ending /\ Bounded
  BY Under DEF Inv
<1>2. streams' = [streams EXCEPT ![slot] = w] /\ streams' \in [Slots -> Stream]
  BY <1>1 DEF Put, TypeOK
<1>3. \A t \in Slots : streams'[t] = IF t = slot THEN w ELSE streams[t]
  BY <1>1, <1>2 DEF TypeOK
<1>4. role' = role /\ pending' = pending /\ listener' = listener /\ accepted' = accepted /\ ended' = ended /\ drained' = drained
  BY DEF listenerVars, endVars
<1>5. /\ Cardinality(Open) \in 0..NumSlots /\ Cardinality(Open') \in 0..NumSlots
      /\ Cardinality(Open') = Cardinality(Open) + Weight(w) - Weight(Me)
      /\ Weight(w) \in {0, 1} /\ Weight(Me) \in {0, 1}
  <2>1. Open \in SUBSET Slots /\ Open' \in SUBSET Slots
    BY DEF Open
  <2> QED
    BY <1>1, <1>2, <2>1, SlotSets, OpenStep DEF Me, Weight
<1>6. unsettled' = pending' + Cardinality(Open')
  BY <1>1, <1>4, <1>5, Sizes DEF Working, TypeOK
<1>7. TypeOK'
  BY <1>1, <1>2, <1>4, <1>5, <1>6, Sizes DEF TypeOK
<1>8. \A t \in Slots : Flow(streams'[t]) /\ Socketed(streams'[t])
  BY <1>1, <1>3 DEF Working
<1>8a. \A t \in Slots : (Flow(streams[t]) /\ Socketed(streams[t]))'
  BY <1>4, <1>8 DEF Flow, Socketed
<1>9. \A s, t \in Slots : InAdmission(streams'[s]) /\ InAdmission(streams'[t]) => s = t
  BY <1>1, <1>3 DEF Working, Me
<1>10. handshake_json' <=> \E s \in Slots : streams'[s].reader
  <2>1. CASE InAdmission(Me)
    <3>1. \A t \in Slots : t # slot => ~streams[t].reader
      BY <1>1, <2>1 DEF Working, Socketed, InAdmission, Me
    <3> QED
      BY <1>1, <1>3, <2>1, <3>1
  <2>2. CASE ~InAdmission(Me)
    <3>1. ~Me.reader /\ ~w.reader
      BY <1>1, <2>2 DEF Working, Socketed, InAdmission, Me
    <3> QED
      BY <1>1, <1>3, <2>2, <3>1 DEF Working, Me
  <2> QED
    BY <2>1, <2>2
<1>11. Working'
  BY <1>6, <1>8a, <1>9, <1>10 DEF Working, InAdmission
<1>12. Ending'
  BY <1>1, <1>4 DEF Ending
<1>13. Bounded'
  <2>1. Locals \in SUBSET Slots /\ Locals' \in SUBSET Slots
    BY DEF Locals
  <2>2. Cardinality(Locals') = Cardinality(Locals) + Plug(w) - Plug(Me)
    BY <1>1, <1>2, LocalsStep DEF Me
  <2>3. /\ Plug(w) \in {0, 1} /\ Plug(Me) \in {0, 1}
        /\ Plug(w) <= Plug(Me) \/ (Plug(w) = 1 /\ Plug(Me) = 0 /\ Cardinality(Locals) + Held < SocketLimit)
    BY DEF Plug
  <2>4. Cardinality(Locals) \in Nat /\ Cardinality(Locals') \in Nat
    BY <2>1, SlotSets, Sizes
  <2>5. Held' = Held /\ Held \in {0, 1}
    BY <1>4 DEF Held
  <2> QED
    BY <1>1, <1>4, <2>2, <2>3, <2>4, <2>5, Sizes DEF Bounded
<1> QED
  BY <1>7, <1>11, <1>12, <1>13 DEF Inv

\* The loop goes on to a slot, or is done.
LEMMA NextSlotType ==
    ASSUME TypeOK, NextSlot
    PROVE  at' \in {"slot", "idle"} /\ slot' \in Slots /\ visited' \in Slots /\ cursor' \in Slots
<1>1. \A a \in Nat : a % NumSlots \in 0..(NumSlots - 1)
  BY Sizes
<1> QED
  BY <1>1, Sizes DEF TypeOK, NextSlot, Slots

\* What a step keeps of a stream that it does not close.
Fit(w) == w \in Stream /\ Flow(w) /\ Socketed(w)
Same(w) ==
    /\ Counted(w) <=> Counted(Me)
    /\ w.local # "none" => Me.local # "none"
    /\ InAdmission(w) => InAdmission(Me)
    /\ InAdmission(Me) => w.reader = Me.reader

\* The loop goes on with the same stream.
LEMMA GoesInv ==
    ASSUME Inv, ended = "no", NEW w, Fit(w), Same(w), NEW next \in Locations, Goes(w, next), Placed(next, w)
    PROVE  Inv'
<1>1. TypeOK /\ slot \in Slots /\ handshake_json \in BOOLEAN /\ (InAdmission(Me) => (handshake_json <=> Me.reader))
  BY Under DEF Inv
<1>2. w \in Stream /\ Flow(w) /\ Socketed(w)
  BY DEF Fit
<1>3. Put(w) /\ at' = next /\ UNCHANGED <<role, pending, cursor, listenerVars, endVars, handshake_json, unsettled, slot, visited>>
  BY DEF Goes, Rest
<1>4. Me' = w
  BY <1>1, <1>3 DEF Put, Me, TypeOK
<1>5. Placed(at, Me)'
  BY <1>3, <1>4 DEF Placed
<1>6. unsettled' = unsettled + Weight(w) - Weight(Me)
  BY <1>1, <1>3 DEF Same, Weight, TypeOK
<1>7. /\ at' \in Locations /\ slot' \in Slots /\ visited' \in Slots /\ cursor' \in Slots
      /\ handshake_json' \in BOOLEAN /\ handshake_json' = handshake_json
      /\ UNCHANGED <<role, pending, listenerVars, endVars>>
  BY <1>1, <1>3 DEF TypeOK
<1>8. handshake_json' <=> (IF InAdmission(Me) THEN w.reader ELSE handshake_json)
  BY <1>1, <1>7 DEF Same
<1> QED
  BY <1>2, <1>3, <1>5, <1>6, <1>7, <1>8, SlotStep DEF Same

\* The loop goes on with the next one.
LEMMA LeavesInv ==
    ASSUME Inv, ended = "no", NEW w, Fit(w), Same(w), Leaves(w)
    PROVE  Inv'
<1>1. TypeOK /\ slot \in Slots /\ handshake_json \in BOOLEAN /\ (InAdmission(Me) => (handshake_json <=> Me.reader))
  BY Under DEF Inv
<1>2. w \in Stream /\ Flow(w) /\ Socketed(w)
  BY DEF Fit
<1>3. Put(w) /\ UNCHANGED <<role, pending, handshake_json, unsettled, listenerVars, endVars>>
  BY DEF Leaves, setVars
<1>4. at' \in {"slot", "idle"} /\ slot' \in Slots /\ visited' \in Slots /\ cursor' \in Slots
  BY <1>1, NextSlotType DEF Leaves
<1>5. Placed(at, Me)' /\ at' \in Locations
  BY <1>4 DEF Placed, Forwarding, Locations
<1>6. unsettled' = unsettled + Weight(w) - Weight(Me)
  BY <1>1, <1>3 DEF Same, Weight, TypeOK
<1>7. handshake_json' <=> (IF InAdmission(Me) THEN w.reader ELSE handshake_json)
  BY <1>1, <1>3 DEF Same
<1>8. handshake_json' \in BOOLEAN /\ UNCHANGED <<role, pending, listenerVars, endVars>>
  BY <1>1, <1>3
<1> QED
  BY <1>2, <1>3, <1>4, <1>5, <1>6, <1>7, <1>8, SlotStep DEF Same

\* A stream that is closed is sound.
LEMMA ClosedFit ==
    ASSUME NEW w \in Stream, Delivered(w), NEW reason, reason = "OK" => w.local_fin /\ w.stream_fin
    PROVE  Fit(Closed(w, reason)) /\ (Counted(Closed(w, reason)) <=> reason = "OK")
<1> DEFINE d == Closed(w, reason)
<1>1. /\ d \in Stream /\ d.phase = "CLOSING" /\ d.result = (IF reason = "OK" THEN "OK" ELSE "FAILED")
      /\ ~d.reader /\ d.incoming = <<>> /\ d.outgoing = <<>>
      /\ d.taken = w.taken /\ d.given = w.given /\ d.local_got = w.local_got /\ d.stream_got = w.stream_got
      /\ d.remote_eof = (w.remote_eof /\ reason = "OK") /\ d.local_fin = (w.local_fin /\ reason = "OK")
      /\ d.local_eof = (w.local_eof /\ reason = "OK") /\ d.stream_fin = (w.stream_fin /\ reason = "OK")
  BY ClosedType
<1> HIDE DEF d
<1>2. Flow(d)
  BY <1>1 DEF Flow, Delivered
<1>3. Socketed(d)
  BY <1>1 DEF Socketed
<1>4. Counted(d) <=> reason = "OK"
  BY <1>1 DEF Counted
<1> QED
  BY <1>1, <1>2, <1>3, <1>4 DEF Fit, d

\* A stream in use is closed: w is what is left of it, with a socket only if it had one.
LEMMA EndInv ==
    ASSUME Inv, ended = "no", NEW w \in Stream, Delivered(w), w.phase = Me.phase, Me.phase \notin {"none", "CLOSING"},
           w.local # "none" => Me.local # "none",
           NEW reason, reason = "OK" => w.local_fin /\ w.stream_fin, close_work(w, reason)
    PROVE  Inv'
<1> DEFINE d == Closed(w, reason)
<1>1. TypeOK /\ slot \in Slots /\ handshake_json \in BOOLEAN
  BY Under DEF Inv
<1>2. d \in Stream /\ d.phase = "CLOSING" /\ ~d.reader /\ d.local = w.local
  BY ClosedType
<1>3. Flow(d) /\ Socketed(d) /\ (Counted(d) <=> reason = "OK")
  BY ClosedFit DEF Fit
<1>4. Put(d) /\ at' = "cleanup" /\ UNCHANGED <<role, pending, cursor, listenerVars, endVars, slot, visited>>
  BY DEF close_work, Rest
<1>5. handshake_json' = KeepsBuffer(w) /\ unsettled' = unsettled - (IF reason = "OK" THEN 0 ELSE 1)
  BY DEF close_work
<1> HIDE DEF d
<1>6. Me' = d
  BY <1>1, <1>4 DEF Put, Me, TypeOK
<1>7. Placed(at, Me)' /\ at' \in Locations
  BY <1>2, <1>4, <1>6 DEF Placed, Forwarding, Locations
<1>8. unsettled' = unsettled + Weight(d) - Weight(Me)
  BY <1>1, <1>3, <1>5 DEF Weight, Counted, TypeOK
<1>9. /\ handshake_json' \in BOOLEAN /\ (handshake_json' <=> (IF InAdmission(Me) THEN d.reader ELSE handshake_json))
  BY <1>1, <1>2, <1>5 DEF KeepsBuffer, InAdmission
<1>10. /\ slot' \in Slots /\ visited' \in Slots /\ cursor' \in Slots
       /\ UNCHANGED <<role, pending, listenerVars, endVars>>
  BY <1>1, <1>4 DEF TypeOK
<1>11. (d.local # "none" => Me.local # "none") /\ ~InAdmission(d)
  BY <1>2 DEF InAdmission
<1> QED
  BY <1>2, <1>3, <1>4, <1>7, <1>8, <1>9, <1>10, <1>11, SlotStep

\* The same for a stream that the loop has not changed in another way.
LEMMA CloseInv ==
    ASSUME Inv, ended = "no", NEW w \in Stream, Flow(w), w.phase = Me.phase, Me.phase \notin {"none", "CLOSING"},
           w.local # "none" => Me.local # "none",
           NEW reason, reason = "OK" => w.local_fin /\ w.stream_fin, close_work(w, reason)
    PROVE  Inv'
  BY EndInv DEF Flow

\* The stream as it is.
LEMMA MeFit ==
    ASSUME Inv, ended = "no"
    PROVE  Fit(Me) /\ Same(Me)
  BY Under DEF Fit, Same

\* The loop runs until the session ends.
LEMMA Busy ==
    ASSUME Inv, at # "idle"
    PROVE  ended = "no"
  BY DEF Inv, Ending

-----------------------------------------------------------------------------
(* The end of the session. *)

\* A socket that is being closed keeps its slot.
LEMMA DrainingType ==
    ASSUME NEW w \in Stream
    PROVE  /\ Draining(w) \in Stream /\ Draining(w).phase = "CLOSING"
           /\ Draining(w).local # "none" => w.local # "none"
<1> DEFINE l == IF w.local = "none" THEN "none" ELSE "draining"
<1>1. l \in {"none", "connecting", "open", "lingering", "draining", "closed"} /\ (l # "none" => w.local # "none")
  OBVIOUS
<1>2. w.udp \in BOOLEAN
  BY DEF Stream
<1> HIDE DEF l
<1> DEFINE d == [Empty EXCEPT !.phase = "CLOSING", !.udp = w.udp, !.local = l]
<1>3. d \in Stream
  BY <1>1, <1>2, EmptyType DEF Stream, Phases
<1>4. d.phase = "CLOSING" /\ d.local = l
  BY EmptyType DEF Stream
<1>5. Draining(w) = d
  BY DEF Draining, l
<1> HIDE DEF d
<1> QED
  BY <1>1, <1>3, <1>4, <1>5

\* A session that ends keeps only sockets that it had, and says that it is done when none
\* is left.
LEMMA CancelInv ==
    ASSUME Inv, NEW code \in {"NO_MEMORY", "transport", "listener", "INVALID_STATE", "cancelled"}, Cancels(code)
    PROVE  Inv'
<1>1. TypeOK /\ Bounded
  BY DEF Inv
<1>2. PICK slow \in SUBSET {s \in Slots : Holds(streams[s])} :
          streams' = [s \in Slots |-> IF s \in slow THEN Draining(streams[s]) ELSE Empty]
  BY DEF Cancels
<1>3. ASSUME NEW s \in Slots
      PROVE  /\ streams'[s] \in Stream
             /\ streams'[s].local # "none" => streams[s].local # "none"
             /\ streams'[s].phase = "none" => streams'[s].local = "none" /\ ~streams'[s].udp
  <2>1. streams[s] \in Stream
    BY <1>1 DEF TypeOK
  <2>2. CASE s \in slow
    <3>1. streams'[s] = Draining(streams[s])
      BY <1>2, <2>2
    <3> QED
      BY <2>1, <3>1, DrainingType
  <2>3. CASE s \notin slow
    <3>1. streams'[s] = Empty
      BY <1>2, <2>3
    <3>2. Empty.local = "none" /\ ~Empty.udp
      BY DEF Empty
    <3> QED
      BY <3>1, <3>2, EmptyType
  <2> QED
    BY <2>2, <2>3
<1>4. streams' \in [Slots -> Stream]
  BY <1>2, <1>3
<1>5. /\ ended' = code /\ at' = "idle" /\ slot' = 0 /\ visited' = 0 /\ cursor' = 0
      /\ pending' = 0 /\ handshake_json' = FALSE /\ unsettled' = 0 /\ role' = role
      /\ drained' = (listener' = "none" /\ \A s \in Slots : streams'[s].phase = "none")
  BY DEF Cancels
<1>6. /\ accepted' \in BOOLEAN /\ (accepted' => accepted)
      /\ listener' \in {"none", "closing"} /\ (listener' = "none" => ~accepted')
  <2>1. efrp_tcp_listener_destroy
    BY DEF Cancels
  <2>2. accepted \in BOOLEAN /\ (accepted' = accepted \/ accepted' = FALSE)
    BY <1>1, <2>1 DEF efrp_tcp_listener_destroy, TypeOK
  <2>3. listener' \in {"none", "closing"} /\ (listener' = "none" => ~accepted')
    BY <2>1 DEF efrp_tcp_listener_destroy
  <2>4. accepted' \in BOOLEAN
    BY <2>2
  <2>5. accepted' => accepted
    BY <2>2
  <2> QED
    BY <2>3, <2>4, <2>5
<1>7. 0 \in Slots
  BY Sizes DEF Slots
<1>8. TypeOK'
  <2>1. drained' \in BOOLEAN
    BY <1>5
  <2>2. role' \in Roles /\ pending' \in 0..PendingLimit /\ unsettled' \in 0..(PendingLimit + NumSlots)
    BY <1>1, <1>5, Sizes DEF TypeOK
  <2>3. /\ handshake_json' \in BOOLEAN /\ at' \in Locations /\ slot' \in Slots /\ visited' \in Slots /\ cursor' \in Slots
        /\ ended' \in {"no", "NO_MEMORY", "transport", "listener", "INVALID_STATE", "cancelled"}
    BY <1>5, <1>7 DEF Locations
  <2> QED
    BY <1>4, <1>6, <2>1, <2>2, <2>3 DEF TypeOK
<1>9. Ending'
  BY <1>3, <1>5, <1>6 DEF Ending
<1>10. Bounded'
  <2>1. Locals \in SUBSET Slots /\ Locals' \in SUBSET Locals
    BY <1>3 DEF Locals
  <2>2. /\ Cardinality(Locals) \in Nat /\ Cardinality(Locals') \in Nat
        /\ Cardinality(Locals') <= Cardinality(Locals)
    BY <2>1, SlotSets, FS_Subset, FS_CardinalityType
  <2>3. Held \in {0, 1} /\ Held' \in {0, 1} /\ Held' <= Held
    BY <1>6 DEF Held
  <2> QED
    BY <1>1, <1>5, <1>6, <2>2, <2>3, Sizes DEF Bounded
<1>11. ended' # "no"
  BY <1>5
<1> QED
  BY <1>8, <1>9, <1>10, <1>11 DEF Inv

-----------------------------------------------------------------------------
(* Admission and the handshake. *)

\* w moves the same bytes, and has the same ends, as the stream it comes from.
Alike(v, w) ==
    /\ w.result = v.result /\ w.incoming = v.incoming /\ w.outgoing = v.outgoing
    /\ w.remote_eof = v.remote_eof /\ w.local_fin = v.local_fin
    /\ w.local_eof = v.local_eof /\ w.stream_fin = v.stream_fin
    /\ w.taken = v.taken /\ w.given = v.given /\ w.local_got = v.local_got /\ w.stream_got = v.stream_got

Silent == {"none", "SENDING", "WAITING", "PEER_OPENING"}

\* A phase that no byte has passed may follow another such, and bytes flow in what follows.
LEMMA FlowKept ==
    ASSUME NEW v, NEW w, Flow(v), Alike(v, w),
           \/ w.phase = v.phase
           \/ v.phase # "CLOSING" /\ w.phase \in {"CONNECTING", "ACTIVE"}
           \/ v.phase \in Silent /\ w.phase \in Silent
    PROVE  Flow(w)
  BY DEF Flow, Delivered, Alike, Silent, Unread

\* The stream of a peer's visitor is opened.
LEMMA PeerOpensInv ==
    ASSUME Inv, PeerOpens
    PROVE  Inv'
<1>1. ended = "no" /\ Me.phase = "PEER_OPENING" /\ at = "slot"
  BY Busy DEF PeerOpens, PeerOpening
<1>2. Me \in Stream /\ Flow(Me) /\ Socketed(Me) /\ Placed(at, Me)
  BY <1>1, Under
<1>3. ASSUME NEW reason \in {"TIMEOUT", "FAILED"}, close_work(Me, reason) PROVE Inv'
  BY <1>1, <1>2, <1>3, CloseInv
<1>4. CASE Leaves(Me)
  BY <1>1, <1>4, MeFit, LeavesInv
<1>5. CASE Goes([Me EXCEPT !.phase = "ACTIVE", !.stream = "open", !.left = 0], "timers")
  <2> DEFINE w == [Me EXCEPT !.phase = "ACTIVE", !.stream = "open", !.left = 0]
  <2>1. w \in Stream
    BY <1>1, <1>2, Values DEF Stream, Phases
  <2>2. w.phase = "ACTIVE" /\ w.local = Me.local /\ w.reader = Me.reader /\ Alike(Me, w)
    BY <1>1, <1>2 DEF Stream, Alike
  <2>3. Goes(w, "timers")
    BY <1>5
  <2> HIDE DEF w
  <2>4. Flow(w)
    BY <1>1, <1>2, <2>2, FlowKept
  <2>5. Socketed(w)
    BY <1>1, <1>2, <2>2 DEF Socketed
  <2>6. Same(w)
    BY <1>1, <1>2, <2>2 DEF Same, Counted, InAdmission
  <2>7. Placed("timers", w) /\ "timers" \in Locations
    BY <1>1, <1>2, <2>2 DEF Placed, Locations, Forwarding, Socketed, PeerVisitor, Udp
  <2> QED
    BY <1>1, <2>1, <2>3, <2>4, <2>5, <2>6, <2>7, GoesInv DEF Fit
<1> QED
  BY <1>3, <1>4, <1>5 DEF PeerOpens

\* The loop turns to what the stream is at.
LEMMA EnterSlotInv ==
    ASSUME Inv, SkipSlot \/ SeesReset \/ EnterSlot \/ StreamInfoFails
    PROVE  Inv'
<1>1. ended = "no" /\ at = "slot"
  BY Busy DEF SkipSlot, SeesReset, EnterSlot, StreamInfoFails
<1>2. Me \in Stream /\ Flow(Me) /\ Socketed(Me) /\ Placed(at, Me)
  BY <1>1, Under
<1>3. CASE SkipSlot
  BY <1>1, <1>3, MeFit, LeavesInv DEF SkipSlot
<1>4. CASE SeesReset
  BY <1>1, <1>2, <1>4, CloseInv DEF SeesReset
<1>5. CASE EnterSlot
  <2>1. Me.phase \in {"SENDING", "WAITING", "CONNECTING", "ACTIVE", "CLOSING"} /\ Goes(Me, Where(Me))
    BY <1>2, <1>5 DEF EnterSlot, Stream, Phases
  <2>2. Placed(Where(Me), Me) /\ Where(Me) \in Locations
    BY <2>1 DEF Where, Placed, Locations, Forwarding
  <2> QED
    BY <1>1, <2>1, <2>2, MeFit, GoesInv
<1>6. CASE StreamInfoFails
  BY <1>6, CancelInv DEF StreamInfoFails
<1> QED
  BY <1>3, <1>4, <1>5, <1>6

\* The stream of a visitor is opened.
LEMMA VisitorOpensInv ==
    ASSUME Inv, VisitorOpens
    PROVE  Inv'
<1>1. ended = "no" /\ at = "handshake"
  BY Busy DEF VisitorOpens
<1>2. Me \in Stream /\ Flow(Me) /\ Socketed(Me) /\ Placed(at, Me)
  BY <1>1, Under
<1>3. Me.phase = "SENDING"
  BY <1>1, <1>2 DEF Placed
<1>4. ASSUME NEW reason \in {"TIMEOUT", "FAILED"}, close_work(Me, reason) PROVE Inv'
  BY <1>1, <1>2, <1>3, <1>4, CloseInv
<1>5. CASE Leaves(Me)
  BY <1>1, <1>5, MeFit, LeavesInv
<1>6. CASE Goes([Me EXCEPT !.stream = "open"], "handshake")
  <2> DEFINE w == [Me EXCEPT !.stream = "open"]
  <2>1. w \in Stream
    BY <1>1, <1>2, <1>3, Values DEF Stream, Phases
  <2>2. w.phase = Me.phase /\ w.local = Me.local /\ w.reader = Me.reader /\ Alike(Me, w)
    BY <1>1, <1>2, <1>3 DEF Stream, Alike
  <2>3. Goes(w, "handshake")
    BY <1>6
  <2> HIDE DEF w
  <2>4. Flow(w)
    BY <1>1, <1>2, <1>3, <2>2, FlowKept
  <2>5. Socketed(w)
    BY <1>1, <1>2, <1>3, <2>2 DEF Socketed
  <2>6. Same(w)
    BY <1>1, <1>2, <1>3, <2>2 DEF Same, Counted, InAdmission
  <2>7. Placed("handshake", w) /\ "handshake" \in Locations
    BY <1>1, <1>2, <1>3, <2>2 DEF Placed, Locations, Forwarding
  <2> QED
    BY <1>1, <2>1, <2>3, <2>4, <2>5, <2>6, <2>7, GoesInv DEF Fit
<1> QED
  BY <1>4, <1>5, <1>6 DEF VisitorOpens

\* The request is written.
LEMMA SendRequestInv ==
    ASSUME Inv, SendRequest
    PROVE  Inv'
<1>1. ended = "no" /\ at = "handshake"
  BY Busy DEF SendRequest
<1>2. Me \in Stream /\ Flow(Me) /\ Socketed(Me) /\ Placed(at, Me)
  BY <1>1, Under
<1>3. Me.phase = "SENDING"
  BY <1>1, <1>2 DEF Placed
<1>4. ASSUME NEW reason \in {"TIMEOUT", "FAILED"}, close_work(Me, reason) PROVE Inv'
  BY <1>1, <1>2, <1>3, <1>4, CloseInv
<1>5. CASE Leaves(Me)
  BY <1>1, <1>5, MeFit, LeavesInv
<1>6. CASE Goes([Me EXCEPT !.phase = "WAITING", !.request = FALSE, !.left = IF role = Visitor THEN @ ELSE 0], "frame")
  <2> DEFINE w == [Me EXCEPT !.phase = "WAITING", !.request = FALSE, !.left = IF role = Visitor THEN @ ELSE 0]
  <2>1. w \in Stream
    BY <1>1, <1>2, <1>3, Values DEF Stream, Phases
  <2>2. w.phase = "WAITING" /\ w.local = Me.local /\ w.reader = Me.reader /\ Alike(Me, w)
    BY <1>1, <1>2, <1>3 DEF Stream, Alike
  <2>3. Goes(w, "frame")
    BY <1>6
  <2> HIDE DEF w
  <2>4. Flow(w)
    BY <1>1, <1>2, <1>3, <2>2, FlowKept DEF Silent
  <2>5. Socketed(w)
    BY <1>1, <1>2, <1>3, <2>2 DEF Socketed
  <2>6. Same(w)
    BY <1>1, <1>2, <1>3, <2>2 DEF Same, Counted, InAdmission
  <2>7. Placed("frame", w) /\ "frame" \in Locations
    BY <1>1, <1>2, <1>3, <2>2 DEF Placed, Locations, Forwarding
  <2> QED
    BY <1>1, <2>1, <2>3, <2>4, <2>5, <2>6, <2>7, GoesInv DEF Fit
<1> QED
  BY <1>4, <1>5, <1>6 DEF SendRequest

\* The frame has not come, or is refused.
LEMMA FrameInv ==
    ASSUME Inv, FrameFails \/ FrameWaits \/ FrameRejected
    PROVE  Inv'
<1>1. ended = "no" /\ at = "frame"
  BY Busy DEF FrameFails, FrameWaits, FrameRejected, Reads
<1>2. Me \in Stream /\ Flow(Me) /\ Socketed(Me) /\ Placed(at, Me)
  BY <1>1, Under
<1>3. Me.phase = "WAITING"
  BY <1>1, <1>2 DEF Placed
<1>4. ASSUME NEW reason \in {"TIMEOUT", "FAILED"}, close_work(Me, reason) PROVE Inv'
  BY <1>1, <1>2, <1>3, <1>4, CloseInv
<1>5. CASE FrameFails
  BY <1>4, <1>5 DEF FrameFails
<1>6. CASE FrameWaits
  BY <1>1, <1>6, MeFit, LeavesInv DEF FrameWaits
<1>7. CASE FrameRejected
  BY <1>4, <1>7 DEF FrameRejected
<1> QED
  BY <1>5, <1>6, <1>7

\* A part of the frame takes the buffer.
LEMMA FramePartInv ==
    ASSUME Inv, FramePart
    PROVE  Inv'
<1>1. ended = "no" /\ at = "frame"
  BY Busy DEF FramePart, Reads
<1>2. Me \in Stream /\ Flow(Me) /\ Socketed(Me) /\ Placed(at, Me) /\ TypeOK
  BY <1>1, Under DEF Inv
<1>3. Me.phase = "WAITING"
  BY <1>1, <1>2 DEF Placed
<1> DEFINE w == [Me EXCEPT !.reader = TRUE, !.partial = TRUE,
                           !.left = IF Me.partial \/ role = Visitor THEN @ ELSE ResponseTime]
<1>4. w \in Stream
  BY <1>2, Values DEF Stream, Phases
<1>5. w.phase = "WAITING" /\ w.local = Me.local /\ w.reader = TRUE /\ Alike(Me, w)
  BY <1>2, <1>3 DEF Stream, Alike
<1>6. /\ Put(w) /\ handshake_json' = TRUE /\ NextSlot
      /\ UNCHANGED <<role, pending, listenerVars, endVars>> /\ unsettled' = unsettled
  BY DEF FramePart
<1> HIDE DEF w
<1>7. Flow(w) /\ Socketed(w)
  BY <1>2, <1>3, <1>5, FlowKept DEF Socketed
<1>8. at' \in {"slot", "idle"} /\ slot' \in Slots /\ visited' \in Slots /\ cursor' \in Slots
  BY <1>2, <1>6, NextSlotType
<1>9. Placed(at, Me)' /\ at' \in Locations
  BY <1>8 DEF Placed, Forwarding, Locations
<1>10. unsettled' = unsettled + Weight(w) - Weight(Me)
  BY <1>2, <1>3, <1>5, <1>6 DEF Weight, Counted, TypeOK
<1>11. InAdmission(Me) /\ handshake_json' \in BOOLEAN /\ (handshake_json' <=> w.reader)
  BY <1>3, <1>5, <1>6 DEF InAdmission
<1>12. w.local # "none" => Me.local # "none"
  BY <1>5
<1> QED
  BY <1>1, <1>4, <1>6, <1>7, <1>8, <1>9, <1>10, <1>11, <1>12, SlotStep

\* The bytes that follow the frame in the same read.
LEMMA FirstBytes ==
    ASSUME NEW n \in 0..StreamBytes
    PROVE  /\ [i \in 1..n |-> i] \in InBytes /\ n \in Taken
           /\ Len([i \in 1..n |-> i]) = n
           /\ n = 0 => [i \in 1..n |-> i] = <<>>
<1>1. n \in Nat /\ [i \in 1..n |-> i] \in [1..n -> 1..StreamBytes]
  BY Sizes
<1>2. [i \in 1..n |-> i] \in Seq(1..StreamBytes) /\ Len([i \in 1..n |-> i]) = n
  BY <1>1
<1> QED
  BY <1>2 DEF InBytes, Taken

\* A stream whose frame has ended, in whatever phase it goes on.
LEMMA StartedType ==
    ASSUME Me \in Stream, Flow(Me), Me.phase = "WAITING", NEW n \in 0..StreamBytes
    PROVE  /\ Started(n) \in Stream /\ Started(n).phase = "WAITING" /\ Started(n).local = Me.local
           /\ Started(n).reader = FALSE /\ Delivered(Started(n))
           /\ \A w : Alike(Started(n), w) /\ w.phase \in {"CONNECTING", "ACTIVE"} => Flow(w)
<1> DEFINE bytes == [i \in 1..n |-> i]
<1>1. bytes \in InBytes /\ n \in Taken /\ Len(bytes) = n /\ (\A i \in 1..n : bytes[i] = i) /\ n \in Nat
  BY FirstBytes
<1> HIDE DEF bytes
<1> DEFINE w == [Me EXCEPT !.reader = FALSE, !.partial = FALSE, !.left = 0, !.incoming = bytes, !.taken = n]
<1>2. w \in Stream
  BY <1>1, Values DEF Stream
<1>3. /\ w.phase = "WAITING" /\ w.local = Me.local /\ w.reader = FALSE /\ w.result = Me.result
      /\ w.incoming = bytes /\ w.taken = n /\ w.outgoing = Me.outgoing /\ w.given = Me.given
      /\ w.remote_eof = Me.remote_eof /\ w.local_fin = Me.local_fin /\ w.local_eof = Me.local_eof /\ w.stream_fin = Me.stream_fin
      /\ w.local_got = Me.local_got /\ w.stream_got = Me.stream_got
  BY DEF Stream
<1>4. Started(n) = w
  BY DEF Started, bytes
<1> HIDE DEF w
<1>5. Unread(Me) /\ Delivered(Me) /\ Follows(Me.stream_got, Me.outgoing, Me.given)
      /\ (Me.local_eof => Me.outgoing = <<>>)
  BY DEF Flow
<1>6. Len(Me.local_got) = 0 /\ Me.taken = 0
  BY <1>5 DEF Unread
<1>7. Delivered(w)
  BY <1>3, <1>5 DEF Delivered, Unread
<1>8. ASSUME NEW x, Alike(w, x), x.phase \in {"CONNECTING", "ACTIVE"}
      PROVE  Flow(x)
  <2>1. x.local_got = Me.local_got /\ x.incoming = bytes /\ x.taken = n
    BY <1>3, <1>8 DEF Alike
  <2>2. Follows(x.local_got, x.incoming, x.taken)
    BY <1>1, <1>6, <2>1 DEF Follows
  <2>3. Follows(x.stream_got, x.outgoing, x.given)
    BY <1>3, <1>5, <1>8 DEF Alike
  <2>4. ~x.remote_eof /\ ~x.local_eof /\ ~x.local_fin /\ ~x.stream_fin
    BY <1>3, <1>5, <1>8 DEF Alike, Unread
  <2>5. Delivered(x)
    BY <1>3, <1>5, <1>8, <2>4 DEF Alike, Delivered
  <2> QED
    BY <1>8, <2>2, <2>3, <2>4, <2>5 DEF Flow
<1> QED
  BY <1>2, <1>3, <1>4, <1>7, <1>8

\* The stream goes on after its frame, without the buffer.
LEMMA StartInv ==
    ASSUME Inv, at = "frame", NEW n \in 0..StreamBytes, NEW w \in Stream, Alike(Started(n), w),
           w.phase \in {"CONNECTING", "ACTIVE"}, ~w.reader, Socketed(w),
           w.local # "none" => Me.local # "none" \/ Cardinality(Locals) + Held < SocketLimit,
           NEW next \in Locations, Placed(next, w),
           Put(w), handshake_json' = FALSE, at' = next, UNCHANGED <<Rest, unsettled, slot, visited>>
    PROVE  Inv'
<1>1. ended = "no" /\ TypeOK
  BY Busy DEF Inv
<1>2. Me \in Stream /\ Flow(Me) /\ Placed(at, Me) /\ slot \in Slots
  BY <1>1, Under
<1>3. Me.phase = "WAITING"
  BY <1>2 DEF Placed
<1>4. Flow(w)
  BY <1>2, <1>3, StartedType
<1>5. /\ UNCHANGED <<role, pending, listenerVars, endVars>> /\ unsettled' = unsettled /\ slot' = slot
      /\ at' \in Locations /\ slot' \in Slots /\ visited' \in Slots /\ cursor' \in Slots
  BY <1>1 DEF Rest, TypeOK
<1>6. Me' = w
  BY <1>1, <1>2, <1>5 DEF Put, Me, TypeOK
<1>7. Placed(at, Me)'
  BY <1>5, <1>6 DEF Placed
<1>8. unsettled' = unsettled + Weight(w) - Weight(Me)
  BY <1>1, <1>3, <1>5 DEF Weight, Counted, TypeOK
<1>9. InAdmission(Me) /\ ~InAdmission(w) /\ handshake_json' \in BOOLEAN /\ (handshake_json' <=> w.reader)
  BY <1>3 DEF InAdmission
<1> QED
  BY <1>1, <1>4, <1>5, <1>7, <1>8, <1>9, SlotStep

\* A visitor's stream is active.
LEMMA StartVisitInv ==
    ASSUME Inv, NEW n \in 0..StreamBytes, StartVisit(n)
    PROVE  Inv'
<1>1. at = "frame" /\ ended = "no" /\ role = Visitor
  BY Busy DEF StartVisit, FrameEnds, Reads
<1>2. Me \in Stream /\ Flow(Me) /\ Socketed(Me) /\ Placed(at, Me)
  BY <1>1, Under
<1>3. Me.phase = "WAITING" /\ Me.local # "none"
  BY <1>1, <1>2 DEF Placed, Socketed
<1>4. Started(n) \in Stream /\ Started(n).local = Me.local /\ Started(n).reader = FALSE
  BY <1>2, <1>3, StartedType
<1> DEFINE w == [Started(n) EXCEPT !.phase = "ACTIVE"]
<1>5. w \in Stream
  BY <1>4 DEF Stream, Phases
<1>6. w.phase = "ACTIVE" /\ w.local = Me.local /\ w.reader = FALSE /\ Alike(Started(n), w)
  BY <1>4 DEF Stream, Alike
<1>7. Put(w) /\ handshake_json' = FALSE /\ at' = "timers" /\ UNCHANGED <<Rest, unsettled, slot, visited>>
  BY DEF StartVisit, FrameEnds
<1> HIDE DEF w
<1>8. Socketed(w)
  BY <1>3, <1>6 DEF Socketed
<1>9. Placed("timers", w) /\ "timers" \in Locations
  BY <1>1, <1>6 DEF Placed, Forwarding, Locations, Visitor, Udp
<1> QED
  BY <1>1, <1>3, <1>5, <1>6, <1>7, <1>8, <1>9, StartInv

\* A provider connects its socket, when there is room for it.
LEMMA StartWorkInv ==
    ASSUME Inv, NEW n \in 0..StreamBytes, StartWork(n)
    PROVE  Inv'
<1>1. at = "frame" /\ ended = "no" /\ role = Provider /\ Cardinality(Sockets) < SocketLimit
  BY Busy DEF StartWork, FrameEnds, Reads
<1>2. Me \in Stream /\ Flow(Me) /\ Socketed(Me) /\ Placed(at, Me) /\ Working /\ TypeOK /\ Bounded
  BY <1>1, Under DEF Inv
<1>3. Me.phase = "WAITING"
  BY <1>1, <1>2 DEF Placed
<1>4. Started(n) \in Stream /\ Started(n).reader = FALSE
  BY <1>2, <1>3, StartedType
<1> DEFINE w == [Started(n) EXCEPT !.phase = "CONNECTING", !.local = "connecting", !.connect_left = ConnectTime]
<1>5. w \in Stream
  BY <1>4, Values DEF Stream, Phases
<1>6. w.phase = "CONNECTING" /\ w.local = "connecting" /\ w.reader = FALSE /\ Alike(Started(n), w)
  BY <1>4 DEF Stream, Alike
<1>7. Put(w) /\ handshake_json' = FALSE /\ at' = "connect" /\ UNCHANGED <<Rest, unsettled, slot, visited>>
  BY DEF StartWork, FrameEnds
<1> HIDE DEF w
<1>8. Socketed(w)
  BY <1>6 DEF Socketed
<1>9. Placed("connect", w) /\ "connect" \in Locations
  BY <1>1, <1>6 DEF Placed, Forwarding, Locations, Provider, Udp
<1>10. Cardinality(Locals) + Held < SocketLimit
  <2>1. Sockets \in SUBSET Slots
    BY DEF Sockets, In
  <2>2. ASSUME NEW s \in Slots, streams[s].local # "none" PROVE s \in Sockets
    <3>1. streams[s].phase \in Phases
      BY <1>2 DEF TypeOK, Stream
    <3>2. streams[s].phase \notin {"none", "SENDING", "WAITING"}
      BY <1>1, <1>2, <2>2 DEF Working, Socketed, Provider, Visitor
    <3> QED
      BY <2>2, <3>1, <3>2 DEF Sockets, In, Phases
  <2>3. Locals \in SUBSET Sockets
    BY <2>2 DEF Locals
  <2>4. /\ Cardinality(Locals) \in Nat /\ Cardinality(Sockets) \in Nat
        /\ Cardinality(Locals) <= Cardinality(Sockets)
    BY <2>1, <2>3, SlotSets, FS_Subset, FS_CardinalityType
  <2>5. Held = 0
    BY <1>1, <1>2 DEF Bounded, Held, Provider, Visitor
  <2> QED
    BY <1>1, <2>4, <2>5, Sizes
<1> QED
  BY <1>1, <1>5, <1>6, <1>7, <1>8, <1>9, <1>10, StartInv

\* At the limit the stream is closed.
LEMMA StartRefusedInv ==
    ASSUME Inv, NEW n \in 0..StreamBytes, StartRefused(n)
    PROVE  Inv'
<1>1. at = "frame" /\ ended = "no" /\ close_work(Started(n), "FAILED")
  BY Busy DEF StartRefused, FrameEnds, Reads
<1>2. Me \in Stream /\ Flow(Me) /\ Placed(at, Me)
  BY <1>1, Under
<1>3. Me.phase = "WAITING"
  BY <1>1, <1>2 DEF Placed
<1>4. Started(n) \in Stream /\ Started(n).phase = "WAITING" /\ Started(n).local = Me.local /\ Delivered(Started(n))
  BY <1>2, <1>3, StartedType
<1> QED
  BY <1>1, <1>3, <1>4, EndInv

\* The stream of a UDP proxy waits for the one before it to end, starts and forwards.
LEMMA UdpInv ==
    ASSUME Inv, UdpWaits \/ UdpStarts \/ UdpForwards
    PROVE  Inv'
<1>1. ended = "no" /\ at = "udp"
  BY Busy DEF UdpWaits, UdpStarts, UdpForwards
<1>2. Me \in Stream /\ Flow(Me) /\ Socketed(Me) /\ Placed(at, Me)
  BY <1>1, Under
<1>3. Me.phase \in {"CONNECTING", "ACTIVE"} /\ role = Udp
  BY <1>1, <1>2 DEF Placed
<1>4. ASSUME NEW reason \in {"TIMEOUT", "FAILED"}, close_work(Me, reason) PROVE Inv'
  BY <1>1, <1>2, <1>3, <1>4, CloseInv
<1>5. CASE Leaves(Me)
  BY <1>1, <1>5, MeFit, LeavesInv
<1>6. CASE Goes([Me EXCEPT !.phase = "ACTIVE", !.udp = TRUE, !.left = 0], "udp")
  <2> DEFINE w == [Me EXCEPT !.phase = "ACTIVE", !.udp = TRUE, !.left = 0]
  <2>1. w \in Stream
    BY <1>1, <1>2, <1>3, Values DEF Stream, Phases
  <2>2. w.phase = "ACTIVE" /\ w.local = Me.local /\ w.reader = Me.reader /\ Alike(Me, w)
    BY <1>1, <1>2, <1>3 DEF Stream, Alike
  <2>3. Goes(w, "udp")
    BY <1>6
  <2> HIDE DEF w
  <2>4. Flow(w)
    BY <1>1, <1>2, <1>3, <2>2, FlowKept
  <2>5. Socketed(w)
    BY <1>1, <1>2, <1>3, <2>2 DEF Socketed
  <2>6. Same(w)
    BY <1>1, <1>2, <1>3, <2>2 DEF Same, Counted, InAdmission
  <2>7. Placed("udp", w) /\ "udp" \in Locations
    BY <1>1, <1>2, <1>3, <2>2 DEF Placed, Locations, Forwarding
  <2> QED
    BY <1>1, <2>1, <2>3, <2>4, <2>5, <2>6, <2>7, GoesInv DEF Fit
<1> QED
  BY <1>4, <1>5, <1>6 DEF UdpWaits, UdpStarts, UdpForwards

\* The new stream of a UDP proxy closes those before it, each of which is settled.
LEMMA StartUdpInv ==
    ASSUME Inv, StartUdp
    PROVE  Inv'
<1>1. at = "frame" /\ ended = "no" /\ role = Udp
  BY Busy DEF StartUdp, FrameEnds, Reads
<1>2. /\ Me \in Stream /\ Flow(Me) /\ Socketed(Me) /\ Placed(at, Me) /\ slot \in Slots
      /\ Working /\ TypeOK /\ Ending /\ Bounded
  BY <1>1, Under DEF Inv
<1>3. Me.phase = "WAITING" /\ 0 \in 0..StreamBytes
  BY <1>1, <1>2, Sizes DEF Placed
<1>4. Started(0) \in Stream /\ Started(0).reader = FALSE
  BY <1>2, <1>3, StartedType
<1> DEFINE w == [Started(0) EXCEPT !.phase = "CONNECTING", !.left = ResponseTime]
<1>5. w \in Stream
  BY <1>4, Values DEF Stream, Phases
<1>6. w.phase = "CONNECTING" /\ w.reader = FALSE /\ Alike(Started(0), w)
  BY <1>4 DEF Stream, Alike
<1>7. streams' = [s \in Slots |-> IF s = slot THEN w
                                  ELSE IF s \in Replaced THEN Closed(streams[s], "FAILED") ELSE streams[s]]
  BY DEF StartUdp
<1>8. /\ handshake_json' = FALSE /\ at' = "udp" /\ unsettled' = unsettled - Cardinality(Replaced)
      /\ role' = role /\ pending' = pending /\ cursor' = cursor /\ slot' = slot /\ visited' = visited
      /\ listener' = listener /\ accepted' = accepted /\ ended' = ended /\ drained' = drained
  BY DEF StartUdp, FrameEnds, Rest, listenerVars, endVars
<1> HIDE DEF w
<1>9. Flow(w) /\ Socketed(w)
  BY <1>1, <1>2, <1>3, <1>6, StartedType DEF Socketed
<1>10. Replaced \in SUBSET Slots /\ \A s \in Replaced : s # slot /\ streams[s].phase \in {"CONNECTING", "ACTIVE"}
  BY DEF Replaced, In
<1>11. ASSUME NEW s \in Slots
       PROVE  /\ streams'[s] \in Stream /\ Flow(streams'[s]) /\ Socketed(streams'[s])
              /\ Counted(streams'[s]) <=> Counted(streams[s]) /\ s \notin Replaced
              /\ ~streams'[s].reader
              /\ InAdmission(streams'[s]) => s # slot /\ InAdmission(streams[s])
  <2>1. streams[s] \in Stream /\ Flow(streams[s]) /\ Socketed(streams[s])
    BY <1>2 DEF TypeOK, Working
  <2>2. CASE s = slot
    <3>1. streams'[s] = w /\ s \notin Replaced /\ streams[s] = Me
      BY <1>7, <1>10, <2>2 DEF Me
    <3> QED
      BY <1>3, <1>5, <1>6, <1>9, <3>1 DEF Counted, InAdmission
  <2>3. CASE s # slot /\ s \in Replaced
    <3>1. streams'[s] = Closed(streams[s], "FAILED")
      BY <1>7, <2>3
    <3>2. Delivered(streams[s])
      BY <2>1 DEF Flow
    <3>3. Fit(Closed(streams[s], "FAILED")) /\ ~Counted(Closed(streams[s], "FAILED"))
      BY <2>1, <3>2, ClosedFit
    <3>4. Closed(streams[s], "FAILED").phase = "CLOSING" /\ ~Closed(streams[s], "FAILED").reader
      BY <2>1, ClosedType
    <3> QED
      BY <2>3, <3>1, <3>3, <3>4 DEF Fit, InAdmission
  <2>4. CASE s # slot /\ s \notin Replaced
    <3>1. streams'[s] = streams[s]
      BY <1>7, <2>4
    <3>2. ~streams[s].reader
      BY <1>2, <1>3, <2>1, <2>4 DEF Working, Socketed, InAdmission, Me
    <3> QED
      BY <2>1, <2>4, <3>1, <3>2
  <2> QED
    BY <2>2, <2>3, <2>4
<1>12. Open' = Open \ Replaced /\ Open \in SUBSET Slots /\ Replaced \in SUBSET Open
  BY <1>10, <1>11 DEF Open, Counted
<1>13. /\ Cardinality(Open') = Cardinality(Open) - Cardinality(Replaced)
       /\ Cardinality(Open) \in 0..NumSlots /\ Cardinality(Open') \in 0..NumSlots /\ Cardinality(Replaced) \in 0..NumSlots
  <2>1. Open \cap Replaced = Replaced /\ Open' \in SUBSET Slots /\ IsFiniteSet(Open)
    BY <1>12, SlotSets
  <2>2. Cardinality(Open \ Replaced) = Cardinality(Open) - Cardinality(Open \cap Replaced)
    BY <2>1, FS_Difference
  <2> QED
    BY <1>10, <1>12, <2>1, <2>2, SlotSets
<1>14. unsettled' = pending' + Cardinality(Open')
  BY <1>2, <1>8, <1>13, Sizes DEF Working, TypeOK
<1>15. TypeOK'
  <2>1. streams' \in [Slots -> Stream]
    BY <1>7, <1>11
  <2>2. unsettled' \in 0..(PendingLimit + NumSlots)
    BY <1>2, <1>8, <1>13, <1>14, Sizes DEF TypeOK
  <2> QED
    BY <1>2, <1>8, <2>1, <2>2 DEF TypeOK, Locations
<1>16. Placed(at, Me)'
  <2>1. Me' = w
    BY <1>2, <1>7, <1>8 DEF Me
  <2> QED
    BY <1>1, <1>6, <1>8, <2>1 DEF Placed, Forwarding
<1>17. \A s \in Slots : (Flow(streams[s]) /\ Socketed(streams[s]))'
  BY <1>8, <1>11 DEF Flow, Socketed
<1>18. \A s, t \in Slots : InAdmission(streams'[s]) /\ InAdmission(streams'[t]) => s = t
  BY <1>2, <1>11 DEF Working
<1>19. handshake_json' <=> \E s \in Slots : streams'[s].reader
  BY <1>8, <1>11
<1>20. Working'
  BY <1>14, <1>16, <1>17, <1>18, <1>19 DEF Working, InAdmission
<1>21. Ending' /\ Bounded'
  BY <1>1, <1>2, <1>8 DEF Ending, Bounded
<1> QED
  BY <1>15, <1>20, <1>21 DEF Inv

-----------------------------------------------------------------------------
(* Forwarding. *)

\* The local socket connects or fails.
LEMMA ConnectInv ==
    ASSUME Inv, ConnectWaits \/ ConnectEnds
    PROVE  Inv'
<1>1. ended = "no" /\ at = "connect"
  BY Busy DEF ConnectWaits, ConnectEnds
<1>2. Me \in Stream /\ Flow(Me) /\ Socketed(Me) /\ Placed(at, Me)
  BY <1>1, Under
<1>3. Me.phase = "CONNECTING" /\ role # Udp /\ Me.local # "none"
  BY <1>1, <1>2 DEF Placed, Socketed
<1>4. CASE Leaves(Me)
  BY <1>1, <1>4, MeFit, LeavesInv
<1>5. CASE Leaves([Me EXCEPT !.local = "draining", !.connect_left = 0])
  <2> DEFINE w == [Me EXCEPT !.local = "draining", !.connect_left = 0]
  <2>1. w \in Stream
    BY <1>1, <1>2, <1>3, Values DEF Stream, Phases
  <2>2. w.phase = Me.phase /\ w.local = "draining" /\ w.reader = Me.reader /\ Alike(Me, w)
    BY <1>1, <1>2, <1>3 DEF Stream, Alike
  <2>3. Leaves(w)
    BY <1>5
  <2> HIDE DEF w
  <2>4. Flow(w)
    BY <1>1, <1>2, <1>3, <2>2, FlowKept
  <2>5. Socketed(w)
    BY <1>1, <1>2, <1>3, <2>2 DEF Socketed
  <2>6. Same(w)
    BY <1>1, <1>2, <1>3, <2>2 DEF Same, Counted, InAdmission
  <2> QED
    BY <1>1, <2>1, <2>3, <2>4, <2>5, <2>6, LeavesInv DEF Fit
<1>6. CASE close_work([Me EXCEPT !.local = "closed", !.connect_left = 0], "FAILED")
  <2> DEFINE w == [Me EXCEPT !.local = "closed", !.connect_left = 0]
  <2>1. w \in Stream
    BY <1>2, Values DEF Stream
  <2>2. w.phase = Me.phase /\ Alike(Me, w)
    BY <1>2 DEF Stream, Alike
  <2>3. close_work(w, "FAILED")
    BY <1>6
  <2> HIDE DEF w
  <2>4. Flow(w)
    BY <1>2, <2>2, FlowKept
  <2> QED
    BY <1>1, <1>3, <2>1, <2>2, <2>3, <2>4, CloseInv
<1>7. CASE Goes([Me EXCEPT !.phase = "ACTIVE", !.local = "open", !.connect_left = 0], "timers")
  <2> DEFINE w == [Me EXCEPT !.phase = "ACTIVE", !.local = "open", !.connect_left = 0]
  <2>1. w \in Stream
    BY <1>1, <1>2, <1>3, Values DEF Stream, Phases
  <2>2. w.phase = "ACTIVE" /\ w.local = "open" /\ w.reader = Me.reader /\ Alike(Me, w)
    BY <1>1, <1>2, <1>3 DEF Stream, Alike
  <2>3. Goes(w, "timers")
    BY <1>7
  <2> HIDE DEF w
  <2>4. Flow(w)
    BY <1>1, <1>2, <1>3, <2>2, FlowKept
  <2>5. Socketed(w)
    BY <1>1, <1>2, <1>3, <2>2 DEF Socketed
  <2>6. Same(w)
    BY <1>1, <1>2, <1>3, <2>2 DEF Same, Counted, InAdmission
  <2>7. Placed("timers", w) /\ "timers" \in Locations
    BY <1>1, <1>2, <1>3, <2>2 DEF Placed, Locations, Forwarding
  <2> QED
    BY <1>1, <2>1, <2>3, <2>4, <2>5, <2>6, <2>7, GoesInv DEF Fit
<1> QED
  BY <1>4, <1>5, <1>6, <1>7 DEF ConnectWaits, ConnectEnds


\* The loop is at a stream that forwards.
LEMMA Active ==
    ASSUME Inv, at \in Forwarding
    PROVE  /\ ended = "no" /\ Me \in Stream /\ Flow(Me) /\ Socketed(Me)
           /\ Me.phase = "ACTIVE" /\ role # Udp /\ Me.local # "none"
<1>1. ended = "no"
  BY Busy DEF Forwarding
<1>2. Me \in Stream /\ Flow(Me) /\ Socketed(Me) /\ Placed(at, Me)
  BY <1>1, Under
<1> QED
  BY <1>1, <1>2 DEF Placed, Socketed

\* It goes on with a stream that forwards.
LEMMA ForwardInv ==
    ASSUME Inv, at \in Forwarding, NEW w \in Stream, Flow(w),
           w.phase = "ACTIVE", w.local # "none", w.reader = Me.reader
    PROVE  /\ \A next \in Forwarding : Goes(w, next) => Inv'
           /\ Leaves(w) => Inv'
           /\ \A reason : close_work(w, reason) /\ (reason = "OK" => w.local_fin /\ w.stream_fin) => Inv'
<1>1. /\ ended = "no" /\ Me \in Stream /\ Socketed(Me)
      /\ Me.phase = "ACTIVE" /\ role # Udp /\ Me.local # "none"
  BY Active
<1>2. Fit(w)
  BY <1>1 DEF Fit, Socketed
<1>3. Same(w)
  BY <1>1 DEF Same, Counted, InAdmission
<1>4. ASSUME NEW next \in Forwarding, Goes(w, next) PROVE Inv'
  <2>1. Placed(next, w) /\ next \in Locations
    BY <1>1 DEF Placed, Forwarding, Locations
  <2> QED
    BY <1>1, <1>2, <1>3, <1>4, <2>1, GoesInv
<1>5. ASSUME Leaves(w) PROVE Inv'
  BY <1>1, <1>2, <1>3, <1>5, LeavesInv
<1>6. ASSUME NEW reason, close_work(w, reason), reason = "OK" => w.local_fin /\ w.stream_fin PROVE Inv'
  BY <1>1, <1>6, CloseInv
<1> QED
  BY <1>4, <1>5, <1>6

\* A call of the socket that fails may have closed it.
LEMMA BrokenFit ==
    ASSUME Inv, at \in Forwarding, NEW w \in Broken(Me)
    PROVE  w \in Stream /\ Flow(w) /\ w.phase = "ACTIVE" /\ w.local # "none" /\ w.reader = Me.reader
<1>1. Me \in Stream /\ Flow(Me) /\ Me.phase = "ACTIVE" /\ Me.local # "none"
  BY Active
<1>2. PICK l \in {Me.local, "draining", "closed"} : w = [Me EXCEPT !.local = l]
  BY DEF Broken
<1>3. l \in {"none", "connecting", "open", "lingering", "draining", "closed"} /\ l # "none"
  BY <1>1, <1>2 DEF Stream
<1>4. w \in Stream
  BY <1>1, <1>2, <1>3 DEF Stream
<1>5. w.phase = Me.phase /\ w.local = l /\ w.reader = Me.reader /\ Alike(Me, w)
  BY <1>1, <1>2 DEF Stream, Alike
<1> QED
  BY <1>1, <1>3, <1>4, <1>5, FlowKept

\* What the loop does without moving a byte or an end.
LEMMA QuietInv ==
    ASSUME Inv,
           \/ Timers \/ ReadNothing \/ ReadFails \/ SendNothing \/ SendFails \/ NoFin \/ FinFails
           \/ RecvNothing \/ RecvFails \/ WriteNothing \/ WriteFails \/ StreamFinFails
    PROVE  Inv'
<1> USE DEF Forwarding
<1>1. at \in Forwarding
  BY DEF Timers, ReadNothing, ReadFails, ReadsStream, SendNothing, SendFails, NoFin, FinFails, FinDue,
         RecvNothing, RecvFails, ReadsLocal, WriteNothing, WriteFails, StreamFinFails
<1>2. Me \in Stream /\ Flow(Me) /\ Me.phase = "ACTIVE" /\ Me.local # "none"
  BY <1>1, Active
<1>3. ASSUME NEW next \in Forwarding, Goes(Me, next) PROVE Inv'
  BY <1>1, <1>2, <1>3, ForwardInv
<1>4. ASSUME NEW reason \in {"TIMEOUT", "FAILED"}, close_work(Me, reason) PROVE Inv'
  BY <1>1, <1>2, <1>4, ForwardInv
<1>5. ASSUME NEW w \in Broken(Me), Goes(w, "recv") \/ close_work(w, "FAILED") PROVE Inv'
  BY <1>1, <1>5, BrokenFit, ForwardInv
<1>6. CASE Timers
  BY <1>3, <1>4, <1>6 DEF Timers
<1>7. CASE ReadNothing \/ SendNothing \/ RecvNothing \/ WriteNothing
  BY <1>3, <1>7 DEF ReadNothing, SendNothing, RecvNothing, WriteNothing
<1>8. CASE ReadFails \/ WriteFails \/ StreamFinFails
  BY <1>4, <1>8 DEF ReadFails, WriteFails, StreamFinFails
<1>9. CASE SendFails \/ FinFails \/ RecvFails
  BY <1>5, <1>9 DEF SendFails, FinFails, RecvFails, Breaks
<1>10. CASE NoFin
  BY <1>3, <1>4, <1>5, <1>10 DEF NoFin
<1> QED
  BY <1>6, <1>7, <1>8, <1>9, <1>10

\* Numbered bytes, one by one.
LEMMA NumberedBytes ==
    ASSUME NEW S, NEW bytes \in Seq(S)
    PROVE  Numbered(bytes) <=> \A i \in 1..Len(bytes) : bytes[i] = i
<1>1. bytes = [i \in 1..Len(bytes) |-> bytes[i]]
  OBVIOUS
<1> QED
  BY <1>1 DEF Numbered

\* A part of what waits is written.
LEMMA PartWritten ==
    ASSUME NEW S, NEW got \in Seq(S), NEW waiting \in Seq(S), NEW read \in Nat,
           Numbered(got), Follows(got, waiting, read), NEW n \in Nat, n <= Len(waiting)
    PROVE  /\ got \o SubSeq(waiting, 1, n) \in Seq(S) /\ SubSeq(waiting, n + 1, Len(waiting)) \in Seq(S)
           /\ Numbered(got \o SubSeq(waiting, 1, n))
           /\ Follows(got \o SubSeq(waiting, 1, n), SubSeq(waiting, n + 1, Len(waiting)), read)
<1> DEFINE head == SubSeq(waiting, 1, n)
           tail == SubSeq(waiting, n + 1, Len(waiting))
           all == got \o head
<1>1. /\ Len(waiting) \in Nat /\ Len(got) \in Nat
      /\ head \in Seq(S) /\ Len(head) = n /\ \A i \in 1..n : head[i] = waiting[i]
  OBVIOUS
<1>2. /\ tail \in Seq(S) /\ Len(tail) = Len(waiting) - n
      /\ \A i \in 1..(Len(waiting) - n) : tail[i] = waiting[n + i]
  BY <1>1
<1> HIDE DEF head, tail
<1>3. /\ all \in Seq(S) /\ Len(all) = Len(got) + n
      /\ \A i \in 1..Len(all) : all[i] = IF i <= Len(got) THEN got[i] ELSE head[i - Len(got)]
  BY <1>1
<1> HIDE DEF all
<1>4. \A i \in 1..Len(got) : got[i] = i
  BY NumberedBytes
<1>5. read = Len(got) + Len(waiting) /\ \A i \in 1..Len(waiting) : waiting[i] = Len(got) + i
  BY DEF Follows
<1>6. ASSUME NEW i \in 1..Len(all) PROVE all[i] = i
  <2>1. CASE i <= Len(got)
    BY <1>1, <1>3, <1>4, <2>1
  <2>2. CASE i > Len(got)
    <3>1. i - Len(got) \in 1..n
      BY <1>1, <1>3, <2>2
    <3>2. head[i - Len(got)] = Len(got) + (i - Len(got))
      BY <1>1, <1>5, <3>1
    <3> QED
      BY <1>1, <1>3, <2>2, <3>2
  <2> QED
    BY <1>1, <2>1, <2>2
<1>7. Numbered(all)
  BY <1>3, <1>6, NumberedBytes
<1>8. ASSUME NEW i \in 1..Len(tail) PROVE tail[i] = Len(all) + i
  <2>1. n + i \in 1..Len(waiting) /\ tail[i] = waiting[n + i]
    BY <1>1, <1>2
  <2> QED
    BY <1>1, <1>3, <1>5, <2>1
<1>9. Follows(all, tail, read)
  BY <1>1, <1>2, <1>3, <1>5, <1>8 DEF Follows
<1> QED
  BY <1>2, <1>3, <1>7, <1>9 DEF head, tail, all

\* New bytes follow all that was read before when none of it waits.
LEMMA MoreRead ==
    ASSUME NEW limit \in Nat, NEW got \in Seq(1..limit), NEW read \in Nat, Follows(got, <<>>, read),
           NEW n \in Nat, read + n <= limit, NEW more, more = [i \in 1..n |-> read + i]
    PROVE  more \in Seq(1..limit) /\ Follows(got, more, read + n)
<1>1. Len(got) \in Nat /\ read = Len(got)
  BY DEF Follows
<1>2. more \in [1..n -> 1..limit] /\ \A i \in 1..n : more[i] = read + i
  OBVIOUS
<1>3. more \in Seq(1..limit) /\ Len(more) = n
  BY <1>2
<1> QED
  BY <1>1, <1>2, <1>3 DEF Follows

\* The stream ends when nothing of it waits.
LEMMA ReadEofInv ==
    ASSUME Inv, ReadEof
    PROVE  Inv'
<1>1. at \in Forwarding /\ Me.incoming = <<>> /\ ~Me.remote_eof
  BY DEF Forwarding, ReadEof, ReadsStream
<1>2. Me \in Stream /\ Flow(Me) /\ Me.phase = "ACTIVE" /\ Me.local # "none"
  BY <1>1, Active
<1> DEFINE w == [Me EXCEPT !.remote_eof = TRUE]
<1>3. w \in Stream
  BY <1>1, <1>2, Values DEF Stream
<1>4. /\ w.phase = "ACTIVE" /\ w.local = Me.local /\ w.reader = Me.reader
      /\ w.incoming = Me.incoming /\ w.taken = Me.taken /\ w.local_got = Me.local_got /\ w.outgoing = Me.outgoing
      /\ w.given = Me.given /\ w.stream_got = Me.stream_got /\ w.remote_eof = TRUE /\ w.local_fin = Me.local_fin
      /\ w.local_eof = Me.local_eof /\ w.stream_fin = Me.stream_fin
  BY <1>2 DEF Stream
<1>5. Goes(w, "send")
  BY DEF ReadEof, ReadsStream
<1> HIDE DEF w
<1>6. Flow(w)
  BY <1>1, <1>2, <1>4 DEF Flow, Delivered
<1> QED
  BY <1>1, <1>2, <1>3, <1>4, <1>5, <1>6, ForwardInv DEF Forwarding

\* The end of the stream is handed on after all of its bytes.
LEMMA LocalFinInv ==
    ASSUME Inv, LocalFin
    PROVE  Inv'
<1>1. at \in Forwarding /\ Me.remote_eof /\ ~Me.local_fin
  BY DEF Forwarding, LocalFin, FinDue
<1>2. Me \in Stream /\ Flow(Me) /\ Me.phase = "ACTIVE" /\ Me.local # "none"
  BY <1>1, Active
<1>2a. Me.incoming = <<>> /\ Follows(Me.local_got, Me.incoming, Me.taken) /\ Me.local_got \in Seq(1..StreamBytes)
  BY <1>1, <1>2 DEF Flow, Stream, InBytes
<1>2b. Me.taken = Len(Me.local_got)
  BY <1>2a DEF Follows
<1> DEFINE w == [Me EXCEPT !.local_fin = TRUE, !.fin_age = 0]
<1>3. w \in Stream
  BY <1>1, <1>2, Values DEF Stream
<1>4. /\ w.phase = "ACTIVE" /\ w.local = Me.local /\ w.reader = Me.reader
      /\ w.incoming = Me.incoming /\ w.taken = Me.taken /\ w.local_got = Me.local_got /\ w.outgoing = Me.outgoing
      /\ w.given = Me.given /\ w.stream_got = Me.stream_got /\ w.remote_eof = Me.remote_eof /\ w.local_fin = TRUE
      /\ w.local_eof = Me.local_eof /\ w.stream_fin = Me.stream_fin
  BY <1>2 DEF Stream
<1>5. Goes(w, "recv")
  BY DEF LocalFin, FinDue
<1> HIDE DEF w
<1>6. Flow(w)
  BY <1>1, <1>2, <1>2b, <1>4 DEF Flow, Delivered
<1> QED
  BY <1>1, <1>2, <1>3, <1>4, <1>5, <1>6, ForwardInv DEF Forwarding

\* The socket ends when nothing of it waits.
LEMMA RecvEofInv ==
    ASSUME Inv, RecvEof
    PROVE  Inv'
<1>1. at \in Forwarding /\ Me.outgoing = <<>> /\ ~Me.local_eof
  BY DEF Forwarding, RecvEof, ReadsLocal
<1>2. Me \in Stream /\ Flow(Me) /\ Me.phase = "ACTIVE" /\ Me.local # "none"
  BY <1>1, Active
<1> DEFINE w == [Me EXCEPT !.local_eof = TRUE]
<1>3. w \in Stream
  BY <1>1, <1>2, Values DEF Stream
<1>4. /\ w.phase = "ACTIVE" /\ w.local = Me.local /\ w.reader = Me.reader
      /\ w.incoming = Me.incoming /\ w.taken = Me.taken /\ w.local_got = Me.local_got /\ w.outgoing = Me.outgoing
      /\ w.given = Me.given /\ w.stream_got = Me.stream_got /\ w.remote_eof = Me.remote_eof /\ w.local_fin = Me.local_fin
      /\ w.local_eof = TRUE /\ w.stream_fin = Me.stream_fin
  BY <1>2 DEF Stream
<1>5. Goes(w, "write")
  BY DEF RecvEof, ReadsLocal
<1> HIDE DEF w
<1>6. Flow(w)
  BY <1>1, <1>2, <1>4 DEF Flow, Delivered
<1> QED
  BY <1>1, <1>2, <1>3, <1>4, <1>5, <1>6, ForwardInv DEF Forwarding

\* Bytes are read from the stream.
LEMMA ReadBytesInv ==
    ASSUME Inv, NEW n \in 1..StreamBytes, ReadBytes(n)
    PROVE  Inv'
<1>1. at \in Forwarding /\ Me.incoming = <<>> /\ ~Me.remote_eof /\ Me.taken + n <= StreamBytes
  BY DEF Forwarding, ReadBytes, ReadsStream
<1>2. Me \in Stream /\ Flow(Me) /\ Me.phase = "ACTIVE" /\ Me.local # "none"
  BY <1>1, Active
<1> DEFINE more == [i \in 1..n |-> Me.taken + i]
           more_taken == Me.taken + n
<1>2a. Me.local_got \in Seq(1..StreamBytes) /\ Me.taken \in Nat /\ Follows(Me.local_got, <<>>, Me.taken) /\ n \in Nat
  BY <1>1, <1>2, Sizes DEF Flow, Stream, InBytes, Taken
<1>2b. more \in InBytes /\ Follows(Me.local_got, more, more_taken) /\ more_taken \in Taken
  <2> DEFINE read == Me.taken
             got == Me.local_got
  <2>1. PICK x : x = [i \in 1..n |-> read + i]
    OBVIOUS
  <2>2. x = more
    BY <2>1
  <2>3. got \in Seq(1..StreamBytes) /\ read \in Nat /\ Follows(got, <<>>, read) /\ read + n <= StreamBytes
    BY <1>1, <1>2a
  <2> HIDE DEF more, read, got
  <2>4. x \in Seq(1..StreamBytes) /\ Follows(got, x, read + n)
    BY <1>2a, <2>1, <2>3, MoreRead, Sizes
  <2>5. read + n \in Taken
    BY <1>2a, <2>3, Sizes DEF Taken
  <2> QED
    BY <2>2, <2>4, <2>5 DEF InBytes, read, got
<1>2c. Goes([Me EXCEPT !.incoming = more, !.taken = more_taken], "send")
  BY <1>2 DEF ReadBytes, Stream
<1> HIDE DEF more, more_taken
<1> DEFINE w == [Me EXCEPT !.incoming = more, !.taken = more_taken]
<1>3. w \in Stream
  BY <1>1, <1>2, Values, <1>2b DEF Stream
<1>4. /\ w.phase = "ACTIVE" /\ w.local = Me.local /\ w.reader = Me.reader
      /\ w.incoming = more /\ w.taken = more_taken /\ w.local_got = Me.local_got /\ w.outgoing = Me.outgoing
      /\ w.given = Me.given /\ w.stream_got = Me.stream_got /\ w.remote_eof = Me.remote_eof /\ w.local_fin = Me.local_fin
      /\ w.local_eof = Me.local_eof /\ w.stream_fin = Me.stream_fin
  BY <1>2 DEF Stream
<1>5. Goes(w, "send")
  BY <1>2c
<1> HIDE DEF w
<1>6. Flow(w)
  <2>1. ~Me.local_fin
    BY <1>1, <1>2 DEF Flow, Delivered
  <2> QED
    BY <1>1, <1>2, <1>2b, <1>4, <2>1 DEF Flow, Delivered
<1> QED
  BY <1>1, <1>2, <1>3, <1>4, <1>5, <1>6, ForwardInv DEF Forwarding

\* Bytes are read from the socket.
LEMMA RecvBytesInv ==
    ASSUME Inv, NEW n \in 1..LocalBytes, RecvBytes(n)
    PROVE  Inv'
<1>1. at \in Forwarding /\ Me.outgoing = <<>> /\ ~Me.local_eof /\ Me.given + n <= LocalBytes
  BY DEF Forwarding, RecvBytes, ReadsLocal
<1>2. Me \in Stream /\ Flow(Me) /\ Me.phase = "ACTIVE" /\ Me.local # "none"
  BY <1>1, Active
<1> DEFINE more == [i \in 1..n |-> Me.given + i]
           more_given == Me.given + n
<1>2a. Me.stream_got \in Seq(1..LocalBytes) /\ Me.given \in Nat /\ Follows(Me.stream_got, <<>>, Me.given) /\ n \in Nat
  BY <1>1, <1>2, Sizes DEF Flow, Stream, OutBytes, Given
<1>2b. more \in OutBytes /\ Follows(Me.stream_got, more, more_given) /\ more_given \in Given
  <2> DEFINE read == Me.given
             got == Me.stream_got
  <2>1. PICK x : x = [i \in 1..n |-> read + i]
    OBVIOUS
  <2>2. x = more
    BY <2>1
  <2>3. got \in Seq(1..LocalBytes) /\ read \in Nat /\ Follows(got, <<>>, read) /\ read + n <= LocalBytes
    BY <1>1, <1>2a
  <2> HIDE DEF more, read, got
  <2>4. x \in Seq(1..LocalBytes) /\ Follows(got, x, read + n)
    BY <1>2a, <2>1, <2>3, MoreRead, Sizes
  <2>5. read + n \in Given
    BY <1>2a, <2>3, Sizes DEF Given
  <2> QED
    BY <2>2, <2>4, <2>5 DEF OutBytes, read, got
<1>2c. Goes([Me EXCEPT !.outgoing = more, !.given = more_given, !.idle = 0], "write")
  BY <1>2 DEF RecvBytes, Stream
<1> HIDE DEF more, more_given
<1> DEFINE w == [Me EXCEPT !.outgoing = more, !.given = more_given, !.idle = 0]
<1>3. w \in Stream
  BY <1>1, <1>2, Values, <1>2b DEF Stream
<1>4. /\ w.phase = "ACTIVE" /\ w.local = Me.local /\ w.reader = Me.reader
      /\ w.incoming = Me.incoming /\ w.taken = Me.taken /\ w.local_got = Me.local_got /\ w.outgoing = more
      /\ w.given = more_given /\ w.stream_got = Me.stream_got /\ w.remote_eof = Me.remote_eof /\ w.local_fin = Me.local_fin
      /\ w.local_eof = Me.local_eof /\ w.stream_fin = Me.stream_fin
  BY <1>2 DEF Stream
<1>5. Goes(w, "write")
  BY <1>2c
<1> HIDE DEF w
<1>6. Flow(w)
  <2>1. ~Me.stream_fin
    BY <1>1, <1>2 DEF Flow, Delivered
  <2> QED
    BY <1>1, <1>2, <1>2b, <1>4, <2>1 DEF Flow, Delivered
<1> QED
  BY <1>1, <1>2, <1>3, <1>4, <1>5, <1>6, ForwardInv DEF Forwarding

\* Bytes of the stream are written to the socket.
LEMMA SendBytesInv ==
    ASSUME Inv, NEW n \in 1..StreamBytes, SendBytes(n)
    PROVE  Inv'
<1>1. at \in Forwarding /\ n <= Len(Me.incoming)
  BY DEF Forwarding, SendBytes
<1>2. Me \in Stream /\ Flow(Me) /\ Me.phase = "ACTIVE" /\ Me.local # "none"
  BY <1>1, Active
<1> DEFINE all == Me.local_got \o SubSeq(Me.incoming, 1, n)
           rest == SubSeq(Me.incoming, n + 1, Len(Me.incoming))
<1>2a. /\ Me.local_got \in Seq(1..StreamBytes) /\ Me.incoming \in Seq(1..StreamBytes) /\ Me.taken \in Nat /\ n \in Nat
       /\ Numbered(Me.local_got) /\ Follows(Me.local_got, Me.incoming, Me.taken)
  BY <1>1, <1>2, Sizes DEF Flow, Delivered, Stream, InBytes, Taken
<1>2b. all \in InBytes /\ rest \in InBytes /\ Numbered(all) /\ Follows(all, rest, Me.taken)
  BY <1>1, <1>2a, PartWritten DEF InBytes
<1>2c. Goes([Me EXCEPT !.local_got = all, !.incoming = rest, !.in_age = 0, !.idle = 0], "fin")
  BY <1>2 DEF SendBytes, Stream
<1>2d. ~Me.remote_eof
  BY <1>1, <1>2, Sizes DEF Flow
<1> HIDE DEF all, rest
<1> DEFINE w == [Me EXCEPT !.local_got = all, !.incoming = rest, !.in_age = 0, !.idle = 0]
<1>3. w \in Stream
  BY <1>1, <1>2, Values, <1>2b DEF Stream
<1>4. /\ w.phase = "ACTIVE" /\ w.local = Me.local /\ w.reader = Me.reader
      /\ w.incoming = rest /\ w.taken = Me.taken /\ w.local_got = all /\ w.outgoing = Me.outgoing
      /\ w.given = Me.given /\ w.stream_got = Me.stream_got /\ w.remote_eof = Me.remote_eof /\ w.local_fin = Me.local_fin
      /\ w.local_eof = Me.local_eof /\ w.stream_fin = Me.stream_fin
  BY <1>2 DEF Stream
<1>5. Goes(w, "fin")
  BY <1>2c
<1> HIDE DEF w
<1>6. Flow(w)
  <2>1. ~Me.local_fin
    BY <1>2, <1>2d DEF Flow, Delivered
  <2> QED
    BY <1>1, <1>2, <1>2b, <1>2d, <1>4, <2>1 DEF Flow, Delivered
<1> QED
  BY <1>1, <1>2, <1>3, <1>4, <1>5, <1>6, ForwardInv DEF Forwarding

\* Bytes of the socket are written to the stream.
LEMMA WriteBytesInv ==
    ASSUME Inv, NEW n \in 1..LocalBytes, WriteBytes(n)
    PROVE  Inv'
<1>1. at \in Forwarding /\ n <= Len(Me.outgoing)
  BY DEF Forwarding, WriteBytes
<1>2. Me \in Stream /\ Flow(Me) /\ Me.phase = "ACTIVE" /\ Me.local # "none"
  BY <1>1, Active
<1> DEFINE all == Me.stream_got \o SubSeq(Me.outgoing, 1, n)
           rest == SubSeq(Me.outgoing, n + 1, Len(Me.outgoing))
<1>2a. /\ Me.stream_got \in Seq(1..LocalBytes) /\ Me.outgoing \in Seq(1..LocalBytes) /\ Me.given \in Nat /\ n \in Nat
       /\ Numbered(Me.stream_got) /\ Follows(Me.stream_got, Me.outgoing, Me.given)
  BY <1>1, <1>2, Sizes DEF Flow, Delivered, Stream, OutBytes, Given
<1>2b. all \in OutBytes /\ rest \in OutBytes /\ Numbered(all) /\ Follows(all, rest, Me.given)
  BY <1>1, <1>2a, PartWritten DEF OutBytes
<1>2c. Goes([Me EXCEPT !.stream_got = all, !.outgoing = rest, !.out_age = 0, !.idle = 0], "close")
  BY <1>2 DEF WriteBytes, Stream
<1>2d. ~Me.local_eof
  BY <1>1, <1>2, Sizes DEF Flow
<1> HIDE DEF all, rest
<1> DEFINE w == [Me EXCEPT !.stream_got = all, !.outgoing = rest, !.out_age = 0, !.idle = 0]
<1>3. w \in Stream
  BY <1>1, <1>2, Values, <1>2b DEF Stream
<1>4. /\ w.phase = "ACTIVE" /\ w.local = Me.local /\ w.reader = Me.reader
      /\ w.incoming = Me.incoming /\ w.taken = Me.taken /\ w.local_got = Me.local_got /\ w.outgoing = rest
      /\ w.given = Me.given /\ w.stream_got = all /\ w.remote_eof = Me.remote_eof /\ w.local_fin = Me.local_fin
      /\ w.local_eof = Me.local_eof /\ w.stream_fin = Me.stream_fin
  BY <1>2 DEF Stream
<1>5. Goes(w, "close")
  BY <1>2c
<1> HIDE DEF w
<1>6. Flow(w)
  <2>1. ~Me.stream_fin
    BY <1>2, <1>2d DEF Flow, Delivered
  <2> QED
    BY <1>1, <1>2, <1>2b, <1>2d, <1>4, <2>1 DEF Flow, Delivered
<1> QED
  BY <1>1, <1>2, <1>3, <1>4, <1>5, <1>6, ForwardInv DEF Forwarding

\* The pass ends: the end of the socket may have been handed on, and the stream is closed
\* when both ends have.
LEMMA PassEndsInv ==
    ASSUME Inv, PassEnds
    PROVE  Inv'
<1>1. at \in Forwarding
  BY DEF PassEnds, Forwarding
<1>2. Me \in Stream /\ Flow(Me) /\ Me.phase = "ACTIVE" /\ Me.local # "none"
  BY <1>1, Active
<1>3. PICK w \in IF Me.local_eof /\ ~Me.stream_fin THEN {Me, StreamFin(Me)} ELSE {Me} :
          IF Done(w) THEN close_work(w, "OK") ELSE Leaves(w)
  BY DEF PassEnds
<1>4. w \in Stream /\ Flow(w) /\ w.phase = "ACTIVE" /\ w.local # "none" /\ w.reader = Me.reader
  <2>1. CASE w = Me
    BY <1>2, <2>1
  <2>2. CASE w # Me
    <3>1. Me.local_eof /\ w = [Me EXCEPT !.stream_fin = TRUE]
      BY <1>3, <2>2 DEF StreamFin
    <3>2. w \in Stream
      BY <1>2, <3>1 DEF Stream
    <3>3. /\ w.phase = "ACTIVE" /\ w.local = Me.local /\ w.reader = Me.reader
          /\ w.incoming = Me.incoming /\ w.taken = Me.taken /\ w.local_got = Me.local_got /\ w.outgoing = Me.outgoing
          /\ w.given = Me.given /\ w.stream_got = Me.stream_got /\ w.remote_eof = Me.remote_eof /\ w.local_fin = Me.local_fin
          /\ w.local_eof = Me.local_eof /\ w.stream_fin = TRUE
      BY <1>2, <3>1 DEF Stream
    <3>4. Me.outgoing = <<>> /\ Follows(Me.stream_got, Me.outgoing, Me.given) /\ Me.stream_got \in Seq(1..LocalBytes)
      BY <1>2, <3>1 DEF Flow, Stream, OutBytes
    <3>5. Me.given = Len(Me.stream_got)
      BY <3>4 DEF Follows
    <3>6. Flow(w)
      BY <1>2, <3>1, <3>3, <3>5 DEF Flow, Delivered
    <3> QED
      BY <1>2, <3>2, <3>3, <3>6
  <2> QED
    BY <2>1, <2>2
<1>5. CASE Done(w)
  BY <1>1, <1>3, <1>4, <1>5, ForwardInv DEF Done
<1>6. CASE ~Done(w)
  BY <1>1, <1>3, <1>4, <1>6, ForwardInv
<1> QED
  BY <1>5, <1>6

-----------------------------------------------------------------------------
(* Cleanup. *)

\* The stream is released, or waits, or cannot be.
LEMMA ReleaseInv ==
    ASSUME Inv, StreamReleased \/ StreamWaits \/ ReleaseFails
    PROVE  Inv'
<1>1. ended = "no" /\ at = "cleanup"
  BY Busy DEF StreamReleased, StreamWaits, ReleaseFails, Resetting
<1>2. Me \in Stream /\ Flow(Me) /\ Socketed(Me) /\ Placed(at, Me)
  BY <1>1, Under
<1>3. Me.phase = "CLOSING"
  BY <1>1, <1>2 DEF Placed
<1>4. ASSUME NEW stream \in {"none", "open", "reset"}, Goes([Me EXCEPT !.stream = stream], "local")
      PROVE  Inv'
  <2> DEFINE w == [Me EXCEPT !.stream = stream]
  <2>1. w \in Stream
    BY <1>2 DEF Stream
  <2>2. w.phase = Me.phase /\ w.local = Me.local /\ w.reader = Me.reader /\ Alike(Me, w)
    BY <1>2 DEF Stream, Alike
  <2>3. Goes(w, "local")
    BY <1>4
  <2> HIDE DEF w
  <2>4. Flow(w) /\ Socketed(w)
    BY <1>2, <2>2, FlowKept DEF Socketed
  <2>5. Same(w)
    BY <1>3, <2>2 DEF Same, Counted, InAdmission, Alike
  <2>6. Placed("local", w) /\ "local" \in Locations
    BY <1>3, <2>2 DEF Placed, Locations, Forwarding
  <2> QED
    BY <1>1, <2>1, <2>3, <2>4, <2>5, <2>6, GoesInv DEF Fit
<1>5. CASE StreamReleased
  BY <1>4, <1>5 DEF StreamReleased
<1>6. CASE StreamWaits
  <2>1. Me.stream \in {"none", "open", "reset"}
    BY <1>2 DEF Stream
  <2> QED
    BY <1>4, <1>6, <2>1 DEF StreamWaits
<1>7. CASE ReleaseFails
  BY <1>7, CancelInv DEF ReleaseFails
<1> QED
  BY <1>5, <1>6, <1>7

\* The socket of a stream that has ended lingers, drains or is gone.
LEMMA LocalInv ==
    ASSUME Inv, LocalLingers \/ LocalGone \/ LocalDrains
    PROVE  Inv'
<1>1. ended = "no" /\ at = "local"
  BY Busy DEF LocalLingers, LocalGone, LocalDrains, Finishes
<1>2. Me \in Stream /\ Flow(Me) /\ Socketed(Me) /\ Placed(at, Me)
  BY <1>1, Under
<1>3. Me.phase = "CLOSING"
  BY <1>1, <1>2 DEF Placed
<1>4. CASE Me.local # "none" /\ Leaves([Me EXCEPT !.local = "lingering"])
  <2> DEFINE w == [Me EXCEPT !.local = "lingering"]
  <2>1. w \in Stream
    BY <1>1, <1>2, <1>3, Values DEF Stream, Phases
  <2>2. w.phase = Me.phase /\ w.local = "lingering" /\ w.reader = Me.reader /\ Alike(Me, w)
    BY <1>1, <1>2, <1>3 DEF Stream, Alike
  <2>3. Leaves(w)
    BY <1>4
  <2> HIDE DEF w
  <2>4. Flow(w)
    BY <1>1, <1>2, <1>3, <2>2, FlowKept
  <2>5. Socketed(w)
    BY <1>1, <1>2, <1>3, <2>2 DEF Socketed
  <2>6. Same(w)
    BY <1>1, <1>2, <1>3, <2>2, <1>4 DEF Same, Counted, InAdmission, Alike
  <2> QED
    BY <1>1, <2>1, <2>3, <2>4, <2>5, <2>6, LeavesInv DEF Fit
<1>5. CASE Goes([Me EXCEPT !.local = "none"], "free")
  <2> DEFINE w == [Me EXCEPT !.local = "none"]
  <2>1. w \in Stream
    BY <1>1, <1>2, <1>3, Values DEF Stream, Phases
  <2>2. w.phase = Me.phase /\ w.local = "none" /\ w.reader = Me.reader /\ Alike(Me, w)
    BY <1>1, <1>2, <1>3 DEF Stream, Alike
  <2>3. Goes(w, "free")
    BY <1>5
  <2> HIDE DEF w
  <2>4. Flow(w)
    BY <1>1, <1>2, <1>3, <2>2, FlowKept
  <2>5. Socketed(w)
    BY <1>1, <1>2, <1>3, <2>2 DEF Socketed
  <2>6. Same(w)
    BY <1>1, <1>2, <1>3, <2>2 DEF Same, Counted, InAdmission, Alike
  <2>7. Placed("free", w) /\ "free" \in Locations
    BY <1>1, <1>2, <1>3, <2>2 DEF Placed, Locations, Forwarding
  <2> QED
    BY <1>1, <2>1, <2>3, <2>4, <2>5, <2>6, <2>7, GoesInv DEF Fit
<1>6. CASE Me.local # "none" /\ Leaves([Me EXCEPT !.local = "draining"])
  <2> DEFINE w == [Me EXCEPT !.local = "draining"]
  <2>1. w \in Stream
    BY <1>1, <1>2, <1>3, Values DEF Stream, Phases
  <2>2. w.phase = Me.phase /\ w.local = "draining" /\ w.reader = Me.reader /\ Alike(Me, w)
    BY <1>1, <1>2, <1>3 DEF Stream, Alike
  <2>3. Leaves(w)
    BY <1>6
  <2> HIDE DEF w
  <2>4. Flow(w)
    BY <1>1, <1>2, <1>3, <2>2, FlowKept
  <2>5. Socketed(w)
    BY <1>1, <1>2, <1>3, <2>2 DEF Socketed
  <2>6. Same(w)
    BY <1>1, <1>2, <1>3, <2>2, <1>6 DEF Same, Counted, InAdmission, Alike
  <2> QED
    BY <1>1, <2>1, <2>3, <2>4, <2>5, <2>6, LeavesInv DEF Fit
<1> QED
  BY <1>4, <1>5, <1>6 DEF LocalLingers, LocalGone, LocalDrains, Finishes

\* A stream that could not be finished has failed, which settles it.
LEMMA FinishFailsInv ==
    ASSUME Inv, FinishFails
    PROVE  Inv'
<1>1. ended = "no" /\ at = "local" /\ Me.local # "none" /\ Me.result = "OK"
  BY Busy DEF FinishFails, Finishes
<1>2. Me \in Stream /\ Flow(Me) /\ Socketed(Me) /\ Placed(at, Me) /\ TypeOK /\ slot \in Slots /\ handshake_json \in BOOLEAN
  BY <1>1, Under DEF Inv
<1>3. Me.phase = "CLOSING"
  BY <1>1, <1>2 DEF Placed
<1>4. PICK local \in {"none", "draining"}, next \in {"free", "slot"} : Fails(local, next)
  BY DEF FinishFails
<1> DEFINE h == Halves(Me, FALSE)
<1>5. /\ h \in Stream /\ h.phase = Me.phase /\ h.reader = Me.reader /\ h.incoming = Me.incoming /\ h.outgoing = Me.outgoing
      /\ h.taken = Me.taken /\ h.given = Me.given /\ h.local_got = Me.local_got /\ h.stream_got = Me.stream_got
      /\ h.remote_eof = FALSE /\ h.local_fin = FALSE /\ h.local_eof = FALSE /\ h.stream_fin = FALSE
  BY <1>2, HalvesType
<1>6. Put([h EXCEPT !.result = "FAILED", !.local = local, !.left = 0])
  BY <1>4 DEF Fails
<1> HIDE DEF h
<1> DEFINE w == [h EXCEPT !.result = "FAILED", !.local = local, !.left = 0]
<1>7. w \in Stream
  BY <1>5, Values DEF Stream
<1>8. /\ w.phase = h.phase /\ w.reader = h.reader /\ w.result = "FAILED" /\ w.incoming = h.incoming /\ w.outgoing = h.outgoing
      /\ w.taken = h.taken /\ w.given = h.given /\ w.local_got = h.local_got /\ w.stream_got = h.stream_got
      /\ w.remote_eof = h.remote_eof /\ w.local_fin = h.local_fin /\ w.local_eof = h.local_eof /\ w.stream_fin = h.stream_fin
  BY <1>5 DEF Stream
<1>9. Put(w)
  BY <1>6
<1> HIDE DEF w
<1>10. Flow(w)
  BY <1>2, <1>3, <1>5, <1>8 DEF Flow, Delivered
<1>11. Socketed(w)
  BY <1>2, <1>3, <1>5, <1>8 DEF Socketed
<1>12. /\ unsettled' = unsettled - 1 /\ handshake_json' = handshake_json
       /\ UNCHANGED <<role, pending, listenerVars, endVars>>
  BY <1>4 DEF Fails
<1>13. /\ at' \in {"free", "slot", "idle"} /\ slot' \in Slots /\ visited' \in Slots /\ cursor' \in Slots
       /\ at' = "free" => slot' = slot
  <2>1. CASE next = "free"
    BY <1>2, <1>4, <2>1 DEF Fails, TypeOK
  <2>2. CASE next = "slot"
    <3>1. NextSlot
      BY <1>4, <2>2 DEF Fails
    <3> QED
      BY <1>2, <3>1, NextSlotType
  <2> QED
    BY <2>1, <2>2
<1>14. Placed(at, Me)' /\ at' \in Locations
  <2>1. CASE at' = "free"
    <3>1. Me' = w
      BY <1>2, <1>9, <1>13, <2>1 DEF Put, Me, TypeOK
    <3> QED
      BY <1>3, <1>5, <1>8, <2>1, <3>1 DEF Placed, Forwarding, Locations
  <2>2. CASE at' # "free"
    BY <1>13, <2>2 DEF Placed, Forwarding, Locations
  <2> QED
    BY <2>1, <2>2
<1>15. unsettled' = unsettled + Weight(w) - Weight(Me)
  BY <1>1, <1>2, <1>3, <1>5, <1>8, <1>12 DEF Weight, Counted, TypeOK
<1>16. ~InAdmission(w) /\ ~InAdmission(Me)
  BY <1>3, <1>5, <1>8 DEF InAdmission
<1>17. handshake_json' \in BOOLEAN /\ (handshake_json' <=> (IF InAdmission(Me) THEN w.reader ELSE handshake_json))
  BY <1>2, <1>12, <1>16
<1> QED
  BY <1>1, <1>7, <1>9, <1>10, <1>11, <1>12, <1>13, <1>14, <1>15, <1>16, <1>17, SlotStep

\* A slot is kept while its UDP sockets or its stream are.
LEMMA KeepsInv ==
    ASSUME Inv, UdpDrains \/ KeepsSlot
    PROVE  Inv'
<1>1. ended = "no" /\ at = "free"
  BY Busy DEF UdpDrains, KeepsSlot
<1>2. Me \in Stream /\ Flow(Me) /\ Socketed(Me) /\ Placed(at, Me)
  BY <1>1, Under
<1>3. Me.phase = "CLOSING"
  BY <1>1, <1>2 DEF Placed
<1>4. CASE Leaves(Me)
  BY <1>1, <1>4, MeFit, LeavesInv
<1>5. CASE Leaves([Me EXCEPT !.udp = FALSE])
  <2> DEFINE w == [Me EXCEPT !.udp = FALSE]
  <2>1. w \in Stream
    BY <1>1, <1>2, <1>3, Values DEF Stream, Phases
  <2>2. w.phase = Me.phase /\ w.local = Me.local /\ w.reader = Me.reader /\ Alike(Me, w)
    BY <1>1, <1>2, <1>3 DEF Stream, Alike
  <2>3. Leaves(w)
    BY <1>5
  <2> HIDE DEF w
  <2>4. Flow(w)
    BY <1>1, <1>2, <1>3, <2>2, FlowKept
  <2>5. Socketed(w)
    BY <1>1, <1>2, <1>3, <2>2 DEF Socketed
  <2>6. Same(w)
    BY <1>1, <1>2, <1>3, <2>2 DEF Same, Counted, InAdmission, Alike
  <2> QED
    BY <1>1, <2>1, <2>3, <2>4, <2>5, <2>6, LeavesInv DEF Fit
<1> QED
  BY <1>4, <1>5 DEF UdpDrains, KeepsSlot

\* A free slot is sound.
LEMMA EmptyFit == Fit(Empty) /\ ~Counted(Empty) /\ Empty.local = "none" /\ ~InAdmission(Empty) /\ ~Empty.reader
<1>1. /\ Empty.phase = "none" /\ Empty.local = "none" /\ Empty.reader = FALSE
      /\ Empty.incoming = <<>> /\ Empty.outgoing = <<>> /\ Empty.local_got = <<>> /\ Empty.stream_got = <<>>
      /\ Empty.taken = 0 /\ Empty.given = 0 /\ Empty.remote_eof = FALSE /\ Empty.local_fin = FALSE
      /\ Empty.local_eof = FALSE /\ Empty.stream_fin = FALSE
  BY DEF Empty
<1>2. Numbered(<<>>) /\ Follows(<<>>, <<>>, 0)
  BY DEF Numbered, Follows
<1>3. Flow(Empty)
  BY <1>1, <1>2 DEF Flow, Delivered, Unread
<1>4. Socketed(Empty) /\ ~Counted(Empty) /\ ~InAdmission(Empty)
  BY <1>1 DEF Socketed, Counted, InAdmission
<1> QED
  BY <1>1, <1>3, <1>4, EmptyType DEF Fit

\* A slot is freed; a stream that ended well is settled now.
LEMMA FreesInv ==
    ASSUME Inv, Frees
    PROVE  Inv'
<1>1. ended = "no" /\ at = "free"
  BY Busy DEF Frees
<1>2. Me \in Stream /\ Placed(at, Me) /\ TypeOK /\ slot \in Slots /\ handshake_json \in BOOLEAN
  BY <1>1, Under DEF Inv
<1>3. Me.phase = "CLOSING" /\ Me.result \in {"OK", "FAILED"}
  BY <1>1, <1>2 DEF Placed, Stream
<1>4. /\ Put(Empty) /\ NextSlot /\ unsettled' = unsettled - (IF Me.result = "OK" THEN 1 ELSE 0)
      /\ handshake_json' = handshake_json /\ UNCHANGED <<role, pending, listenerVars, endVars>>
  BY DEF Frees
<1>5. at' \in {"slot", "idle"} /\ slot' \in Slots /\ visited' \in Slots /\ cursor' \in Slots
  BY <1>2, <1>4, NextSlotType
<1>6. Placed(at, Me)' /\ at' \in Locations
  BY <1>5 DEF Placed, Forwarding, Locations
<1>7. unsettled' = unsettled + Weight(Empty) - Weight(Me)
  BY <1>2, <1>3, <1>4, EmptyFit DEF Weight, Counted, TypeOK
<1>8. ~InAdmission(Me)
  BY <1>3 DEF InAdmission
<1>9. handshake_json' \in BOOLEAN /\ (handshake_json' <=> (IF InAdmission(Me) THEN Empty.reader ELSE handshake_json))
  BY <1>2, <1>4, <1>8
<1>10. Empty \in Stream /\ Flow(Empty) /\ Socketed(Empty) /\ Empty.local = "none" /\ ~InAdmission(Empty)
  BY EmptyFit DEF Fit
<1> QED
  BY <1>1, <1>4, <1>5, <1>6, <1>7, <1>9, <1>10, SlotStep

-----------------------------------------------------------------------------
(* Admission, and what happens between two steps. *)

\* There is a first free slot when there is a free one.
LEMMA FreeSlot ==
    ASSUME TypeOK, In({"none"}) # {}
    PROVE  FirstFree \in Slots /\ streams[FirstFree].phase = "none"
<1> DEFINE free == In({"none"})
<1>1. free \subseteq Nat /\ free # {} /\ \A s \in free : s \in Slots /\ streams[s].phase = "none"
  BY Sizes DEF In, Slots
<1>2. FirstFree = CHOOSE s \in free : \A t \in free : s <= t
  BY DEF FirstFree
<1> HIDE DEF free
<1>3. PICK i \in free : \A j \in free : ~(<<j, i>> \in OpToRel(<, Nat))
  <2>1. \E i \in free : \A j \in free : ~(<<j, i>> \in OpToRel(<, Nat))
    BY <1>1, NatLessThanWellFounded, WFMin
  <2> QED
    BY <2>1
<1>4. \A j \in free : i <= j
  <2> TAKE j \in free
  <2>1. i \in Nat /\ j \in Nat
    BY <1>1
  <2>2. <<j, i>> \in Nat \X Nat /\ <<j, i>>[1] = j /\ <<j, i>>[2] = i
    BY <2>1
  <2>3. j < i => <<j, i>> \in OpToRel(<, Nat)
    BY <2>2 DEF OpToRel
  <2>4. ~(j < i)
    BY <1>3, <2>3
  <2> QED
    BY <2>1, <2>4
<1>5. FirstFree \in free
  BY <1>2, <1>4
<1> QED
  BY <1>1, <1>5

\* A free slot has no socket, so there are at most as many sockets as slots in use.
LEMMA LocalsOccupied ==
    ASSUME TypeOK, Working
    PROVE  /\ Cardinality(Locals) \in Nat /\ Cardinality(Occupied) \in Nat
           /\ Cardinality(Locals) <= Cardinality(Occupied)
<1>1. Occupied \in SUBSET Slots
  BY DEF Occupied
<1>2. Locals \in SUBSET Occupied
  BY DEF Locals, Occupied, In, Working, Socketed
<1> QED
  BY <1>1, <1>2, SlotSets, FS_Subset, FS_CardinalityType

\* A stream changes while the loop is not at it: the request that it settles or that it is
\* admitted for is accounted for, and a new socket is within the limit.
LEMMA OtherStep ==
    ASSUME Inv, ended = "no", NEW s \in Slots, NEW w, Fit(w), streams' = [streams EXCEPT ![s] = w],
           role' = role, listener' = listener, ended' = ended, drained' = drained, handshake_json' = handshake_json,
           at' \in {"idle", "slot"}, slot' \in Slots, visited' \in Slots, cursor' \in Slots,
           pending' \in 0..PendingLimit,
           unsettled' = unsettled + pending' - pending + Weight(w) - Weight(streams[s]),
           InAdmission(w) => InAdmission(streams[s]) \/ Admitting = {},
           w.reader = streams[s].reader,
           accepted' \in BOOLEAN, accepted' => role = Visitor,
           Held' <= Held \/ Cardinality(Occupied) + Held' <= SocketLimit,
           w.local # "none" => streams[s].local # "none" \/ Cardinality(Occupied) + Held' < SocketLimit
    PROVE  Inv'
<1>1. Working /\ TypeOK /\ Ending /\ Bounded /\ ~drained
  BY DEF Inv, Ending
<1>2. w \in Stream /\ Flow(w) /\ Socketed(w)
  BY DEF Fit
<1>3. streams' \in [Slots -> Stream] /\ \A t \in Slots : streams'[t] = IF t = s THEN w ELSE streams[t]
  BY <1>1, <1>2 DEF TypeOK
<1>4. /\ Cardinality(Open) \in 0..NumSlots /\ Cardinality(Open') \in 0..NumSlots
      /\ Cardinality(Open') = Cardinality(Open) + Weight(w) - Weight(streams[s])
      /\ Weight(w) \in {0, 1} /\ Weight(streams[s]) \in {0, 1}
  <2>1. Open \in SUBSET Slots /\ Open' \in SUBSET Slots
    BY DEF Open
  <2> QED
    BY <1>1, <2>1, SlotSets, OpenStep DEF Weight
<1>5. unsettled' = pending' + Cardinality(Open')
  BY <1>1, <1>4, Sizes DEF Working, TypeOK
<1>6. TypeOK'
  <2>1. unsettled' \in 0..(PendingLimit + NumSlots)
    BY <1>4, <1>5, Sizes
  <2> QED
    BY <1>1, <1>3, <2>1 DEF TypeOK, Locations
<1>7. \A t \in Slots : Flow(streams'[t]) /\ Socketed(streams'[t])
  BY <1>1, <1>2, <1>3 DEF Working
<1>8. \A t \in Slots : (Flow(streams[t]) /\ Socketed(streams[t]))'
  BY <1>7 DEF Flow, Socketed
<1>9. \A x, t \in Slots : InAdmission(streams'[x]) /\ InAdmission(streams'[t]) => x = t
  <2>1. Admitting = {} => \A t \in Slots : ~InAdmission(streams[t])
    BY DEF Admitting, In, InAdmission
  <2> QED
    BY <1>1, <1>3, <2>1 DEF Working
<1>10. handshake_json' <=> \E t \in Slots : streams'[t].reader
  BY <1>1, <1>3 DEF Working
<1>11. Placed(at, Me)'
  BY DEF Placed, Forwarding
<1>12. Working'
  BY <1>5, <1>8, <1>9, <1>10, <1>11 DEF Working, InAdmission
<1>13. Ending'
  BY <1>1 DEF Ending
<1>14. Bounded'
  <2>1. /\ Cardinality(Locals) \in Nat /\ Cardinality(Occupied) \in Nat
        /\ Cardinality(Locals) <= Cardinality(Occupied)
    BY <1>1, LocalsOccupied
  <2>2. Cardinality(Locals') = Cardinality(Locals) + Plug(w) - Plug(streams[s])
    BY <1>1, LocalsStep
  <2>3. /\ Plug(w) \in {0, 1} /\ Plug(streams[s]) \in {0, 1}
        /\ Plug(w) <= Plug(streams[s]) \/ (Plug(w) = 1 /\ Plug(streams[s]) = 0 /\ Cardinality(Occupied) + Held' < SocketLimit)
    BY DEF Plug
  <2>4. Held \in {0, 1} /\ Held' \in {0, 1}
    BY DEF Held
  <2>5. role # Udp => Cardinality(Locals) + Held <= SocketLimit
    BY <1>1 DEF Bounded
  <2>6. role # Udp => Cardinality(Locals') + Held' <= SocketLimit
    BY <2>1, <2>2, <2>3, <2>4, <2>5, Sizes
  <2> QED
    BY <2>6 DEF Bounded
<1> QED
  BY <1>6, <1>12, <1>13, <1>14 DEF Inv

\* A stream that cannot be set up has failed; its socket is kept only if it was accepted.
LEMMA UnbuiltFit ==
    ASSUME NEW w \in Stream, Flow(w)
    PROVE  Fit(Unbuilt(w)) /\ ~Counted(Unbuilt(w)) /\ ~InAdmission(Unbuilt(w)) /\ ~Unbuilt(w).reader
           /\ (Unbuilt(w).local # "none" => w.local # "none")
           /\ Unbuilt(w).reader = FALSE
<1> DEFINE l == IF w.local = "open" THEN w.local ELSE "none"
<1>1. l \in {"none", "open"} /\ (l # "none" => w.local # "none")
  OBVIOUS
<1> HIDE DEF l
<1> DEFINE v == [w EXCEPT !.local = l, !.connect_left = 0]
<1>2. v \in Stream
  BY <1>1, Values DEF Stream
<1>3. v.phase = w.phase /\ v.local = l /\ Alike(w, v)
  BY DEF Stream, Alike
<1>4. Unbuilt(w) = Closed(v, "FAILED")
  BY DEF Unbuilt, l, Stream
<1> HIDE DEF v
<1>5. Flow(v)
  BY <1>3, FlowKept
<1>6. Delivered(v)
  BY <1>5 DEF Flow
<1>7. Fit(Closed(v, "FAILED")) /\ ~Counted(Closed(v, "FAILED"))
  BY <1>2, <1>6, ClosedFit
<1>8. /\ Closed(v, "FAILED") \in Stream /\ Closed(v, "FAILED").phase = "CLOSING"
      /\ Closed(v, "FAILED").local = v.local /\ ~Closed(v, "FAILED").reader
  BY <1>2, ClosedType
<1>9. Closed(v, "FAILED").reader \in BOOLEAN
  BY <1>8 DEF Stream
<1>10. Closed(v, "FAILED").reader = FALSE
  BY <1>8, <1>9
<1> QED
  BY <1>1, <1>3, <1>4, <1>7, <1>8, <1>10 DEF InAdmission

\* A stream is admitted, or cannot be set up.
LEMMA AdmitsInv ==
    ASSUME Inv, NEW w \in Stream, Fit(w), w.reader = FALSE, Counted(w), Admits(w),
           InAdmission(w) => Admitting = {},
           pending' = pending - (IF Asked THEN 1 ELSE 0), pending' \in 0..PendingLimit,
           accepted' \in BOOLEAN, accepted' => accepted,
           w.local # "none" => Cardinality(Occupied) + Held' < SocketLimit
    PROVE  Inv'
<1>1. at = "admit" /\ ended = "no"
  BY Busy DEF Admits
<1>2. Working /\ TypeOK /\ Bounded
  BY <1>1, Under DEF Inv
<1>3. FirstFree \in Slots /\ streams[FirstFree].phase = "none"
  BY <1>2, FreeSlot DEF Admits
<1>4. /\ role' = role /\ listener' = listener /\ ended' = ended /\ drained' = drained /\ handshake_json' = handshake_json
      /\ at' = "slot" /\ slot' \in Slots /\ visited' \in Slots /\ cursor' \in Slots
  BY <1>2, Sizes DEF Admits, ToSlots, endVars, TypeOK, Slots
<1>5. PICK s \in Slots : s = FirstFree
  BY <1>3
<1>6. streams[s].phase = "none" /\ streams[s] \in Stream /\ Socketed(streams[s])
  BY <1>2, <1>3, <1>5 DEF Working, TypeOK
<1>7. streams[s].reader = FALSE /\ Weight(streams[s]) = 0
  BY <1>6 DEF Stream, Socketed, Weight, Counted
<1>8. Held' <= Held /\ (accepted' => role = Visitor)
  BY <1>2 DEF Held, Bounded
<1>9. pending \in Nat /\ pending' \in Nat /\ unsettled \in Nat
  BY <1>2, Sizes DEF TypeOK
<1>10. CASE /\ streams' = [streams EXCEPT ![s] = w]
            /\ unsettled' = unsettled + (IF Asked THEN 0 ELSE 1)
  <2>1. unsettled' = unsettled + pending' - pending + Weight(w) - Weight(streams[s])
    BY <1>7, <1>9, <1>10 DEF Weight
  <2> QED
    BY <1>1, <1>4, <1>7, <1>8, <1>10, <2>1, OtherStep
<1>11. CASE /\ streams' = [streams EXCEPT ![s] = Unbuilt(w)]
            /\ unsettled' = unsettled - (IF Asked THEN 1 ELSE 0)
  <2>1. /\ Fit(Unbuilt(w)) /\ ~Counted(Unbuilt(w)) /\ ~InAdmission(Unbuilt(w)) /\ Unbuilt(w).reader = FALSE
        /\ (Unbuilt(w).local # "none" => w.local # "none")
    BY UnbuiltFit DEF Fit
  <2>2. unsettled' = unsettled + pending' - pending + Weight(Unbuilt(w)) - Weight(streams[s])
    BY <1>7, <1>9, <1>11, <2>1 DEF Weight
  <2> QED
    BY <1>1, <1>4, <1>7, <1>8, <1>11, <2>1, <2>2, OtherStep
<1> QED
  BY <1>5, <1>10, <1>11 DEF Admits

\* A stream is opened for a pending request.
LEMMA OpenWorkInv ==
    ASSUME Inv, OpenWork
    PROVE  Inv'
<1>1. at = "admit" /\ ended = "no" /\ WorkDue /\ pending' = pending - 1 /\ accepted' = accepted
  BY Busy DEF OpenWork, Admits
<1>2. TypeOK
  BY DEF Inv
<1> DEFINE w == [Empty EXCEPT !.phase = "SENDING", !.stream = "open", !.request = TRUE, !.left = ResponseTime]
<1>3. w \in Stream
  BY EmptyType, Values DEF Stream, Phases
<1>4. w.phase = "SENDING" /\ w.local = "none" /\ w.reader = FALSE /\ Alike(Empty, w) /\ Empty.phase = "none"
  BY EmptyType DEF Stream, Alike, Empty
<1>5. Admits(w)
  BY DEF OpenWork
<1> HIDE DEF w
<1>6. Flow(w)
  BY <1>4, EmptyFit, FlowKept DEF Fit, Silent
<1>7. Socketed(w) /\ Counted(w)
  BY <1>1, <1>4 DEF Socketed, Counted, WorkDue, Provider, Udp, Visitor
<1>8. pending' = pending - (IF Asked THEN 1 ELSE 0) /\ pending' \in 0..PendingLimit /\ Admitting = {}
  BY <1>1, <1>2, Sizes DEF WorkDue, Asked, TypeOK
<1>9. accepted' \in BOOLEAN /\ (accepted' => accepted)
  BY <1>1, <1>2 DEF TypeOK
<1> QED
  BY <1>3, <1>4, <1>5, <1>6, <1>7, <1>8, <1>9, AdmitsInv DEF Fit

\* A visitor's connection is accepted.
LEMMA AcceptVisitInv ==
    ASSUME Inv, AcceptVisit
    PROVE  Inv'
<1>1. /\ at = "admit" /\ ended = "no" /\ VisitDue /\ pending' = pending /\ accepted' = FALSE
      /\ role = Visitor /\ Admitting = {}
  BY Busy DEF AcceptVisit, Admits, VisitDue
<1>2. TypeOK /\ Working
  BY <1>1 DEF Inv
<1> DEFINE w == [Empty EXCEPT !.phase = "SENDING", !.local = "open", !.request = TRUE, !.left = ResponseTime]
<1>3. w \in Stream
  BY EmptyType, Values DEF Stream, Phases
<1>4. w.phase = "SENDING" /\ w.local = "open" /\ w.reader = FALSE /\ Alike(Empty, w) /\ Empty.phase = "none"
  BY EmptyType DEF Stream, Alike, Empty
<1>5. Admits(w)
  BY DEF AcceptVisit
<1> HIDE DEF w
<1>6. Flow(w)
  BY <1>4, EmptyFit, FlowKept DEF Fit, Silent
<1>7. Socketed(w) /\ Counted(w)
  BY <1>1, <1>4 DEF Socketed, Counted, Visitor
<1>8. pending' = pending - (IF Asked THEN 1 ELSE 0) /\ pending' \in 0..PendingLimit
  BY <1>1, <1>2, Sizes DEF Asked, TypeOK, Provider, Udp, Visitor
<1>9. Cardinality(Occupied) + Held' < SocketLimit
  <2>1. Cardinality(Occupied) \in Nat
    BY <1>2, LocalsOccupied
  <2> QED
    BY <1>1, <2>1, Sizes DEF VisitDue, Held
<1> QED
  BY <1>1, <1>3, <1>4, <1>5, <1>6, <1>7, <1>8, <1>9, AdmitsInv DEF Fit

\* A stream of the peer is accepted.
LEMMA AcceptPeerInv ==
    ASSUME Inv, AcceptPeer
    PROVE  Inv'
<1>1. /\ at = "admit" /\ ended = "no" /\ PeerDue /\ pending' = pending /\ accepted' = accepted
      /\ role = PeerProvider
  BY Busy DEF AcceptPeer, Admits, PeerDue
<1>2. TypeOK /\ Working /\ Bounded
  BY <1>1 DEF Inv
<1> DEFINE w == [Empty EXCEPT !.phase = "CONNECTING", !.stream = "open", !.local = "connecting",
                            !.connect_left = ConnectTime]
<1>3. w \in Stream
  BY EmptyType, Values DEF Stream, Phases
<1>4. w.phase = "CONNECTING" /\ w.local = "connecting" /\ w.reader = FALSE /\ Alike(Empty, w) /\ Empty.phase = "none"
  BY EmptyType DEF Stream, Alike, Empty
<1>5. Admits(w)
  BY DEF AcceptPeer
<1> HIDE DEF w
<1>6. Flow(w)
  BY <1>4, EmptyFit, FlowKept DEF Fit
<1>7. Socketed(w) /\ Counted(w) /\ ~InAdmission(w)
  BY <1>4 DEF Socketed, Counted, InAdmission
<1>8. pending' = pending - (IF Asked THEN 1 ELSE 0) /\ pending' \in 0..PendingLimit
  <2>1. ~Asked
    BY <1>1 DEF Asked, Provider, Udp, PeerProvider
  <2>2. pending \in 0..PendingLimit
    BY <1>2 DEF TypeOK
  <2> QED
    BY <1>1, <2>1, <2>2, Sizes
<1>9. accepted' \in BOOLEAN /\ (accepted' => accepted) /\ ~accepted'
  <2>1. role # Visitor
    BY <1>1 DEF PeerProvider, Visitor
  <2>2. ~accepted
    BY <1>2, <2>1 DEF Bounded
  <2>3. accepted \in BOOLEAN
    BY <1>2 DEF TypeOK
  <2> QED
    BY <1>1, <2>2, <2>3
<1>10. Cardinality(Occupied) + Held' < SocketLimit
  <2>1. Cardinality(Occupied) \in Nat
    BY <1>2, LocalsOccupied
  <2> QED
    BY <1>1, <1>9, <2>1, Sizes DEF PeerDue, Held
<1> QED
  BY <1>3, <1>4, <1>5, <1>6, <1>7, <1>8, <1>9, <1>10, AdmitsInv DEF Fit

\* No stream changes.
LEMMA UnmovedInv ==
    ASSUME Inv, ended = "no", streams' = streams,
           role' = role, listener' = listener, ended' = ended, drained' = drained, handshake_json' = handshake_json,
           at' \in {"idle", "slot"}, slot' \in Slots, visited' \in Slots, cursor' \in Slots,
           pending' \in 0..PendingLimit, unsettled' = unsettled + pending' - pending,
           accepted' \in BOOLEAN, accepted' => role = Visitor,
           Held' <= Held \/ Cardinality(Occupied) + Held' <= SocketLimit
    PROVE  Inv'
<1>1. slot \in Slots /\ Fit(Me) /\ TypeOK
  BY Under, MeFit DEF Inv
<1>2. streams' = [streams EXCEPT ![slot] = Me]
  BY <1>1 DEF Me, TypeOK
<1>3. pending \in Nat /\ pending' \in Nat /\ unsettled \in Nat
  BY <1>1, Sizes DEF TypeOK
<1>4. unsettled' = unsettled + pending' - pending + Weight(Me) - Weight(streams[slot])
  BY <1>3 DEF Weight, Me
<1>5. Me = streams[slot]
  BY DEF Me
<1> QED
  BY <1>1, <1>2, <1>4, <1>5, OtherStep

\* Nothing is admitted.
LEMMA NoAdmissionInv ==
    ASSUME Inv, NoAdmission \/ AdoptFails
    PROVE  Inv'
<1>1. at = "admit" /\ ended = "no"
  BY Busy DEF NoAdmission, AdoptFails
<1>2. TypeOK /\ Working /\ Bounded
  BY <1>1 DEF Inv
<1>3. /\ streams' = streams /\ role' = role /\ listener' = listener /\ ended' = ended /\ drained' = drained
      /\ handshake_json' = handshake_json /\ pending' = pending /\ unsettled' = unsettled
      /\ at' = "slot" /\ slot' \in Slots /\ visited' \in Slots /\ cursor' \in Slots
  BY <1>2, Sizes DEF NoAdmission, AdoptFails, ToSlots, setVars, endVars, TypeOK, Slots
<1>4. pending' \in 0..PendingLimit /\ unsettled' = unsettled + pending' - pending
  BY <1>2, <1>3, Sizes DEF TypeOK
<1>5. CASE NoAdmission
  <2>1. accepted \in BOOLEAN /\ (accepted' = accepted \/ accepted' = FALSE)
    BY <1>2, <1>5 DEF NoAdmission, efrp_tcp_listener_ready, TypeOK
  <2>2. accepted' \in BOOLEAN
    BY <2>1
  <2>3. accepted' => accepted
    BY <2>1
  <2>4. Held' <= Held /\ (accepted' => role = Visitor)
    BY <1>2, <2>3 DEF Held, Bounded
  <2> QED
    BY <1>1, <1>3, <1>4, <2>2, <2>4, UnmovedInv
<1>6. CASE AdoptFails
  <2>1. accepted' \in BOOLEAN /\ role = Visitor /\ Cardinality(Occupied) + Held < SocketLimit
    BY <1>6 DEF AdoptFails, VisitDue, Held
  <2>2. Cardinality(Occupied) \in Nat
    BY <1>2, LocalsOccupied
  <2>3. Cardinality(Occupied) + Held' <= SocketLimit
    BY <2>1, <2>2, Sizes DEF Held
  <2> QED
    BY <1>1, <1>3, <1>4, <2>1, <2>3, UnmovedInv
<1> QED
  BY <1>5, <1>6

\* The admission ends the session.
LEMMA AdmissionFailsInv ==
    ASSUME Inv, AdmissionFails
    PROVE  Inv'
  BY CancelInv DEF AdmissionFails

\* A request is counted, or rejected at the limit.
LEMMA RequestInv ==
    ASSUME Inv, efrp_work_request
    PROVE  Inv'
<1>1. ended = "no" /\ at = "idle"
  BY DEF efrp_work_request, Running
<1>2. TypeOK /\ Bounded
  BY DEF Inv
<1>3. /\ streams' = streams /\ role' = role /\ listener' = listener /\ ended' = ended /\ drained' = drained
      /\ handshake_json' = handshake_json /\ accepted' = accepted
      /\ at' = at /\ slot' \in Slots /\ visited' \in Slots /\ cursor' \in Slots
  BY <1>2 DEF efrp_work_request, listenerVars, loopVars, endVars, TypeOK
<1>4. pending' \in 0..PendingLimit /\ unsettled' = unsettled + pending' - pending
  BY <1>2, Sizes DEF efrp_work_request, TypeOK
<1>5. accepted' \in BOOLEAN /\ (accepted' => role = Visitor) /\ Held' <= Held
  BY <1>2, <1>3 DEF TypeOK, Bounded, Held
<1> QED
  BY <1>1, <1>3, <1>4, <1>5, UnmovedInv

\* A socket of the XTCP controller is adopted.
LEMMA AdoptInv ==
    ASSUME Inv, efrp_work_peer_adopt
    PROVE  Inv'
<1>1. ended = "no" /\ at = "idle" /\ role = PeerVisitor /\ Cardinality(Occupied) < SocketLimit
  BY DEF efrp_work_peer_adopt, Running
<1>2. TypeOK /\ Bounded /\ Working
  BY <1>1 DEF Inv
<1> DEFINE w == [Empty EXCEPT !.phase = "PEER_OPENING", !.local = "open", !.left = ResponseTime]
<1>3. w \in Stream
  BY EmptyType, Values DEF Stream, Phases
<1>4. w.phase = "PEER_OPENING" /\ w.local = "open" /\ w.reader = FALSE /\ Alike(Empty, w) /\ Empty.phase = "none"
  BY EmptyType DEF Stream, Alike, Empty
<1>5. streams' = [streams EXCEPT ![FirstFree] = w]
  BY DEF efrp_work_peer_adopt
<1> HIDE DEF w
<1>6. Flow(w)
  BY <1>4, EmptyFit, FlowKept DEF Fit, Silent
<1>7. Socketed(w) /\ Counted(w) /\ ~InAdmission(w)
  BY <1>1, <1>4 DEF Socketed, Counted, InAdmission
<1>8. FirstFree \in Slots /\ streams[FirstFree].phase = "none"
  BY <1>2, FreeSlot DEF efrp_work_peer_adopt
<1>9. PICK s \in Slots : s = FirstFree
  BY <1>8
<1>10. streams[s].phase = "none" /\ streams[s] \in Stream /\ Socketed(streams[s])
  BY <1>2, <1>8, <1>9 DEF Working, TypeOK
<1>11. streams[s].reader = FALSE /\ Weight(streams[s]) = 0
  BY <1>10 DEF Stream, Socketed, Weight, Counted
<1>12. /\ role' = role /\ listener' = listener /\ ended' = ended /\ drained' = drained
       /\ handshake_json' = handshake_json /\ accepted' = accepted /\ pending' = pending /\ unsettled' = unsettled + 1
       /\ at' = at /\ slot' \in Slots /\ visited' \in Slots /\ cursor' \in Slots
  BY <1>2 DEF efrp_work_peer_adopt, listenerVars, loopVars, endVars, TypeOK
<1>13. /\ pending' \in 0..PendingLimit
       /\ unsettled' = unsettled + pending' - pending + Weight(w) - Weight(streams[s])
  BY <1>2, <1>7, <1>11, <1>12, Sizes DEF TypeOK, Weight
<1>14. accepted' \in BOOLEAN /\ ~accepted'
  BY <1>1, <1>2, <1>12 DEF TypeOK, Bounded, PeerVisitor, Visitor
<1>15. Held' <= Held /\ Cardinality(Occupied) + Held' < SocketLimit
  <2>1. Cardinality(Occupied) \in Nat
    BY <1>2, LocalsOccupied
  <2> QED
    BY <1>1, <1>14, <2>1, Sizes DEF Held
<1>16. Fit(w) /\ w.reader = streams[s].reader /\ streams' = [streams EXCEPT ![s] = w]
  BY <1>3, <1>4, <1>5, <1>6, <1>7, <1>9, <1>11 DEF Fit
<1> QED
  BY <1>1, <1>7, <1>12, <1>13, <1>14, <1>15, <1>16, OtherStep

\* The other side resets a stream.
LEMMA ResetsInv ==
    ASSUME Inv, NEW s \in Slots, StreamResets(s)
    PROVE  Inv'
<1>1. ended = "no" /\ at = "idle"
  BY DEF StreamResets, Running
<1>2. TypeOK /\ Bounded /\ Working
  BY <1>1 DEF Inv
<1>3. streams[s] \in Stream /\ Flow(streams[s]) /\ Socketed(streams[s])
  BY <1>2 DEF TypeOK, Working
<1> DEFINE w == [streams[s] EXCEPT !.stream = "reset"]
<1>4. w \in Stream
  BY <1>3 DEF Stream
<1>5. w.phase = streams[s].phase /\ w.local = streams[s].local /\ w.reader = streams[s].reader /\ Alike(streams[s], w)
  BY <1>3 DEF Stream, Alike
<1>6. streams' = [streams EXCEPT ![s] = w]
  BY <1>2 DEF StreamResets, TypeOK
<1> HIDE DEF w
<1>7. Fit(w)
  BY <1>3, <1>4, <1>5, FlowKept DEF Fit, Socketed
<1>8. /\ role' = role /\ listener' = listener /\ ended' = ended /\ drained' = drained
      /\ handshake_json' = handshake_json /\ accepted' = accepted /\ pending' = pending /\ unsettled' = unsettled
      /\ at' = at /\ slot' \in Slots /\ visited' \in Slots /\ cursor' \in Slots
  BY <1>2 DEF StreamResets, setVars, listenerVars, loopVars, endVars, TypeOK
<1>9. /\ pending' \in 0..PendingLimit
      /\ unsettled' = unsettled + pending' - pending + Weight(w) - Weight(streams[s])
  BY <1>2, <1>5, <1>8, Sizes DEF TypeOK, Weight, Counted, Alike
<1>10. accepted' \in BOOLEAN /\ (accepted' => role = Visitor) /\ Held' <= Held
  BY <1>2, <1>8 DEF TypeOK, Bounded, Held
<1>11. InAdmission(w) => InAdmission(streams[s])
  BY <1>5 DEF InAdmission
<1> QED
  BY <1>1, <1>5, <1>6, <1>7, <1>8, <1>9, <1>10, <1>11, OtherStep

\* Time passes for one stream: its deadlines come nearer and nothing else changes.
LEMMA AgedFit ==
    ASSUME NEW w \in Stream, NEW elapsed \in Nat
    PROVE  /\ Aged(w, elapsed) \in Stream /\ Alike(w, Aged(w, elapsed))
           /\ Aged(w, elapsed).phase = w.phase /\ Aged(w, elapsed).local = w.local /\ Aged(w, elapsed).udp = w.udp
           /\ Aged(w, elapsed).reader = w.reader
<1> DEFINE l == After(w.left, elapsed)
           c == After(w.connect_left, elapsed)
           i == Older(w.phase = "ACTIVE" /\ ~w.udp, w.idle, elapsed, IdleTime)
           n == Older(w.incoming # <<>>, w.in_age, elapsed, StallTime)
           o == Older(w.outgoing # <<>>, w.out_age, elapsed, StallTime)
           f == Older(w.remote_eof /\ ~w.local_fin, w.fin_age, elapsed, StallTime)
<1>1. /\ w.left \in Lefts /\ w.connect_left \in ConnectLefts /\ w.idle \in Idles
      /\ w.in_age \in Ages /\ w.out_age \in Ages /\ w.fin_age \in Ages
  BY DEF Stream
<1>2. \A top \in Nat : \A left \in 0..top : After(left, elapsed) \in 0..top
  BY DEF After
<1>3. l \in Lefts /\ c \in ConnectLefts
  BY <1>1, <1>2, Sizes, LaterType DEF Lefts, ConnectLefts
<1>4. ASSUME NEW live, NEW top \in Nat, NEW age \in 0..top
      PROVE  Older(live, age, elapsed, top) \in 0..top
  BY DEF Older
<1>5. i \in Idles /\ n \in Ages /\ o \in Ages /\ f \in Ages
  BY <1>1, <1>4, Sizes DEF Idles, Ages
<1>6. Aged(w, elapsed) = [w EXCEPT !.left = l, !.connect_left = c, !.idle = i, !.in_age = n, !.out_age = o, !.fin_age = f]
  BY DEF Aged
<1> HIDE DEF l, c, i, n, o, f
<1>7. Aged(w, elapsed) \in Stream
  BY <1>3, <1>5, <1>6 DEF Stream
<1> QED
  BY <1>6, <1>7 DEF Stream, Alike

\* A step begins.
LEMMA StepBeginsInv ==
    ASSUME Inv, NEW elapsed \in 0..MaxElapsed, StepBegins(elapsed)
    PROVE  Inv'
<1>1. ended = "no" /\ at' = "admit" /\ streams' = [s \in Slots |-> Aged(streams[s], elapsed)] /\ elapsed \in Nat
  BY Sizes DEF StepBegins, Running
<1>2. TypeOK /\ Working /\ Ending /\ Bounded
  BY <1>1 DEF Inv
<1>3. /\ role' = role /\ pending' = pending /\ cursor' = cursor /\ listener' = listener /\ accepted' = accepted
      /\ ended' = ended /\ drained' = drained /\ handshake_json' = handshake_json /\ unsettled' = unsettled
      /\ slot' = slot /\ visited' = visited
  BY DEF StepBegins, Rest, listenerVars, endVars
<1>4. ASSUME NEW s \in Slots
      PROVE  /\ streams'[s] \in Stream /\ Alike(streams[s], streams'[s])
             /\ streams'[s].phase = streams[s].phase /\ streams'[s].local = streams[s].local
             /\ streams'[s].udp = streams[s].udp /\ streams'[s].reader = streams[s].reader
  <2>1. streams[s] \in Stream /\ streams'[s] = Aged(streams[s], elapsed)
    BY <1>1, <1>2 DEF TypeOK
  <2> QED
    BY <1>1, <2>1, AgedFit
<1>5. streams' \in [Slots -> Stream]
  BY <1>1, <1>4
<1>6. TypeOK'
  <2>1. at' \in Locations
    BY <1>1 DEF Locations
  <2> QED
    BY <1>2, <1>3, <1>5, <2>1 DEF TypeOK
<1>7. ASSUME NEW s \in Slots
      PROVE  (Flow(streams[s]) /\ Socketed(streams[s]))'
  <2>1. Flow(streams[s]) /\ Socketed(streams[s])
    BY <1>2 DEF Working
  <2>2. Flow(streams'[s])
    BY <1>4, <2>1, FlowKept
  <2>3. Socketed(streams[s])'
    BY <1>3, <1>4, <2>1 DEF Socketed
  <2> QED
    BY <2>2, <2>3 DEF Flow
<1>8. Open' = Open /\ Locals' = Locals
  BY <1>4 DEF Open, Locals, Counted, Alike
<1>9. Placed(at, Me)'
  BY <1>1 DEF Placed, Forwarding
<1>10. \A s, t \in Slots : (InAdmission(streams[s]) /\ InAdmission(streams[t]))' => s = t
  BY <1>2, <1>4 DEF Working, InAdmission
<1>11. handshake_json' <=> \E s \in Slots : streams'[s].reader
  BY <1>2, <1>3, <1>4 DEF Working
<1>12. Working'
  BY <1>2, <1>3, <1>7, <1>8, <1>9, <1>10, <1>11 DEF Working
<1>13. Ending' /\ Bounded'
  BY <1>1, <1>2, <1>3, <1>4, <1>8 DEF Ending, Bounded, Held
<1> QED
  BY <1>6, <1>12, <1>13 DEF Inv

\* The session cancels its work, again if that was not enough.
LEMMA SessionCancelsInv ==
    ASSUME Inv, efrp_work_cancel
    PROVE  Inv'
<1> DEFINE code == IF ended = "no" THEN "cancelled" ELSE ended
<1>1. Cancels(code)
  BY DEF efrp_work_cancel
<1>2. code \in {"NO_MEMORY", "transport", "listener", "INVALID_STATE", "cancelled"}
  BY DEF Inv, TypeOK
<1> HIDE DEF code
<1> QED
  BY <1>1, <1>2, CancelInv

-----------------------------------------------------------------------------
(* The specification. *)

\* A new work set.
LEMMA InitInv == Init => Inv
<1> SUFFICES ASSUME Init PROVE Inv
  OBVIOUS
<1>1. 0 \in Slots /\ streams = [s \in Slots |-> Empty] /\ streams \in [Slots -> Stream]
  BY EmptyType, Sizes DEF Init, Slots
<1>2. \A s \in Slots : streams[s] = Empty
  BY <1>1
<1>3. TypeOK
  <2>1. role \in Roles /\ pending \in 0..PendingLimit /\ unsettled \in 0..(PendingLimit + NumSlots)
    BY Sizes DEF Init
  <2>2. at \in Locations /\ slot \in Slots /\ visited \in Slots /\ cursor \in Slots
    BY <1>1 DEF Init, Locations
  <2>3. handshake_json \in BOOLEAN /\ accepted \in BOOLEAN /\ drained \in BOOLEAN
    BY DEF Init
  <2>4. /\ listener \in {"none", "listening", "closing"}
        /\ ended \in {"no", "NO_MEMORY", "transport", "listener", "INVALID_STATE", "cancelled"}
    BY DEF Init
  <2> QED
    BY <1>1, <2>1, <2>2, <2>3, <2>4 DEF TypeOK
<1>4. Open = {} /\ Locals = {}
  BY <1>2, EmptyFit DEF Open, Locals
<1>5. Cardinality(Open) = 0 /\ Cardinality(Locals) = 0
  BY <1>4, FS_EmptySet
<1>6. Working
  <2>1. Placed(at, Me)
    BY DEF Init, Placed, Forwarding
  <2>2. \A s \in Slots : Flow(streams[s]) /\ Socketed(streams[s]) /\ ~InAdmission(streams[s]) /\ ~streams[s].reader
    BY <1>2, EmptyFit DEF Fit
  <2>3. unsettled = pending + Cardinality(Open) /\ ~handshake_json
    BY <1>5 DEF Init
  <2> QED
    BY <2>1, <2>2, <2>3 DEF Working
<1>7. Ending
  BY DEF Init, Ending
<1>8. Bounded
  BY <1>5, Sizes DEF Init, Bounded, Held
<1> QED
  BY <1>3, <1>6, <1>7, <1>8 DEF Inv

\* Nothing happens.
LEMMA StutterInv ==
    ASSUME Inv, UNCHANGED vars
    PROVE  Inv'
<1>1. /\ role' = role /\ pending' = pending /\ streams' = streams /\ handshake_json' = handshake_json
      /\ unsettled' = unsettled /\ at' = at /\ slot' = slot /\ visited' = visited /\ cursor' = cursor
      /\ listener' = listener /\ accepted' = accepted /\ ended' = ended /\ drained' = drained
  BY DEF vars, setVars, loopVars, listenerVars, endVars
<1>2. TypeOK'
  BY <1>1 DEF Inv, TypeOK
<1>3. (ended = "no" => Working)'
  BY <1>1 DEF Inv, Working, Placed, Me, Flow, Socketed, InAdmission, Open, Counted
<1>4. Ending' /\ Bounded'
  BY <1>1 DEF Inv, Ending, Bounded, Locals, Held
<1> QED
  BY <1>2, <1>3, <1>4 DEF Inv

\* Every action keeps the invariant.
LEMMA NextInv == Inv /\ [Next]_vars => Inv'
<1> SUFFICES ASSUME Inv, [Next]_vars PROVE Inv'
  OBVIOUS
<1>1. CASE Between
  BY <1>1, RequestInv, AdoptInv, SessionCancelsInv, ResetsInv DEF Between
<1>2. CASE \E elapsed \in 0..MaxElapsed : StepBegins(elapsed)
  BY <1>2, StepBeginsInv
<1>3. CASE Admission
  BY <1>3, NoAdmissionInv, OpenWorkInv, AcceptVisitInv, AcceptPeerInv, AdmissionFailsInv DEF Admission
<1>4. CASE Handshake
  <2>1. CASE \E n \in 0..StreamBytes : StartVisit(n) \/ StartWork(n) \/ StartRefused(n)
    BY <2>1, StartVisitInv, StartWorkInv, StartRefusedInv
  <2>2. CASE SkipSlot \/ SeesReset \/ EnterSlot \/ StreamInfoFails \/ PeerOpens
    BY <2>2, EnterSlotInv, PeerOpensInv
  <2>3. CASE VisitorOpens \/ SendRequest \/ FrameFails \/ FrameRejected \/ FrameWaits \/ FramePart
    BY <2>3, VisitorOpensInv, SendRequestInv, FrameInv, FramePartInv
  <2>4. CASE StartUdp \/ UdpWaits \/ UdpStarts \/ UdpForwards
    BY <2>4, StartUdpInv, UdpInv
  <2> QED
    BY <1>4, <2>1, <2>2, <2>3, <2>4 DEF Handshake
<1>5. CASE Forward
  <2>1. CASE \E n \in 1..StreamBytes : ReadBytes(n) \/ SendBytes(n)
    BY <2>1, ReadBytesInv, SendBytesInv
  <2>2. CASE \E n \in 1..LocalBytes : RecvBytes(n) \/ WriteBytes(n)
    BY <2>2, RecvBytesInv, WriteBytesInv
  <2>3. CASE ConnectWaits \/ ConnectEnds \/ ReadEof \/ LocalFin \/ RecvEof \/ PassEnds
    BY <2>3, ConnectInv, ReadEofInv, LocalFinInv, RecvEofInv, PassEndsInv
  <2>4. CASE \/ Timers \/ ReadNothing \/ ReadFails \/ SendNothing \/ SendFails \/ NoFin \/ FinFails
             \/ RecvNothing \/ RecvFails \/ WriteNothing \/ WriteFails \/ StreamFinFails
    BY <2>4, QuietInv
  <2> QED
    BY <1>5, <2>1, <2>2, <2>3, <2>4 DEF Forward
<1>6. CASE Cleanup
  BY <1>6, ReleaseInv, LocalInv, FinishFailsInv, KeepsInv, FreesInv DEF Cleanup
<1>7. CASE Finished \/ UNCHANGED vars
  BY <1>7, StutterInv DEF Finished
<1> QED
  BY <1>1, <1>2, <1>3, <1>4, <1>5, <1>6, <1>7 DEF Next

\* The inductive invariant, and with it the type of every variable, holds in every state
\* that step, cancel and the calls between them (work.c) can reach.
THEOREM WorkInvariant == Spec => []Inv
<1>1. Inv /\ [Next]_vars => Inv'
  BY NextInv
<1> QED
  BY <1>1, InitInv, PTL DEF Spec

\* For any number of slots and any limit, admission by efrp_work_step,
\* efrp_work_visit_step and efrp_work_peer_step never has more local sockets open, or being
\* closed, or kept by the listener, than the limit; efrp_work_cancel leaves none.
THEOREM SocketsAreBound == Spec => []SocketBound
<1>1. Inv => SocketBound
  BY DEF Inv, Ending, Bounded, SocketBound, Locals, Held
<1> QED
  BY <1>1, WorkInvariant, PTL

\* The frame buffer that step_streams allocates has the one stream in admission as its
\* owner: close_work, start_work and a replaced UDP stream free it for nobody else.
THEOREM BufferIsOwned == Spec => []BufferOwned
<1>1. ASSUME Inv, ended = "no"
      PROVE  Cardinality(Admitting) <= 1
  <2>1. \A s, t \in Admitting : s = t
    BY <1>1 DEF Inv, Working, Admitting, In, InAdmission
  <2>2. CASE Admitting = {}
    BY <2>2, FS_EmptySet
  <2>3. CASE Admitting # {}
    <3>1. PICK s : Admitting = {s}
      BY <2>1, <2>3
    <3> QED
      BY <3>1, FS_Singleton
  <2> QED
    BY <2>2, <2>3
<1>2. Inv => BufferOwned
  BY <1>1 DEF Inv, Working, Socketed, BufferOwned
<1> QED
  BY <1>2, WorkInvariant, PTL

\* The counters of work.c settle every request once, on every path by which a stream is
\* refused, replaced, failed or completed.
THEOREM RequestsSettleOnce == Spec => []SettledOnce
<1>1. Open = {s \in Occupied : streams[s].phase # "CLOSING" \/ streams[s].result = "OK"}
  BY DEF Open, Counted, Occupied, In
<1>2. Inv => SettledOnce
  BY <1>1 DEF Inv, Working, SettledOnce
<1> QED
  BY <1>2, WorkInvariant, PTL

\* forward_work hands on every byte it read, in order, over any partial writes, ends a
\* direction after its last byte, and completes a stream only with both directions whole.
THEOREM EndsAreWhole == Spec => []EndsWhole
<1>1. Inv => EndsWhole
  BY DEF Inv, Working, Flow, Delivered, Occupied, In, EndsWhole
<1> QED
  BY <1>1, WorkInvariant, PTL

\* cleanup_work resets a stream or finds it ended before it releases it, so that
\* efrp_yamux_release never answers INVALID_STATE, which would end the session.
ReleaseLegal == at = "cleanup" => ResetsFirst(Me) \/ Releasable(Me)

\* A stream that cleanup_work releases has been reset or has ended both ways.
THEOREM ReleasesAreLegal == Spec => []ReleaseLegal
<1>1. ASSUME Inv, at = "cleanup"
      PROVE  ResetsFirst(Me) \/ Releasable(Me)
  <2>1. Me \in Stream /\ Flow(Me) /\ Me.phase = "CLOSING"
    BY <1>1, Busy, Under DEF Placed
  <2>2. Me.result = "OK" => Me.stream_fin /\ Me.remote_eof
    BY <2>1 DEF Flow, Delivered
  <2>3. Me.stream \in {"none", "open", "reset"}
    BY <2>1 DEF Stream
  <2> QED
    BY <2>2, <2>3 DEF ResetsFirst, Releasable
<1>2. Inv => ReleaseLegal
  BY <1>1 DEF ReleaseLegal
<1> QED
  BY <1>2, WorkInvariant, PTL

=============================================================================
