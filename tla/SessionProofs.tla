----------------------------- MODULE SessionProofs -----------------------------
(***************************************************************************)
(* Proofs about the control session, for any sizes, deadlines and numbers  *)
(* of turns and records, any number of units in flight, any set of split   *)
(* messages and a server whose last message may be anything.               *)
(*                                                                         *)
(* What the session makes of its input depends on what it has sent, so     *)
(* the invariant follows every request from control_tx over the record     *)
(* writer, the server and the wire back to the parser.                     *)
(***************************************************************************)
EXTENDS Session, SequenceTheorems, TLAPS

-----------------------------------------------------------------------------
(* The inductive invariant. *)

\* What has been sent to the session and not been used, the oldest first.
Wire == plain \o rx \o ring \o net

\* A unit that ends a message; the sequences with the end of one, with one at most, with a hello
\* before every answer to the login, and with no refusal but the given ones and no split login.
Ending(u, kind) == u[1] \in {"whole", "tail"} /\ u[2] = kind
Ends(w, kind) == \E i \in 1..Len(w) : Ending(w[i], kind)
Single(w, kind) == \A i, j \in 1..Len(w) : Ending(w[i], kind) /\ Ending(w[j], kind) => i = j
Ordered(w) == \A i \in 1..Len(w) : Ending(w[i], "login") => \E j \in 1..(i - 1) : Ending(w[j], "hello")
Proper(w, kinds) ==
    \A i \in 1..Len(w) :
       /\ w[i][1] \in {"whole", "tail"} /\ ~w[i][3] => w[i][2] \in kinds \ {"work", "signal"}
       /\ w[i][1] = "tail" => w[i][2] \notin {"hello", "login"}

\* A message is on its way, and once only.
Coming(kind) == Ends(Wire, kind)
Once(kind) == Single(Wire, kind)

\* Where the loop is: a session that has ended or was freed does not go on, and the record
\* reader is fed only when its last record was parsed.
Looping ==
    /\ result # "OK" => at \in {"idle", "destroy"} /\ hs = "TAKEN" /\ ~arriving
    /\ at = "destroy" => result # "OK"
    /\ at = "feed" => plain = <<>> /\ rx # <<>>
    /\ freed => at = "idle" /\ result # "OK" /\ ~leased /\ ~busy /\ xtcp = "none"
Phased ==
    /\ result = "OK" => phase \in {"AUTHENTICATING", "REGISTERING", "REGISTERED"}
    /\ phase = "AUTHENTICATING" => /\ plain = <<>> /\ tx = "none" /\ sealed = "none" /\ owed = {}
                                   /\ ~proxy_queued /\ ~arriving
    /\ hs = "SEND" => output > 0
    /\ hs = "TAKEN" <=> phase # "AUTHENTICATING"
    /\ pongs > 0 /\ result = "OK" => phase = "REGISTERED"
    /\ pongs = 0 => started = 0
    /\ result = "OK" /\ transport_eof => closed \in {"eof", "torn"} /\ net = <<>>

\* A frame of the XTCP controller: a part of a request up to its end, or a report.  From its
\* first record until its last has been sealed, nothing is in control_tx.
Requesting(s) == s # <<>> /\ s[Len(s)] = "request end" /\ \A i \in 1..(Len(s) - 1) : s[i] = "request"
Sending ==
    /\ signal = <<>> \/ signal = Report \/ Requesting(signal)
    /\ signal # <<>> => HasXtcp /\ phase = "REGISTERED"
    /\ sealed = "request" \/ (arriving /\ sealed # "request end") => Requesting(signal) /\ tx = "none"
    /\ arriving => sealed \in {"none", "request", "request end"}
    /\ ~garbled

\* The login: one hello, then one answer to the login, each read where it is expected.
Early == hs \in {"SEND", "HELLO"}
Greeting ==
    /\ Coming("hello") => phase = "AUTHENTICATING" /\ greeted >= 1 /\ Early
    /\ Coming("login") => phase = "AUTHENTICATING" /\ greeted = 2
    /\ Early => Ordered(Wire)
    /\ Once("hello") /\ Once("login")
    /\ hs = "LOGIN" => greeted >= 1
    /\ phase # "AUTHENTICATING" => greeted = 2
    /\ greeted >= 1 /\ Early /\ closed = "no" => Coming("hello")

\* A request is in one place only: waiting, sealed, with the server, or answered on the wire;
\* and its answer is expected for as long.
Asked(waiting, written, kind, expected) ==
    /\ waiting => ~written /\ kind \notin owed /\ ~Coming(kind)
    /\ written => kind \notin owed /\ ~Coming(kind)
    /\ kind \in owed => ~Coming(kind)
    /\ Once(kind)
    /\ waiting \/ written \/ kind \in owed \/ Coming(kind) => expected
Answering ==
    /\ Asked(tx = "proxy", sealed = "proxy", "proxy", phase = "REGISTERING" /\ proxy_queued)
    /\ Asked(tx = "ping", sealed = "ping", "pong", phase = "REGISTERED" /\ ping_pending)
    /\ Asked(Requesting(signal), sealed = "request end", "signal", HasXtcp /\ phase = "REGISTERED" /\ awaiting)
    /\ Coming("work") => ~visitor_role /\ phase # "AUTHENTICATING"
    /\ owed \subseteq {"proxy", "pong", "signal"}

\* A refusal on the wire is one of the server; what it cannot refuse is not refused.
Honest == result = "OK" /\ ~misbehaved => Greeting /\ Answering /\ Proper(Wire, refused)

Inv == TypeOK /\ Looping /\ Phased /\ Sending /\ Honest /\ ServerNeverAccused

-----------------------------------------------------------------------------
(* Sequences. *)

\* The sizes are what they are called.
LEMMA Sizes ==
    /\ Turns \in Nat /\ RxUnits \in Nat /\ LoginWrites \in Nat /\ SignalRecords \in Nat /\ ResponseTime \in Nat
    /\ HeartbeatTime \in Nat /\ MaxElapsed \in Nat /\ MaxInFlight \in Nat
    /\ Turns > 0 /\ RxUnits > 0 /\ LoginWrites > 0 /\ SignalRecords > 0 /\ ResponseTime > 0
  BY SizesAssumption, SessionBounds

\* What the session has not used is a sequence of units.
LEMMA WireType ==
    ASSUME TypeOK
    PROVE  /\ plain \in Seq(Units) /\ rx \in Seq(Units) /\ ring \in Seq(Units) /\ net \in Seq(Units)
           /\ Wire \in Seq(Units) /\ Len(Wire) \in Nat
<1>1. plain \in Seq(Units) /\ rx \in Seq(Units) /\ ring \in Seq(Units) /\ net \in Seq(Units)
  BY SeqMonotonic DEF TypeOK
<1>2. Wire \in Seq(Units)
  BY <1>1, ConcatProperties DEF Wire
<1> QED
  BY <1>1, <1>2, LenProperties

\* A sequence that is cut in two is the same when it is put together.
LEMMA CutJoined ==
    ASSUME NEW S, NEW s \in Seq(S), NEW n \in 0..Len(s)
    PROVE  /\ SubSeq(s, 1, n) \in Seq(S) /\ SubSeq(s, n + 1, Len(s)) \in Seq(S)
           /\ SubSeq(s, 1, n) \o SubSeq(s, n + 1, Len(s)) = s
<1>1. Len(s) \in Nat /\ \A i \in 1..Len(s) : s[i] \in S
  BY LenProperties, ElementOfSeq
<1>2. SubSeq(s, 1, n) \in Seq(S)
  BY <1>1, SubSeqProperties
<1>3. SubSeq(s, n + 1, Len(s)) \in Seq(S)
  BY <1>1, SubSeqProperties
<1> DEFINE a == SubSeq(s, 1, n)
           b == SubSeq(s, n + 1, Len(s))
<1>4. Len(a) = n /\ \A i \in 1..n : a[i] = s[i]
  BY <1>1, SubSeqProperties
<1>5. Len(b) = Len(s) - n /\ \A i \in 1..(Len(s) - n) : b[i] = s[n + i]
  BY <1>1, SubSeqProperties
<1>6. a \in Seq(S) /\ b \in Seq(S)
  BY <1>2, <1>3
<1> HIDE DEF a, b
<1>7. /\ a \o b \in Seq(S) /\ Len(a \o b) = Len(a) + Len(b)
      /\ \A i \in 1..(Len(a) + Len(b)) : (a \o b)[i] = IF i <= Len(a) THEN a[i] ELSE b[i - Len(a)]
  BY <1>6, ConcatProperties
<1>8. Len(a \o b) = Len(s)
  BY <1>1, <1>4, <1>5, <1>7
<1>9. \A i \in 1..Len(s) : (a \o b)[i] = s[i]
  BY <1>1, <1>4, <1>5, <1>7
<1>10. a \o b = s
  BY <1>7, <1>8, <1>9, SeqEqual
<1> QED
  BY <1>2, <1>3, <1>10 DEF a, b

\* Putting sequences of units together is associative.
LEMMA UnitsAssociative == \A s, t, u \in Seq(Units) : (s \o t) \o u = s \o (t \o u)
  BY ConcatAssociative

\* What putting sequences of units together gives.
LEMMA UnitsJoined ==
    \A s, t \in Seq(Units) :
       /\ s \o t \in Seq(Units) /\ Len(s \o t) = Len(s) + Len(t)
       /\ \A i \in 1..(Len(s) + Len(t)) : (s \o t)[i] = IF i <= Len(s) THEN s[i] ELSE t[i - Len(s)]
  BY ConcatProperties

\* efrp_transport_step moves units from the network to the stream.
LEMMA DeliverWire ==
    ASSUME TypeOK, NEW n \in 0..Len(net), Deliver(n), plain' = plain, rx' = rx
    PROVE  Wire' = Wire /\ ring' \in Seq(Units) /\ net' \in Seq(Units)
<1> DEFINE a == SubSeq(net, 1, n)
           b == SubSeq(net, n + 1, Len(net))
<1>1. plain \in Seq(Units) /\ rx \in Seq(Units) /\ ring \in Seq(Units) /\ net \in Seq(Units)
  BY WireType
<1>2. a \in Seq(Units) /\ b \in Seq(Units) /\ a \o b = net
  BY <1>1, CutJoined
<1>3. ring' = ring \o a /\ net' = b
  BY DEF Deliver
<1> HIDE DEF a, b
<1> DEFINE p == plain \o rx
<1>4. p \in Seq(Units) /\ ring \o a \in Seq(Units)
  BY <1>1, <1>2, ConcatProperties
<1>5. Wire' = (p \o (ring \o a)) \o b /\ Wire = (p \o ring) \o net
  BY <1>3 DEF Wire
<1> HIDE DEF p
<1>6. (p \o (ring \o a)) \o b = p \o ((ring \o a) \o b)
  BY <1>2, <1>4, UnitsAssociative, Zenon
<1>7. (ring \o a) \o b = ring \o (a \o b)
  BY <1>1, <1>2, UnitsAssociative, Zenon
<1>8. (p \o ring) \o net = p \o (ring \o net)
  BY <1>1, <1>4, UnitsAssociative, Zenon
<1> QED
  BY <1>2, <1>3, <1>4, <1>5, <1>6, <1>7, <1>8

\* control_input moves units from the stream to control_rx.
LEMMA ReadWire ==
    ASSUME TypeOK, rx = <<>>, NEW n \in 0..Len(ring), rx' = SubSeq(ring, 1, n), ring' = SubSeq(ring, n + 1, Len(ring)),
           plain' = plain, net' = net
    PROVE  Wire' = Wire /\ rx' \in Seq(Units) /\ ring' \in Seq(Units)
<1>1. plain \in Seq(Units) /\ ring \in Seq(Units) /\ net \in Seq(Units)
  BY WireType
<1>2. rx' \in Seq(Units) /\ ring' \in Seq(Units) /\ rx' \o ring' = ring
  BY <1>1, CutJoined
<1>3. plain \o <<>> = plain
  BY <1>1, ConcatEmptySeq
<1>4. (plain \o rx') \o ring' = plain \o (rx' \o ring')
  BY <1>1, <1>2, UnitsAssociative, Zenon
<1> QED
  BY <1>2, <1>3, <1>4 DEF Wire

\* The first unit of a sequence that others follow.
LEMMA HeadOff ==
    ASSUME NEW S, NEW s \in Seq(S), s # <<>>, NEW t \in Seq(S)
    PROVE  /\ Tail(s) \in Seq(S) /\ Head(s) \in S /\ <<Head(s)>> \o Tail(s) = s
           /\ s \o t # <<>> /\ Head(s \o t) = Head(s) /\ Tail(s \o t) = Tail(s) \o t
<1>1. /\ Len(s) \in Nat /\ Len(s) > 0 /\ Head(s) \in S /\ Tail(s) \in Seq(S) /\ Len(Tail(s)) = Len(s) - 1
      /\ \A i \in 1..Len(Tail(s)) : Tail(s)[i] = s[i + 1]
  BY HeadTailProperties, LenProperties, EmptySeq
<1>2. <<Head(s)>> \o Tail(s) = s
  <2>1. <<Head(s)>> \in Seq(S) /\ Len(<<Head(s)>>) = 1
    BY <1>1
  <2>2. <<Head(s)>> \o Tail(s) \in Seq(S) /\ Len(<<Head(s)>> \o Tail(s)) = Len(s)
    BY <1>1, <2>1, ConcatProperties
  <2>3. \A i \in 1..Len(s) : (<<Head(s)>> \o Tail(s))[i] = s[i]
    BY <1>1, <2>1, ConcatProperties
  <2> QED
    BY <2>2, <2>3, SeqEqual
<1>3. /\ s \o t \in Seq(S) /\ Len(s \o t) = Len(s) + Len(t) /\ Len(t) \in Nat
      /\ \A i \in 1..(Len(s) + Len(t)) : (s \o t)[i] = IF i <= Len(s) THEN s[i] ELSE t[i - Len(s)]
  BY ConcatProperties, LenProperties
<1>4. s \o t # <<>>
  BY <1>1, <1>3
<1>5. Head(s \o t) = Head(s)
  BY <1>1, <1>3
<1>6. Tail(s \o t) = Tail(s) \o t
  <2>1. /\ Tail(s \o t) \in Seq(S) /\ Len(Tail(s \o t)) = Len(s) + Len(t) - 1
        /\ \A i \in 1..Len(Tail(s \o t)) : Tail(s \o t)[i] = (s \o t)[i + 1]
    BY <1>3, <1>4, HeadTailProperties
  <2>2. /\ Tail(s) \o t \in Seq(S) /\ Len(Tail(s) \o t) = Len(s) + Len(t) - 1
        /\ \A i \in 1..(Len(s) + Len(t) - 1) : (Tail(s) \o t)[i] = IF i <= Len(s) - 1 THEN Tail(s)[i] ELSE t[i - (Len(s) - 1)]
    BY <1>1, ConcatProperties
  <2>3. \A i \in 1..Len(Tail(s \o t)) : Tail(s \o t)[i] = (Tail(s) \o t)[i]
    BY <1>1, <1>3, <2>1, <2>2
  <2> QED
    BY <2>1, <2>2, <2>3, SeqEqual
<1> QED
  BY <1>1, <1>2, <1>4, <1>5, <1>6

\* The record reader takes a unit of control_rx, which is then the plaintext.
LEMMA RecordWire ==
    ASSUME TypeOK, plain = <<>>, rx # <<>>, plain' = <<Head(rx)>>, rx' = Tail(rx), ring' = ring, net' = net
    PROVE  Wire' = Wire
<1>1. rx \in Seq(Units)
  BY WireType
<1>2. <<Head(rx)>> \o Tail(rx) = rx /\ <<>> \o rx = rx
  BY <1>1, HeadOff, ConcatEmptySeq
<1> QED
  BY <1>2 DEF Wire

\* A unit of control_rx is used up.
LEMMA UnitWire ==
    ASSUME TypeOK, plain = <<>>, rx # <<>>, plain' = plain, rx' = Tail(rx), ring' = ring, net' = net
    PROVE  Wire # <<>> /\ Head(Wire) = Head(rx) /\ Wire' = Tail(Wire) /\ rx' \in Seq(Units)
<1>1. rx \in Seq(Units) /\ ring \in Seq(Units) /\ net \in Seq(Units)
  BY WireType
<1>2. Tail(rx) \in Seq(Units) /\ Tail(rx \o ring) = Tail(rx) \o ring /\ rx \o ring # <<>> /\ Head(rx \o ring) = Head(rx)
  BY <1>1, HeadOff
<1>3. rx \o ring \in Seq(Units)
  BY <1>1, ConcatProperties
<1>4. /\ Tail((rx \o ring) \o net) = Tail(rx \o ring) \o net /\ (rx \o ring) \o net # <<>>
      /\ Head((rx \o ring) \o net) = Head(rx \o ring)
  BY <1>1, <1>2, <1>3, HeadOff
<1>5. <<>> \o rx = rx /\ <<>> \o Tail(rx) = Tail(rx)
  BY <1>1, <1>2, ConcatEmptySeq
<1> QED
  BY <1>2, <1>4, <1>5 DEF Wire

\* The plaintext is used up.
LEMMA PlainWire ==
    ASSUME TypeOK, plain # <<>>, plain' = <<>>, rx' = rx, ring' = ring, net' = net
    PROVE  Wire # <<>> /\ Head(Wire) = plain[1] /\ Wire' = Tail(Wire) /\ plain[1] \in Units \ {Part}
<1>1. plain \in Seq(Units) /\ rx \in Seq(Units) /\ ring \in Seq(Units) /\ net \in Seq(Units)
  BY WireType
<1>2. Len(plain) = 1 /\ plain[1] \in Units \ {Part} /\ Head(plain) = plain[1]
  <2>1. plain \in Seq(Units \ {Part})
    BY DEF TypeOK
  <2>0. Len(plain) <= 1
    BY DEF TypeOK
  <2>2. Len(plain) \in Nat \ {0}
    BY <2>1, EmptySeq
  <2>3. Len(plain) = 1
    <3>1. \A n \in Nat \ {0} : n <= 1 => n = 1
      OBVIOUS
    <3> QED
      BY <2>0, <2>2, <3>1, Zenon
  <2>4. plain[1] \in Units \ {Part}
    BY <2>1, <2>3, ElementOfSeq
  <2> QED
    BY <2>3, <2>4
<1>3. Tail(plain) = <<>>
  <2>1. Tail(plain) \in Seq(Units) /\ Len(Tail(plain)) = 0
    BY <1>1, <1>2, HeadTailProperties
  <2>2. Tail(plain) # <<>> => Len(Tail(plain)) \in Nat \ {0}
    BY <2>1, EmptySeq
  <2> QED
    BY <2>1, <2>2
<1>4. plain \o rx \in Seq(Units) /\ (plain \o rx) \o ring \in Seq(Units)
  BY <1>1, ConcatProperties
<1>5. Tail(plain \o rx) = Tail(plain) \o rx /\ plain \o rx # <<>> /\ Head(plain \o rx) = Head(plain)
  BY <1>1, HeadOff
<1>6. /\ Tail((plain \o rx) \o ring) = Tail(plain \o rx) \o ring /\ (plain \o rx) \o ring # <<>>
      /\ Head((plain \o rx) \o ring) = Head(plain \o rx)
  BY <1>1, <1>4, <1>5, HeadOff
<1>7. /\ Tail(((plain \o rx) \o ring) \o net) = Tail((plain \o rx) \o ring) \o net
      /\ ((plain \o rx) \o ring) \o net # <<>> /\ Head(((plain \o rx) \o ring) \o net) = Head((plain \o rx) \o ring)
  BY <1>1, <1>4, <1>6, HeadOff
<1> QED
  BY <1>2, <1>3, <1>5, <1>6, <1>7 DEF Wire

\* The server sends something, or the end of what it sent is lost.
LEMMA SendWire ==
    ASSUME TypeOK, NEW m \in Seq(Units), net' = net \o m, plain' = plain, rx' = rx, ring' = ring
    PROVE  Wire' = Wire \o m /\ net' \in Seq(Units)
<1>1. plain \in Seq(Units) /\ rx \in Seq(Units) /\ ring \in Seq(Units) /\ net \in Seq(Units)
  BY WireType
<1>2. plain \o rx \in Seq(Units) /\ (plain \o rx) \o ring \in Seq(Units) /\ net \o m \in Seq(Units)
  BY <1>1, ConcatProperties
<1>3. (((plain \o rx) \o ring) \o net) \o m = ((plain \o rx) \o ring) \o (net \o m)
  BY <1>1, <1>2, ConcatAssociative
<1> QED
  BY <1>2, <1>3 DEF Wire

\* The end of what was sent is lost.
LEMMA LossWire ==
    ASSUME TypeOK, NEW n \in 0..Len(net), net' = SubSeq(net, 1, n), plain' = plain, rx' = rx, ring' = ring
    PROVE  /\ Wire' \in Seq(Units) /\ Len(Wire') \in Nat /\ Len(Wire') <= Len(Wire) /\ net' \in Seq(Units)
           /\ \A i \in 1..Len(Wire') : Wire'[i] = Wire[i]
<1> DEFINE p == (plain \o rx) \o ring
<1>1. plain \in Seq(Units) /\ rx \in Seq(Units) /\ ring \in Seq(Units) /\ net \in Seq(Units)
  BY WireType
<1>2. p \in Seq(Units)
  BY <1>1, ConcatProperties
<1>3. Wire = p \o net /\ Wire' = p \o net'
  BY DEF Wire
<1> HIDE DEF p
<1>4. Len(net) \in Nat /\ Len(p) \in Nat /\ \A i \in 1..Len(net) : net[i] \in Units
  BY <1>1, <1>2, LenProperties, ElementOfSeq
<1>5. net' \in Seq(Units) /\ Len(net') = n /\ \A i \in 1..n : net'[i] = net[i]
  BY <1>4, SubSeqProperties
<1>6. /\ p \o net' \in Seq(Units) /\ Len(p \o net') = Len(p) + n
      /\ \A i \in 1..(Len(p) + n) : (p \o net')[i] = IF i <= Len(p) THEN p[i] ELSE net'[i - Len(p)]
  BY <1>2, <1>5, UnitsJoined
<1>7. /\ Len(p \o net) = Len(p) + Len(net)
      /\ \A i \in 1..(Len(p) + Len(net)) : (p \o net)[i] = IF i <= Len(p) THEN p[i] ELSE net[i - Len(p)]
  BY <1>1, <1>2, ConcatProperties
<1>8. \A i \in 1..(Len(p) + n) : (p \o net')[i] = (p \o net)[i]
  BY <1>4, <1>5, <1>6, <1>7
<1> QED
  BY <1>3, <1>4, <1>5, <1>6, <1>7, <1>8

-----------------------------------------------------------------------------
(* What is on the wire. *)

\* A sequence whose first unit is used up.
LEMMA TailEnds ==
    ASSUME NEW w \in Seq(Units), w # <<>>, NEW kind
    PROVE  /\ Ends(w, kind) <=> Ending(Head(w), kind) \/ Ends(Tail(w), kind)
           /\ Single(w, kind) => Single(Tail(w), kind)
           /\ Single(w, kind) /\ Ending(Head(w), kind) => ~Ends(Tail(w), kind)
<1> DEFINE t == Tail(w)
<1>1. Len(w) \in Nat /\ Len(w) > 0 /\ Len(t) = Len(w) - 1
  BY HeadTailProperties, LenProperties, EmptySeq
<1>2. \A i \in 1..Len(t) : t[i] = w[i + 1]
  BY HeadTailProperties
<1>3. Head(w) = w[1]
  OBVIOUS
<1>4. \A i \in 1..Len(t) : i + 1 \in 1..Len(w)
  BY <1>1
<1>5. \A i \in 1..Len(w) : i = 1 \/ (i - 1 \in 1..Len(t) /\ t[i - 1] = w[i])
  BY <1>1, <1>2
<1>6. 1 \in 1..Len(w)
  BY <1>1
<1> HIDE DEF t
<1>7. Ends(w, kind) => Ending(w[1], kind) \/ Ends(t, kind)
  BY <1>5 DEF Ends
<1>8. Ending(w[1], kind) \/ Ends(t, kind) => Ends(w, kind)
  BY <1>2, <1>4, <1>6 DEF Ends
<1>9. ASSUME Single(w, kind) PROVE Single(t, kind)
  <2>1. ASSUME NEW i \in 1..Len(t), NEW j \in 1..Len(t), Ending(t[i], kind), Ending(t[j], kind) PROVE i = j
    <3>1. i + 1 = j + 1
      BY <1>2, <1>4, <1>9, <2>1 DEF Single
    <3> QED
      BY <3>1, <1>1
  <2> QED
    BY <2>1 DEF Single
<1>10. ASSUME Single(w, kind), Ending(w[1], kind), NEW i \in 1..Len(t), Ending(t[i], kind) PROVE FALSE
  <2>1. i + 1 = 1
    BY <1>2, <1>4, <1>6, <1>10 DEF Single
  <2> QED
    BY <2>1, <1>1
<1> QED
  BY <1>3, <1>7, <1>8, <1>9, <1>10 DEF Ends, t

\* The order and the refusals that are left when a unit is used up.
LEMMA TailOrdered ==
    ASSUME NEW w \in Seq(Units), w # <<>>, NEW kinds
    PROVE  /\ Ordered(w) /\ ~Ending(Head(w), "hello") => Ordered(Tail(w))
           /\ Ordered(w) => ~Ending(Head(w), "login")
           /\ Proper(w, kinds) => Proper(Tail(w), kinds)
           /\ Proper(w, kinds) /\ Head(w)[1] \in {"whole", "tail"} /\ ~Head(w)[3] => Head(w)[2] \in kinds \ {"work", "signal"}
           /\ Proper(w, kinds) /\ Head(w)[1] = "tail" => Head(w)[2] \notin {"hello", "login"}
<1> DEFINE t == Tail(w)
<1>1. Len(w) \in Nat /\ Len(w) > 0 /\ Len(t) = Len(w) - 1
  BY HeadTailProperties, LenProperties, EmptySeq
<1>2. \A i \in 1..Len(t) : t[i] = w[i + 1]
  BY HeadTailProperties
<1>3. Head(w) = w[1]
  OBVIOUS
<1>4. \A i \in 1..Len(t) : i + 1 \in 1..Len(w)
  BY <1>1
<1>5. 1 \in 1..Len(w)
  BY <1>1
<1> HIDE DEF t
<1>6. ASSUME Ordered(w), ~Ending(w[1], "hello") PROVE Ordered(t)
  <2>1. SUFFICES ASSUME NEW i \in 1..Len(t), Ending(t[i], "login") PROVE \E j \in 1..(i - 1) : Ending(t[j], "hello")
    BY DEF Ordered
  <2>2. PICK j \in 1..(i + 1 - 1) : Ending(w[j], "hello")
    BY <1>2, <1>4, <1>6, <2>1 DEF Ordered
  <2>3. j # 1
    BY <1>6, <2>2
  <2>4. j - 1 \in 1..(i - 1) /\ j - 1 \in 1..Len(t) /\ j - 1 + 1 = j
    BY <2>2, <2>3, <1>1
  <2>5. t[j - 1] = w[j]
    BY <2>4, <1>2
  <2> QED
    BY <2>2, <2>4, <2>5
<1>7. Ordered(w) => ~Ending(w[1], "login")
  BY <1>5 DEF Ordered
<1>8. Proper(w, kinds) => Proper(t, kinds)
  BY <1>2, <1>4 DEF Proper
<1>9. Proper(w, kinds) /\ w[1][1] \in {"whole", "tail"} /\ ~w[1][3] => w[1][2] \in kinds \ {"work", "signal"}
  BY <1>5 DEF Proper
<1>10. Proper(w, kinds) /\ w[1][1] = "tail" => w[1][2] \notin {"hello", "login"}
  BY <1>5 DEF Proper
<1> QED
  BY <1>3, <1>6, <1>7, <1>8, <1>9, <1>10 DEF t

\* A sequence whose end is lost.
LEMMA PrefixEnds ==
    ASSUME NEW v, NEW w, NEW kind, NEW kinds, Len(v) \in Nat, Len(w) \in Nat, Len(v) <= Len(w),
           \A i \in 1..Len(v) : v[i] = w[i]
    PROVE  /\ Ends(v, kind) => Ends(w, kind)
           /\ Single(w, kind) => Single(v, kind)
           /\ Ordered(w) => Ordered(v)
           /\ Proper(w, kinds) => Proper(v, kinds)
<1>1. \A i \in 1..Len(v) : i \in 1..Len(w)
  OBVIOUS
<1>2. Ends(v, kind) => Ends(w, kind)
  BY <1>1 DEF Ends
<1>3. Single(w, kind) => Single(v, kind)
  BY <1>1 DEF Single
<1>4. ASSUME Ordered(w) PROVE Ordered(v)
  <2>1. SUFFICES ASSUME NEW i \in 1..Len(v), Ending(v[i], "login") PROVE \E j \in 1..(i - 1) : Ending(v[j], "hello")
    BY DEF Ordered
  <2>2. PICK j \in 1..(i - 1) : Ending(w[j], "hello")
    BY <1>1, <1>4, <2>1 DEF Ordered
  <2>3. j \in 1..Len(v)
    BY <2>2
  <2> QED
    BY <2>2, <2>3
<1>5. Proper(w, kinds) => Proper(v, kinds)
  BY <1>1 DEF Proper
<1> QED
  BY <1>2, <1>3, <1>4, <1>5

\* A sequence that something is appended to.
LEMMA JoinEnds ==
    ASSUME NEW w \in Seq(Units), NEW m \in Seq(Units), NEW kind, NEW kinds
    PROVE  /\ Ends(w \o m, kind) <=> Ends(w, kind) \/ Ends(m, kind)
           /\ Single(w, kind) /\ Single(m, kind) /\ ~(Ends(w, kind) /\ Ends(m, kind)) => Single(w \o m, kind)
           /\ Ordered(w) /\ (Ends(m, "login") => Ends(w, "hello")) => Ordered(w \o m)
           /\ Proper(w, kinds) /\ Proper(m, kinds) => Proper(w \o m, kinds)
<1> DEFINE v == w \o m
<1>1. Len(w) \in Nat /\ Len(m) \in Nat
  BY LenProperties
<1>2. Len(v) = Len(w) + Len(m) /\ \A i \in 1..(Len(w) + Len(m)) : v[i] = IF i <= Len(w) THEN w[i] ELSE m[i - Len(w)]
  BY UnitsJoined
<1> HIDE DEF v
<1>3. \A i \in 1..Len(w) : i \in 1..Len(v) /\ v[i] = w[i]
  BY <1>1, <1>2
<1>4. \A i \in 1..Len(m) : i + Len(w) \in 1..Len(v) /\ v[i + Len(w)] = m[i]
  BY <1>1, <1>2
<1>5. \A i \in 1..Len(v) : i \in 1..Len(w) \/ i - Len(w) \in 1..Len(m)
  BY <1>1, <1>2
<1>6. \A i \in 1..Len(v) : i \notin 1..Len(w) => v[i] = m[i - Len(w)]
  BY <1>1, <1>2
<1>7. Ends(v, kind) => Ends(w, kind) \/ Ends(m, kind)
  BY <1>3, <1>5, <1>6 DEF Ends
<1>8. Ends(w, kind) => Ends(v, kind)
  BY <1>3 DEF Ends
<1>9. Ends(m, kind) => Ends(v, kind)
  BY <1>4 DEF Ends
<1>10. ASSUME Single(w, kind), Single(m, kind), ~(Ends(w, kind) /\ Ends(m, kind)) PROVE Single(v, kind)
  <2>1. SUFFICES ASSUME NEW i \in 1..Len(v), NEW j \in 1..Len(v), Ending(v[i], kind), Ending(v[j], kind) PROVE i = j
    BY DEF Single
  <2>2. CASE i \in 1..Len(w) /\ j \in 1..Len(w)
    BY <1>3, <1>10, <2>1, <2>2 DEF Single
  <2>3. CASE i \notin 1..Len(w) /\ j \notin 1..Len(w)
    <3>1. i - Len(w) = j - Len(w)
      BY <1>5, <1>6, <1>10, <2>1, <2>3 DEF Single
    <3> QED
      BY <3>1, <1>1
  <2>4. CASE i \in 1..Len(w) /\ j \notin 1..Len(w)
    BY <1>3, <1>5, <1>6, <1>10, <2>1, <2>4 DEF Ends
  <2>5. CASE i \notin 1..Len(w) /\ j \in 1..Len(w)
    BY <1>3, <1>5, <1>6, <1>10, <2>1, <2>5 DEF Ends
  <2> QED
    BY <2>2, <2>3, <2>4, <2>5
<1>11. ASSUME Ordered(w), Ends(m, "login") => Ends(w, "hello") PROVE Ordered(v)
  <2>1. SUFFICES ASSUME NEW i \in 1..Len(v), Ending(v[i], "login") PROVE \E j \in 1..(i - 1) : Ending(v[j], "hello")
    BY DEF Ordered
  <2>2. CASE i \in 1..Len(w)
    <3>1. PICK j \in 1..(i - 1) : Ending(w[j], "hello")
      BY <1>3, <1>11, <2>1, <2>2 DEF Ordered
    <3>2. j \in 1..Len(w)
      BY <3>1, <2>2, <1>1
    <3> QED
      BY <3>1, <3>2, <1>3
  <2>3. CASE i \notin 1..Len(w)
    <3>1. PICK j \in 1..Len(w) : Ending(w[j], "hello")
      BY <1>5, <1>6, <1>11, <2>1, <2>3 DEF Ends
    <3>2. j \in 1..(i - 1)
      BY <3>1, <2>3, <1>1
    <3> QED
      BY <3>1, <3>2, <1>3
  <2> QED
    BY <2>2, <2>3
<1>12. ASSUME Proper(w, kinds), Proper(m, kinds) PROVE Proper(v, kinds)
  <2>1. \A i \in 1..Len(v) : (i \in 1..Len(w) /\ v[i] = w[i]) \/ (i - Len(w) \in 1..Len(m) /\ v[i] = m[i - Len(w)])
    BY <1>3, <1>5, <1>6
  <2> QED
    BY <1>12, <2>1 DEF Proper
<1> QED
  BY <1>7, <1>8, <1>9, <1>10, <1>11, <1>12 DEF v

\* The two forms of a message end it once.
LEMMA MessageEnds ==
    ASSUME NEW kind, NEW ok, NEW m, NEW k, NEW kinds, kind \in Kinds, ok \in BOOLEAN,
           m = Whole(kind, ok) \/ m = Split(kind, ok)
    PROVE  /\ m \in Seq(Units) /\ m # <<>>
           /\ Ends(m, k) <=> k = kind
           /\ Single(m, k)
           /\ (ok \/ kind \in kinds \ {"work", "signal"}) /\ (m = Split(kind, ok) => kind \notin {"hello", "login"}) =>
                 Proper(m, kinds)
<1>1. <<"whole", kind, ok>> \in Units /\ <<"head", kind, ok>> \in Units /\ <<"tail", kind, ok>> \in Units /\ Part \in Units
  BY DEF Units
<1>2. Part[1] = "part"
  BY DEF Part
<1>3. CASE m = Whole(kind, ok)
  <2>1. m = <<Part, <<"whole", kind, ok>>>>
    BY <1>3 DEF Whole
  <2>2. m \in Seq(Units) /\ m # <<>> /\ Len(m) = 2
    BY <2>1, <1>1
  <2>3. m[1] = Part /\ m[2] = <<"whole", kind, ok>>
    BY <2>1
  <2>4. \A i \in 1..Len(m) : i = 1 \/ i = 2
    BY <2>2
  <2>5. ~Ending(m[1], k) /\ (Ending(m[2], k) <=> k = kind)
    BY <2>3, <1>2 DEF Ending
  <2>6. Ends(m, k) <=> k = kind
    BY <2>2, <2>4, <2>5 DEF Ends
  <2>7. Single(m, k)
    BY <2>4, <2>5 DEF Single
  <2>8. ok \/ kind \in kinds \ {"work", "signal"} => Proper(m, kinds)
    BY <2>3, <2>4, <1>2 DEF Proper
  <2> QED
    BY <2>2, <2>6, <2>7, <2>8
<1>4. CASE m = Split(kind, ok)
  <2>1. m = <<Part, <<"head", kind, ok>>, Part, <<"tail", kind, ok>>>>
    BY <1>4 DEF Split
  <2>2. m \in Seq(Units) /\ m # <<>> /\ Len(m) = 4
    BY <2>1, <1>1
  <2>3. m[1] = Part /\ m[2] = <<"head", kind, ok>> /\ m[3] = Part /\ m[4] = <<"tail", kind, ok>>
    BY <2>1
  <2>4. \A i \in 1..Len(m) : i = 1 \/ i = 2 \/ i = 3 \/ i = 4
    BY <2>2
  <2>5. ~Ending(m[1], k) /\ ~Ending(m[2], k) /\ ~Ending(m[3], k) /\ (Ending(m[4], k) <=> k = kind)
    BY <2>3, <1>2 DEF Ending
  <2>6. Ends(m, k) <=> k = kind
    BY <2>2, <2>4, <2>5 DEF Ends
  <2>7. Single(m, k)
    BY <2>4, <2>5 DEF Single
  <2>8. (ok \/ kind \in kinds \ {"work", "signal"}) /\ kind \notin {"hello", "login"} => Proper(m, kinds)
    BY <2>3, <2>4, <1>2 DEF Proper
  <2> QED
    BY <1>4, <2>2, <2>6, <2>7, <2>8
<1> QED
  BY <1>3, <1>4

\* Nothing is sent and nothing is used up.
LEMMA Kept ==
    ASSUME Wire' = Wire
    PROVE  /\ \A k : Coming(k)' <=> Coming(k)
           /\ \A k : Once(k)' <=> Once(k)
           /\ Ordered(Wire') <=> Ordered(Wire)
           /\ Proper(Wire', refused) <=> Proper(Wire, refused)
  BY DEF Coming, Once

\* The first unit is used up.
LEMMA Used ==
    ASSUME TypeOK, Wire # <<>>, Wire' = Tail(Wire)
    PROVE  /\ \A k : Coming(k)' => Coming(k)
           /\ \A k : Once(k) => Once(k)'
           /\ \A k : Ending(Head(Wire), k) => Coming(k)
           /\ \A k : Ending(Head(Wire), k) /\ Once(k) => ~Coming(k)'
           /\ \A k : Coming(k) /\ ~Ending(Head(Wire), k) => Coming(k)'
           /\ Ordered(Wire) /\ ~Ending(Head(Wire), "hello") => Ordered(Wire')
           /\ Ordered(Wire) => ~Ending(Head(Wire), "login")
           /\ Proper(Wire, refused) => Proper(Wire', refused)
           /\ Proper(Wire, refused) /\ Head(Wire)[1] \in {"whole", "tail"} /\ ~Head(Wire)[3] =>
                 Head(Wire)[2] \in refused \ {"work", "signal"}
<1>1. Wire \in Seq(Units)
  BY WireType
<1>2. \A k : /\ Ends(Wire, k) <=> Ending(Head(Wire), k) \/ Ends(Tail(Wire), k)
             /\ Single(Wire, k) => Single(Tail(Wire), k)
             /\ Single(Wire, k) /\ Ending(Head(Wire), k) => ~Ends(Tail(Wire), k)
  BY <1>1, TailEnds
<1>3. \A k : (Coming(k) <=> Ends(Wire, k)) /\ (Coming(k)' <=> Ends(Tail(Wire), k))
  BY DEF Coming
<1>4. \A k : (Once(k) <=> Single(Wire, k)) /\ (Once(k)' <=> Single(Tail(Wire), k))
  BY DEF Once
<1>5. /\ Ordered(Wire) /\ ~Ending(Head(Wire), "hello") => Ordered(Tail(Wire))
      /\ Ordered(Wire) => ~Ending(Head(Wire), "login")
      /\ Proper(Wire, refused) => Proper(Tail(Wire), refused)
      /\ Proper(Wire, refused) /\ Head(Wire)[1] \in {"whole", "tail"} /\ ~Head(Wire)[3] =>
            Head(Wire)[2] \in refused \ {"work", "signal"}
  BY <1>1, TailOrdered
<1>6. /\ \A k : Coming(k)' => Coming(k)
      /\ \A k : Ending(Head(Wire), k) => Coming(k)
      /\ \A k : Coming(k) /\ ~Ending(Head(Wire), k) => Coming(k)'
  BY <1>2, <1>3
<1>7. /\ \A k : Once(k) => Once(k)'
      /\ \A k : Ending(Head(Wire), k) /\ Once(k) => ~Coming(k)'
  BY <1>2, <1>3, <1>4
<1> QED
  BY <1>5, <1>6, <1>7

\* The end of what was sent is lost.
LEMMA Lost ==
    ASSUME TypeOK, NEW n \in 0..Len(net), net' = SubSeq(net, 1, n), plain' = plain, rx' = rx, ring' = ring
    PROVE  /\ \A k : Coming(k)' => Coming(k)
           /\ \A k : Once(k) => Once(k)'
           /\ Ordered(Wire) => Ordered(Wire')
           /\ Proper(Wire, refused) => Proper(Wire', refused)
<1>1. Len(Wire) \in Nat
  BY WireType
<1>2. Len(Wire') \in Nat /\ Len(Wire') <= Len(Wire) /\ \A i \in 1..Len(Wire') : Wire'[i] = Wire[i]
  BY LossWire
<1>3. PICK v : v = Wire'
  OBVIOUS
<1>4. Len(v) \in Nat /\ Len(v) <= Len(Wire) /\ \A i \in 1..Len(v) : v[i] = Wire[i]
  BY <1>2, <1>3
<1>5. \A k : /\ Ends(v, k) => Ends(Wire, k)
             /\ Single(Wire, k) => Single(v, k)
             /\ Ordered(Wire) => Ordered(v)
             /\ Proper(Wire, refused) => Proper(v, refused)
  BY <1>1, <1>4, PrefixEnds
<1> QED
  BY <1>3, <1>5 DEF Coming, Once

\* A message is sent.
LEMMA Sent ==
    ASSUME TypeOK, NEW kind, NEW ok, NEW m, kind \in Kinds, ok \in BOOLEAN, m = Whole(kind, ok) \/ (m = Split(kind, ok) /\ kind \notin {"hello", "login"}),
           net' = net \o m, plain' = plain, rx' = rx, ring' = ring,
           refused \subseteq refused', ok \/ kind \in refused' \ {"work", "signal"}
    PROVE  /\ \A k : Coming(k)' <=> Coming(k) \/ k = kind
           /\ \A k : Once(k) /\ (k = kind => ~Coming(k)) => Once(k)'
           /\ Ordered(Wire) /\ (kind = "login" => Coming("hello")) => Ordered(Wire')
           /\ Proper(Wire, refused) => Proper(Wire', refused')
           /\ net' \in Seq(Units)
<1>1. Wire \in Seq(Units)
  BY WireType
<1>2. PICK kinds : kinds = refused'
  OBVIOUS
<1>3. \A k : /\ m \in Seq(Units)
             /\ Ends(m, k) <=> k = kind
             /\ Single(m, k)
             /\ Proper(m, kinds)
  <2>1. ok \/ kind \in kinds \ {"work", "signal"}
    BY <1>2
  <2>2. SUFFICES ASSUME NEW k PROVE m \in Seq(Units) /\ (Ends(m, k) <=> k = kind) /\ Single(m, k) /\ Proper(m, kinds)
    OBVIOUS
  <2>3. /\ m \in Seq(Units) /\ (Ends(m, k) <=> k = kind) /\ Single(m, k)
        /\ (ok \/ kind \in kinds \ {"work", "signal"}) /\ (m = Split(kind, ok) => kind \notin {"hello", "login"}) =>
              Proper(m, kinds)
    BY MessageEnds, Zenon
  <2>4. m = Split(kind, ok) => kind \notin {"hello", "login"}
    <3>1. Len(Whole(kind, ok)) = 2 /\ Len(Split(kind, ok)) = 4
      BY DEF Whole, Split
    <3>0. 2 # 4
      OBVIOUS
    <3>2. Whole(kind, ok) # Split(kind, ok)
      BY <3>0, <3>1, Zenon
    <3> QED
      BY <3>2, Zenon
  <2> QED
    BY <2>1, <2>3, <2>4
<1>4. m \in Seq(Units)
  BY <1>3
<1>5. Wire' = Wire \o m /\ net' \in Seq(Units)
  BY <1>4, SendWire
<1>6. \A k : /\ Ends(Wire \o m, k) <=> Ends(Wire, k) \/ Ends(m, k)
             /\ Single(Wire, k) /\ Single(m, k) /\ ~(Ends(Wire, k) /\ Ends(m, k)) => Single(Wire \o m, k)
             /\ Ordered(Wire) /\ (Ends(m, "login") => Ends(Wire, "hello")) => Ordered(Wire \o m)
             /\ Proper(Wire, kinds) /\ Proper(m, kinds) => Proper(Wire \o m, kinds)
  BY <1>1, <1>4, JoinEnds
<1>7. \A k : (Coming(k) <=> Ends(Wire, k)) /\ (Coming(k)' <=> Ends(Wire \o m, k))
  BY <1>5 DEF Coming
<1>8. \A k : (Once(k) <=> Single(Wire, k)) /\ (Once(k)' <=> Single(Wire \o m, k))
  BY <1>5 DEF Once
<1>9. \A k : Coming(k)' <=> Coming(k) \/ k = kind
  BY <1>3, <1>6, <1>7
<1>10. \A k : Once(k) /\ (k = kind => ~Coming(k)) => Once(k)'
  BY <1>3, <1>6, <1>7, <1>8
<1>11. Ordered(Wire) /\ (kind = "login" => Coming("hello")) => Ordered(Wire')
  BY <1>3, <1>5, <1>6, <1>7
<1>12. Proper(Wire, refused) => Proper(Wire, kinds)
  BY <1>2 DEF Proper
<1>13. Proper(Wire, refused) => Proper(Wire', kinds)
  BY <1>3, <1>5, <1>6, <1>12
<1> QED
  BY <1>2, <1>5, <1>9, <1>10, <1>11, <1>13

-----------------------------------------------------------------------------
(* The type invariant in parts. *)

LoopTypes ==
    /\ role \in Roles /\ freed \in BOOLEAN
    /\ at \in {"idle", "input", "feed", "prepare", "output", "run", "end", "destroy"}
    /\ turn \in 0..(Turns - 1)
    /\ phase \in {"AUTHENTICATING", "REGISTERING", "REGISTERED", "FAILED", "STOPPED"}
    /\ result \in Results
LoginTypes ==
    /\ hs \in {"SEND", "HELLO", "LOGIN", "TAKEN"} /\ output \in 0..LoginWrites
    /\ login_left \in 0..ResponseTime /\ registration_left \in 0..ResponseTime /\ ping_left \in 0..ResponseTime
    /\ next_ping_left \in 0..HeartbeatTime
MessageTypes ==
    /\ proxy_queued \in BOOLEAN /\ ping_pending \in BOOLEAN /\ pongs \in 0..2 /\ started \in 0..2
    /\ tx \in {"none", "proxy", "ping"} /\ sealed \in {"none", "proxy", "ping"} \cup SignalKinds
    /\ signal \in Seq(SignalKinds) /\ awaiting \in BOOLEAN
ReceiveTypes ==
    /\ rx \in Seq(Units) /\ Len(rx) <= RxUnits
    /\ record \in BOOLEAN /\ plain \in Seq(Units \ {Part}) /\ Len(plain) <= 1 /\ half \in BOOLEAN
ResourceTypes ==
    /\ leased \in BOOLEAN /\ busy \in BOOLEAN /\ xtcp_busy \in BOOLEAN /\ other_cleared \in BOOLEAN
    /\ xtcp \in {"none", "created", "started", "cancelled"}
StreamTypes ==
    /\ transport_eof \in BOOLEAN /\ ring \in Seq(Units) /\ net \in Seq(Units) /\ closed \in {"no", "fin", "eof", "torn"}
ServerTypes ==
    /\ greeted \in 0..2 /\ owed \subseteq Kinds /\ arriving \in BOOLEAN /\ garbled \in BOOLEAN
    /\ refused \subseteq Kinds /\ misbehaved \in BOOLEAN

\* The parts are the type invariant.
LEMMA TypeParts ==
    TypeOK <=> LoopTypes /\ LoginTypes /\ MessageTypes /\ ReceiveTypes /\ ResourceTypes /\ StreamTypes /\ ServerTypes
  BY DEF TypeOK, LoopTypes, LoginTypes, MessageTypes, ReceiveTypes, ResourceTypes, StreamTypes, ServerTypes

\* The parts are the type invariant after a step too.
LEMMA NextTypes ==
    ASSUME LoopTypes', LoginTypes', MessageTypes', ReceiveTypes', ResourceTypes', StreamTypes', ServerTypes'
    PROVE  TypeOK'
  BY TypeParts, PTL

\* A part whose variables a step leaves alone is kept.
LEMMA TypesKept ==
    ASSUME TypeOK
    PROVE  /\ UNCHANGED <<ownVars, loopVars, phase, result>> => LoopTypes'
           /\ UNCHANGED <<loginVars, timers>> => LoginTypes'
           /\ UNCHANGED <<messageVars, sendVars, signalVars>> => MessageTypes'
           /\ UNCHANGED receiveVars => ReceiveTypes'
           /\ UNCHANGED resourceVars => ResourceTypes'
           /\ UNCHANGED <<transport_eof, streamVars>> => StreamTypes'
           /\ UNCHANGED serverVars => ServerTypes'
<1>1. LoopTypes /\ UNCHANGED <<ownVars, loopVars, phase, result>> => LoopTypes'
  BY DEF LoopTypes, ownVars, loopVars
<1>2. LoginTypes /\ UNCHANGED <<loginVars, timers>> => LoginTypes'
  BY DEF LoginTypes, loginVars, timers
<1>3. MessageTypes /\ UNCHANGED <<messageVars, sendVars, signalVars>> => MessageTypes'
  BY DEF MessageTypes, messageVars, sendVars, signalVars
<1>4. ReceiveTypes /\ UNCHANGED receiveVars => ReceiveTypes'
  BY DEF ReceiveTypes, receiveVars
<1>5. ResourceTypes /\ UNCHANGED resourceVars => ResourceTypes'
  BY DEF ResourceTypes, resourceVars
<1>6. StreamTypes /\ UNCHANGED <<transport_eof, streamVars>> => StreamTypes'
  BY DEF StreamTypes, streamVars
<1>7. ServerTypes /\ UNCHANGED serverVars => ServerTypes'
  BY DEF ServerTypes, serverVars
<1> QED
  BY <1>1, <1>2, <1>3, <1>4, <1>5, <1>6, <1>7, TypeParts

-----------------------------------------------------------------------------
(* The end of a session. *)

\* What a result says of the server is so.
Justified(code) ==
    /\ code = "PROTOCOL_ERROR" => misbehaved
    /\ code = "NEGOTIATION_FAILED" => misbehaved \/ "hello" \in refused
    /\ code = "LOGIN_REJECTED" => misbehaved \/ "login" \in refused
    /\ code = "PROXY_REJECTED" => misbehaved \/ "proxy" \in refused
    /\ code = "AUTHENTICATION_FAILED" => misbehaved \/ "pong" \in refused

\* The results that say nothing of the server.
LEMMA Neutral == \A code : code \notin Refusals \cup {"PROTOCOL_ERROR"} => Justified(code)
  BY DEF Justified, Refusals

\* The promise about accusations, for the result of a session.
LEMMA AccusedWhen == ServerNeverAccused <=> Justified(result)
  BY DEF Justified, ServerNeverAccused, Refusals

\* fail() keeps the invariant.
LEMMA FailInv ==
    ASSUME Inv, result = "OK", NEW code \in Results \ {"OK"}, fail(code), Justified(code),
           at' \in {"idle", "destroy"}, turn' \in 0..(Turns - 1)
    PROVE  Inv'
<1>1. TypeOK /\ Looping /\ Phased /\ Sending
  BY DEF Inv
<1>2. result' \in {code, "STORAGE_ERROR"}
  BY DEF fail
<1>3. result' \in Results /\ result' # "OK"
  BY <1>2 DEF Results, Refusals
<1>4. /\ hs' = "TAKEN" /\ output' = 0 /\ tx' = "none" /\ sealed' = "none" /\ signal' = <<>> /\ awaiting' = FALSE
      /\ rx' = <<>> /\ record' = FALSE /\ plain' = <<>> /\ half' = FALSE /\ ping_pending' = FALSE /\ other_cleared' = TRUE
  BY DEF fail, clear
<1>5. leased' \in {leased, FALSE} /\ xtcp_busy' \in {xtcp_busy, FALSE} /\ xtcp' \in {"cancelled", "none"}
  BY DEF fail, clear
<1>6. /\ phase' \in {"STOPPED", "FAILED"} /\ busy' \in {busy, FALSE}
      /\ ring' = <<>> /\ net' = <<>> /\ closed' = "no"
      /\ login_left' = 0 /\ registration_left' = 0 /\ ping_left' = 0 /\ next_ping_left' = 0
      /\ greeted' = 0 /\ owed' = {} /\ arriving' = FALSE
  BY DEF fail, work_cancel
<1>7. /\ role' = role /\ freed' = freed /\ proxy_queued' = proxy_queued /\ pongs' = pongs /\ started' = started
      /\ transport_eof' = transport_eof /\ garbled' = garbled /\ refused' = refused /\ misbehaved' = misbehaved
  BY DEF fail, ownVars
<1>8. TypeOK'
  <2>0. LoopTypes /\ MessageTypes /\ ResourceTypes /\ StreamTypes /\ ServerTypes
    BY <1>1, TypeParts
  <2>1. <<>> \in Seq(Units) /\ <<>> \in Seq(Units \ {Part}) /\ <<>> \in Seq(SignalKinds) /\ Len(<<>>) = 0
    BY EmptySeq
  <2>2. LoopTypes'
    BY <1>3, <1>6, <1>7, <2>0 DEF LoopTypes
  <2>3. LoginTypes'
    BY <1>4, <1>6, Sizes DEF LoginTypes
  <2>4. MessageTypes'
    BY <1>4, <1>7, <2>0, <2>1 DEF MessageTypes
  <2>5. ReceiveTypes'
    <3>1. 0 <= RxUnits /\ 0 <= 1
      BY Sizes
    <3>2. rx' \in Seq(Units) /\ Len(rx') = 0
      BY <1>4, <2>1, Zenon
    <3>3. plain' \in Seq(Units \ {Part}) /\ Len(plain') = 0
      BY <1>4, <2>1, Zenon
    <3>4. record' \in BOOLEAN /\ half' \in BOOLEAN
      BY <1>4
    <3> QED
      BY <3>1, <3>2, <3>3, <3>4, Zenon DEF ReceiveTypes
  <2>6. ResourceTypes'
    BY <1>4, <1>5, <1>6, <2>0 DEF ResourceTypes
  <2>7. StreamTypes'
    BY <1>6, <1>7, <2>0, <2>1 DEF StreamTypes
  <2>8. ServerTypes'
    <3>1. greeted' \in 0..2
      BY <1>6
    <3>3. owed' \subseteq Kinds
      BY <1>6, Zenon
    <3>4. arriving' \in BOOLEAN
      BY <1>6
    <3>2. garbled' \in BOOLEAN /\ misbehaved' \in BOOLEAN /\ refused' \subseteq Kinds
      BY <1>7, <2>0, Zenon DEF ServerTypes
    <3> QED
      BY <3>1, <3>2, <3>3, <3>4, Zenon DEF ServerTypes
  <2> QED
    BY <2>2, <2>3, <2>4, <2>5, <2>6, <2>7, <2>8, NextTypes
<1>9. ~freed
  BY <1>1 DEF Looping
<1>10. Looping'
  BY <1>3, <1>4, <1>6, <1>7, <1>9 DEF Looping
<1>11. Phased'
  BY <1>1, <1>3, <1>4, <1>6, <1>7 DEF Phased
<1>12. Sending'
  BY <1>1, <1>4, <1>6, <1>7 DEF Sending
<1>13. Honest'
  BY <1>3 DEF Honest
<1>14. Justified(result)'
  BY <1>2, <1>7 DEF Justified
<1>15. ServerNeverAccused'
  BY <1>14, AccusedWhen, PTL
<1> QED
  BY <1>8, <1>10, <1>11, <1>12, <1>13, <1>15 DEF Inv

\* A part ends nothing; the other units have a place in a frame, a kind and an answer.
LEMMA UnitType ==
    /\ Part \in Units /\ Part[1] = "part"
    /\ \A u \in Units : u # Part => u[1] \in {"head", "tail", "whole"} /\ u[2] \in Kinds /\ u[3] \in BOOLEAN
  BY DEF Units, Part

\* The first unit is the next of the plaintext, or of control_rx when there is no plaintext.
LEMMA Front ==
    ASSUME TypeOK
    PROVE  /\ plain = <<>> /\ rx # <<>> => Wire # <<>> /\ Head(Wire) = Head(rx) /\ Head(rx) \in Units
           /\ plain # <<>> => Wire # <<>> /\ Head(Wire) = plain[1] /\ plain[1] \in Units \ {Part}
<1>1. plain \in Seq(Units) /\ rx \in Seq(Units) /\ ring \in Seq(Units) /\ net \in Seq(Units)
  BY WireType
<1>2. ASSUME plain = <<>>, rx # <<>> PROVE Wire # <<>> /\ Head(Wire) = Head(rx) /\ Head(rx) \in Units
  <2>1. rx \o ring # <<>> /\ Head(rx \o ring) = Head(rx) /\ Head(rx) \in Units
    BY <1>1, <1>2, HeadOff
  <2>2. rx \o ring \in Seq(Units)
    BY <1>1, ConcatProperties
  <2>3. (rx \o ring) \o net # <<>> /\ Head((rx \o ring) \o net) = Head(rx \o ring)
    BY <1>1, <2>1, <2>2, HeadOff
  <2>4. <<>> \o rx = rx
    BY <1>1, ConcatEmptySeq
  <2> QED
    BY <1>2, <2>1, <2>3, <2>4 DEF Wire
<1>3. ASSUME plain # <<>> PROVE Wire # <<>> /\ Head(Wire) = plain[1] /\ plain[1] \in Units \ {Part}
  <2>1. plain \o rx \in Seq(Units) /\ (plain \o rx) \o ring \in Seq(Units)
    BY <1>1, ConcatProperties
  <2>2. plain \o rx # <<>> /\ Head(plain \o rx) = Head(plain)
    BY <1>1, <1>3, HeadOff
  <2>3. (plain \o rx) \o ring # <<>> /\ Head((plain \o rx) \o ring) = Head(plain \o rx)
    BY <1>1, <2>1, <2>2, HeadOff
  <2>4. ((plain \o rx) \o ring) \o net # <<>> /\ Head(((plain \o rx) \o ring) \o net) = Head((plain \o rx) \o ring)
    BY <1>1, <2>1, <2>3, HeadOff
  <2>5. plain \in Seq(Units \ {Part})
    BY DEF TypeOK
  <2>6. Head(plain) \in Units \ {Part}
    BY <1>3, <2>5, HeadTailProperties
  <2>7. Head(plain) = plain[1]
    OBVIOUS
  <2> QED
    BY <2>2, <2>3, <2>4, <2>6, <2>7 DEF Wire
<1> QED
  BY <1>2, <1>3

\* What the first unit says of a server that keeps to the protocol.
LEMMA FrontHonest ==
    ASSUME Inv, result = "OK", ~misbehaved, Wire # <<>>, Head(Wire)[1] \in {"whole", "tail"}
    PROVE  /\ Coming(Head(Wire)[2])
           /\ Early => Head(Wire)[2] # "login"
           /\ ~Head(Wire)[3] => Head(Wire)[2] \in refused \ {"work", "signal"}
           /\ Head(Wire)[1] = "tail" => Head(Wire)[2] \notin {"hello", "login"}
           /\ Greeting /\ Answering
<1>1. Greeting /\ Answering /\ Proper(Wire, refused) /\ TypeOK
  BY DEF Inv, Honest
<1>2. Wire \in Seq(Units)
  BY <1>1, WireType
<1>3. Ending(Head(Wire), Head(Wire)[2])
  BY DEF Ending
<1>4. Ends(Wire, Head(Wire)[2])
  BY <1>2, <1>3, TailEnds
<1>5. Early => Ordered(Wire)
  BY <1>1 DEF Greeting
<1>6. Ordered(Wire) => ~Ending(Head(Wire), "login")
  BY <1>2, TailOrdered
<1>7. /\ ~Head(Wire)[3] => Head(Wire)[2] \in refused \ {"work", "signal"}
      /\ Head(Wire)[1] = "tail" => Head(Wire)[2] \notin {"hello", "login"}
  BY <1>1, <1>2, TailOrdered
<1>8. Head(Wire)[2] = "login" => Ending(Head(Wire), "login")
  BY <1>3
<1> QED
  BY <1>1, <1>4, <1>5, <1>6, <1>7, <1>8 DEF Coming

\* A session that is in a step has not ended.
LEMMA Live ==
    ASSUME Inv, at \notin {"idle", "destroy"}
    PROVE  result = "OK" /\ ~freed /\ phase \in {"AUTHENTICATING", "REGISTERING", "REGISTERED"}
  BY DEF Inv, Looping, Phased

\* fail() in a step.
LEMMA StepFailsInv ==
    ASSUME Inv, result = "OK", NEW code, code \in Results \ {"OK"}, StepFails(code), Justified(code)
    PROVE  Inv'
<1>1. fail(code) /\ at' \in {"idle", "destroy"} /\ turn' \in 0..(Turns - 1)
  BY Sizes DEF StepFails
<1> QED
  BY <1>1, FailInv

\* A failure that says nothing of the server.
NeutralResults == {"WOULD_BLOCK", "SESSION_CLOSED", "TRUNCATED", "TIMEOUT", "NETWORK_ERROR", "NO_MEMORY", "STORAGE_ERROR"}

\* Such a failure keeps the invariant.
LEMMA NeutralFails ==
    ASSUME Inv, result = "OK", NEW code \in NeutralResults, StepFails(code)
    PROVE  Inv'
<1>1. code \in Results \ {"OK"} /\ code \notin Refusals \cup {"PROTOCOL_ERROR"}
  BY DEF NeutralResults, Results, Refusals
<1> QED
  BY <1>1, Neutral, StepFailsInv

\* efrp_session_cancel.
LEMMA CancelInv ==
    ASSUME Inv, Cancel
    PROVE  Inv'
<1>1. "CANCELLED" \in Results \ {"OK"} /\ "CANCELLED" \notin Refusals \cup {"PROTOCOL_ERROR"}
  BY DEF Results, Refusals
<1>2. Justified("CANCELLED")
  BY <1>1, Neutral
<1>3. result = "OK" /\ fail("CANCELLED") /\ at' \in {"idle", "destroy"} /\ turn' = turn
  BY DEF Cancel
<1>4. turn' \in 0..(Turns - 1)
  BY <1>3 DEF Inv, TypeOK
<1> QED
  BY <1>1, <1>2, <1>3, <1>4, FailInv

\* The failures of the deadlines, the transport, the store, the memory and the end of the input.
LEMMA NeutralStepsInv ==
    ASSUME Inv,
           \/ \E elapsed \in 0..MaxElapsed : StepExpires(elapsed)
           \/ TransportFails \/ ReadEof \/ HandshakeRefuses \/ ReaderFails \/ StartFails \/ ConsumeFails
           \/ PrepareFails \/ OutputFails \/ WorkFails \/ check_eof
    PROVE  Inv'
<1>1. control_finish \in {"TRUNCATED", "SESSION_CLOSED"}
  BY DEF control_finish
<1>2. ASSUME NEW elapsed \in 0..MaxElapsed, StepExpires(elapsed) PROVE Inv'
  <2>1. result = "OK" /\ StepFails("TIMEOUT")
    BY <1>2 DEF StepExpires, Running
  <2> QED
    BY <2>1, NeutralFails DEF NeutralResults
<1>3. ASSUME TransportFails PROVE Inv'
  <2>1. result = "OK" /\ StepFails("NETWORK_ERROR")
    BY <1>3, Live DEF TransportFails, Running
  <2> QED
    BY <2>1, NeutralFails DEF NeutralResults
<1>4. ASSUME ReadEof PROVE Inv'
  <2>1. result = "OK" /\ StepFails(control_finish)
    BY <1>4, Live DEF ReadEof
  <2>2. control_finish \in NeutralResults
    BY <1>1 DEF NeutralResults
  <2> QED
    BY <2>1, <2>2, NeutralFails
<1>5. ASSUME HandshakeRefuses PROVE Inv'
  <2>1. result = "OK" /\ StepFails("WOULD_BLOCK")
    BY <1>5, Live DEF HandshakeRefuses, Feeding
  <2> QED
    BY <2>1, NeutralFails DEF NeutralResults
<1>6. ASSUME ReaderFails \/ ConsumeFails PROVE Inv'
  <2>1. result = "OK" /\ StepFails("STORAGE_ERROR")
    BY <1>6, Live DEF ReaderFails, Feeding, ConsumeFails, Parsing
  <2> QED
    BY <2>1, NeutralFails DEF NeutralResults
<1>7. ASSUME StartFails \/ OutputFails PROVE Inv'
  <2>1. result = "OK" /\ StepFails("NETWORK_ERROR")
    BY <1>7, Live DEF StartFails, Parsing, OutputFails
  <2> QED
    BY <2>1, NeutralFails DEF NeutralResults
<1>8. ASSUME PrepareFails \/ WorkFails PROVE Inv'
  <2>1. result = "OK" /\ StepFails("NO_MEMORY")
    BY <1>8, Live DEF PrepareFails, WorkFails
  <2> QED
    BY <2>1, NeutralFails DEF NeutralResults
<1>9. ASSUME check_eof PROVE Inv'
  <2> DEFINE code == IF closed = "torn" THEN "TRUNCATED" ELSE control_finish
  <2>1. result = "OK" /\ StepFails(code)
    BY <1>9, Live DEF check_eof
  <2>2. code \in NeutralResults
    BY <1>1 DEF NeutralResults
  <2> HIDE DEF code
  <2> QED
    BY <2>1, <2>2, NeutralFails
<1> QED
  BY <1>2, <1>3, <1>4, <1>5, <1>6, <1>7, <1>8, <1>9

\* accept_hello and accept_login accuse the server of what it did.
LEMMA HandshakeFailsInv ==
    ASSUME Inv, HandshakeFails
    PROVE  Inv'
<1>1. TypeOK /\ Looping /\ at = "feed" /\ phase = "AUTHENTICATING" /\ hs \in {"HELLO", "LOGIN"} /\ Unit[1] = "whole"
  BY DEF Inv, HandshakeFails, HandshakeReads, Feeding, Frame
<1>2. result = "OK" /\ plain = <<>> /\ rx # <<>>
  BY <1>1, Live DEF Looping
<1>3. Wire # <<>> /\ Head(Wire) = Unit /\ Unit \in Units
  BY <1>1, <1>2, Front DEF Unit
<1>4. Unit[2] \in Kinds
  BY <1>1, <1>3, UnitType
<1>5. ASSUME ~misbehaved
      PROVE  /\ Coming(Unit[2]) /\ Greeting /\ Answering
             /\ hs = "HELLO" => Unit[2] # "login"
             /\ ~Unit[3] => Unit[2] \in refused \ {"work", "signal"}
  BY <1>1, <1>2, <1>3, <1>5, FrontHonest DEF Early
<1>6. ASSUME ~misbehaved PROVE Unit[2] = IF hs = "HELLO" THEN "hello" ELSE "login"
  <2>1. ~Coming("proxy") /\ ~Coming("pong") /\ ~Coming("signal") /\ ~Coming("work")
    BY <1>1, <1>5, <1>6 DEF Answering, Asked
  <2>2. Unit[2] \in {"hello", "login"}
    BY <1>4, <1>5, <1>6, <2>1 DEF Kinds
  <2>3. hs = "LOGIN" => ~Coming("hello")
    BY <1>1, <1>5, <1>6 DEF Greeting, Early
  <2> QED
    BY <1>1, <1>5, <1>6, <2>2, <2>3
<1>7. CASE hs = "HELLO" /\ Unit[2] = "hello" /\ ~Unit[3] /\ StepFails("NEGOTIATION_FAILED")
  <2>1. "NEGOTIATION_FAILED" \in Results \ {"OK"}
    BY DEF Results, Refusals
  <2>2. Justified("NEGOTIATION_FAILED")
    BY <1>5, <1>7 DEF Justified
  <2> QED
    BY <1>2, <1>7, <2>1, <2>2, StepFailsInv
<1>8. CASE hs = "LOGIN" /\ Unit[2] = "login" /\ ~Unit[3] /\ StepFails("LOGIN_REJECTED")
  <2>1. "LOGIN_REJECTED" \in Results \ {"OK"}
    BY DEF Results, Refusals
  <2>2. Justified("LOGIN_REJECTED")
    BY <1>5, <1>8 DEF Justified
  <2> QED
    BY <1>2, <1>8, <2>1, <2>2, StepFailsInv
<1>9. CASE Unit[2] # (IF hs = "HELLO" THEN "hello" ELSE "login") /\ StepFails("PROTOCOL_ERROR")
  <2>1. "PROTOCOL_ERROR" \in Results \ {"OK"}
    BY DEF Results, Refusals
  <2>2. Justified("PROTOCOL_ERROR")
    BY <1>6, <1>9 DEF Justified
  <2> QED
    BY <1>2, <1>9, <2>1, <2>2, StepFailsInv
<1>10. CASE StepFails("NO_MEMORY")
  BY <1>2, <1>10, NeutralFails DEF NeutralResults
<1> QED
  BY <1>7, <1>8, <1>9, <1>10 DEF HandshakeFails

\* accept_control accuses the server of what it did.
LEMMA RefusedFrameInv ==
    ASSUME Inv, RefusedFrame
    PROVE  Inv'
<1>1. TypeOK /\ at = "input" /\ phase # "AUTHENTICATING" /\ plain # <<>> /\ Message[1] # "head"
  BY DEF Inv, RefusedFrame, Parsing
<1>2. result = "OK" /\ phase \in {"REGISTERING", "REGISTERED"}
  BY <1>1, Live
<1>3. Wire # <<>> /\ Head(Wire) = Message /\ Message \in Units \ {Part}
  BY <1>1, Front DEF Message
<1>4. Message[2] \in Kinds /\ Message[1] \in {"whole", "tail"}
  BY <1>1, <1>3, UnitType
<1>5. ASSUME ~misbehaved
      PROVE  /\ Coming(Message[2]) /\ Greeting /\ Answering
             /\ ~Message[3] => Message[2] \in refused \ {"work", "signal"}
  BY <1>2, <1>3, <1>4, <1>5, FrontHonest
<1>6. ASSUME ~misbehaved PROVE Expected(Message[2])
  <2>1. ~Coming("hello") /\ ~Coming("login")
    BY <1>1, <1>5, <1>6 DEF Greeting
  <2>2. CASE Message[2] = "proxy"
    BY <1>5, <1>6, <2>2 DEF Answering, Asked, Expected
  <2>3. CASE Message[2] = "pong"
    BY <1>5, <1>6, <2>3 DEF Answering, Asked, Expected
  <2>4. CASE Message[2] = "signal"
    BY <1>5, <1>6, <2>4 DEF Answering, Asked, Expected
  <2>5. CASE Message[2] = "work"
    BY <1>2, <1>5, <1>6, <2>5 DEF Answering, Expected
  <2> QED
    BY <1>4, <1>5, <1>6, <2>1, <2>2, <2>3, <2>4, <2>5 DEF Kinds
<1>7. CASE ~Expected(Message[2]) /\ StepFails("PROTOCOL_ERROR")
  <2>1. "PROTOCOL_ERROR" \in Results \ {"OK"}
    BY DEF Results, Refusals
  <2>2. Justified("PROTOCOL_ERROR")
    BY <1>6, <1>7 DEF Justified
  <2> QED
    BY <1>2, <1>7, <2>1, <2>2, StepFailsInv
<1>8. CASE Message[2] \in {"work", "signal"} /\ ~Message[3] /\ StepFails("PROTOCOL_ERROR")
  <2>1. "PROTOCOL_ERROR" \in Results \ {"OK"}
    BY DEF Results, Refusals
  <2>2. Justified("PROTOCOL_ERROR")
    BY <1>5, <1>8 DEF Justified
  <2> QED
    BY <1>2, <1>8, <2>1, <2>2, StepFailsInv
<1>9. CASE Message[2] = "proxy" /\ ~Message[3] /\ StepFails("PROXY_REJECTED")
  <2>1. "PROXY_REJECTED" \in Results \ {"OK"}
    BY DEF Results, Refusals
  <2>2. Justified("PROXY_REJECTED")
    BY <1>5, <1>9 DEF Justified
  <2> QED
    BY <1>2, <1>9, <2>1, <2>2, StepFailsInv
<1>10. CASE Message[2] = "pong" /\ ~Message[3] /\ StepFails("AUTHENTICATION_FAILED")
  <2>1. "AUTHENTICATION_FAILED" \in Results \ {"OK"}
    BY DEF Results, Refusals
  <2>2. Justified("AUTHENTICATION_FAILED")
    BY <1>5, <1>10 DEF Justified
  <2> QED
    BY <1>2, <1>10, <2>1, <2>2, StepFailsInv
<1>11. CASE StepFails("NO_MEMORY")
  BY <1>2, <1>11, NeutralFails DEF NeutralResults
<1> QED
  BY <1>7, <1>8, <1>9, <1>10, <1>11 DEF RefusedFrame

-----------------------------------------------------------------------------
(* Sessions that have ended. *)

\* The invariant of a session that has ended.
LEMMA Over ==
    ASSUME Inv, result # "OK", result' = result, TypeOK', at' \in {"idle", "destroy"}, hs' = "TAKEN",
           freed' => at' = "idle" /\ ~leased' /\ ~busy' /\ xtcp' = "none",
           phase' = phase, pongs' = pongs, started' = started, garbled' = garbled, arriving' = arriving,
           signal' \in {signal, <<>>}, sealed' \in {sealed, "none"}, Sending',
           refused' = refused, misbehaved' = misbehaved
    PROVE  Inv'
<1>1. Looping /\ Phased /\ Sending /\ ServerNeverAccused
  BY DEF Inv
<1>2. hs = "TAKEN" /\ phase # "AUTHENTICATING"
  BY <1>1 DEF Looping, Phased
<1>3. Looping'
  BY <1>1 DEF Looping
<1>4. Phased'
  BY <1>1, <1>2 DEF Phased
<1>5. Honest'
  BY DEF Honest
<1>6. Justified(result)
  BY <1>1, AccusedWhen
<1>7. Justified(result)'
  BY <1>6 DEF Justified
<1>8. ServerNeverAccused'
  BY <1>7, AccusedWhen, PTL
<1> QED
  BY <1>3, <1>4, <1>5, <1>8 DEF Inv

\* step(), cancel() and drain() of a session that has ended.
LEMMA DrainInv ==
    ASSUME Inv, Drain
    PROVE  Inv'
<1>1. TypeOK /\ Looping /\ Sending /\ at = "idle" /\ result # "OK" /\ ~freed
  BY DEF Inv, Drain
<1>2. /\ UNCHANGED <<ownVars, loopVars, phase, result>> /\ UNCHANGED <<loginVars, timers>>
      /\ UNCHANGED <<messageVars, sendVars, signalVars>> /\ UNCHANGED receiveVars
      /\ UNCHANGED <<transport_eof, streamVars>> /\ UNCHANGED serverVars
  BY DEF Drain, ended, contents, loopVars, messageVars
<1>3. ResourceTypes'
  <2>1. busy' \in {busy, FALSE} /\ xtcp_busy' \in {xtcp_busy, FALSE} /\ leased' = leased /\ xtcp' = xtcp /\ other_cleared' = other_cleared
    BY DEF Drain, work_cancel
  <2>2. ResourceTypes
    BY <1>1, TypeParts
  <2> QED
    BY <2>1, <2>2 DEF ResourceTypes
<1>4. TypeOK'
  BY <1>1, <1>2, <1>3, TypesKept, NextTypes
<1>5. /\ at' = at /\ freed' = freed /\ hs' = hs /\ phase' = phase /\ result' = result /\ pongs' = pongs /\ started' = started
      /\ signal' = signal /\ sealed' = sealed /\ tx' = tx /\ xtcp' = xtcp
      /\ arriving' = arriving /\ garbled' = garbled /\ refused' = refused /\ misbehaved' = misbehaved
  BY <1>2 DEF Drain, ownVars, loopVars, loginVars, messageVars, sendVars, signalVars, serverVars
<1>6. hs = "TAKEN"
  BY <1>1 DEF Looping
<1>7. Sending'
  BY <1>1, <1>5 DEF Sending, HasXtcp
<1> QED
  BY <1>1, <1>4, <1>5, <1>6, <1>7, Over

\* efrp_session_destroy frees a session that holds nothing.
LEMMA DestroyInv ==
    ASSUME Inv, Destroy
    PROVE  Inv'
<1>1. TypeOK /\ Looping /\ Sending /\ result # "OK" /\ ~freed /\ at' = "idle" /\ busy' \in {busy, FALSE}
  BY DEF Inv, Destroy, work_cancel
<1>2. hs = "TAKEN"
  BY <1>1 DEF Looping
<1>3. /\ UNCHANGED <<role, turn, phase, result, proxy_queued, pongs, started>> /\ UNCHANGED timers
      /\ UNCHANGED <<transport_eof, streamVars>> /\ UNCHANGED serverVars
  BY DEF Destroy
<1>4. /\ phase' = phase /\ result' = result /\ pongs' = pongs /\ started' = started
      /\ arriving' = arriving /\ garbled' = garbled /\ refused' = refused /\ misbehaved' = misbehaved
  BY <1>3 DEF serverVars
<1>5. CASE busy' /\ UNCHANGED <<contents, leased, xtcp, xtcp_busy, other_cleared, freed>>
  <2>1. /\ UNCHANGED <<loginVars, timers>> /\ UNCHANGED <<messageVars, sendVars, signalVars>> /\ UNCHANGED receiveVars
    BY <1>3, <1>5 DEF contents, messageVars
  <2>2. LoopTypes'
    <3>1. LoopTypes
      BY <1>1, TypeParts
    <3>2. role' = role /\ turn' = turn /\ freed' = freed
      BY <1>3, <1>5
    <3> QED
      BY <1>1, <1>4, <3>1, <3>2 DEF LoopTypes
  <2>3. ResourceTypes'
    <3>1. ResourceTypes
      BY <1>1, TypeParts
    <3> QED
      BY <1>1, <1>5, <3>1 DEF ResourceTypes
  <2>4. TypeOK'
    BY <1>1, <1>3, <2>1, <2>2, <2>3, TypesKept, NextTypes
  <2>5. signal' = signal /\ sealed' = sealed /\ tx' = tx /\ hs' = hs /\ freed' = freed /\ xtcp' = xtcp
    BY <1>5, <2>1 DEF loginVars, sendVars, signalVars
  <2>6. Sending'
    BY <1>1, <1>4, <2>5 DEF Sending, HasXtcp
  <2> QED
    BY <1>1, <1>2, <1>4, <2>4, <2>5, <2>6, Over
<1>6. CASE ~busy' /\ \E cleanup \in {"OK", "WOULD_BLOCK", "STORAGE_ERROR"} : clear(cleanup) /\ freed' = (cleanup = "OK")
  <2>1. PICK cleanup \in {"OK", "WOULD_BLOCK", "STORAGE_ERROR"} : clear(cleanup) /\ freed' = (cleanup = "OK")
    BY <1>6
  <2>2. /\ hs' = "TAKEN" /\ output' = 0 /\ tx' = "none" /\ sealed' = "none" /\ signal' = <<>> /\ awaiting' = FALSE
        /\ rx' = <<>> /\ record' = FALSE /\ plain' = <<>> /\ half' = FALSE /\ ping_pending' = FALSE /\ other_cleared' = TRUE
    BY <2>1 DEF clear
  <2>3. leased' \in {leased, FALSE} /\ xtcp_busy' \in {xtcp_busy, FALSE} /\ xtcp' \in {"cancelled", "none"}
    BY <2>1 DEF clear
  <2>4. freed' => ~leased' /\ xtcp' = "none"
    <3>1. freed' => cleanup = "OK"
      BY <2>1
    <3>2. cleanup = IF xtcp' # "none" THEN "WOULD_BLOCK" ELSE IF leased' THEN "STORAGE_ERROR" ELSE "OK"
      BY <2>1 DEF clear
    <3> QED
      BY <3>1, <3>2
  <2>5. TypeOK'
    <3>0. LoopTypes /\ LoginTypes /\ MessageTypes /\ ResourceTypes
      BY <1>1, TypeParts
    <3>1. <<>> \in Seq(Units) /\ <<>> \in Seq(Units \ {Part}) /\ <<>> \in Seq(SignalKinds) /\ Len(<<>>) = 0
      BY EmptySeq
    <3>2. LoopTypes'
      <4>1. freed' \in BOOLEAN
        BY <2>1
      <4>2. role' = role /\ turn' = turn
        BY <1>3
      <4> QED
        BY <1>1, <1>4, <3>0, <4>1, <4>2 DEF LoopTypes
    <3>3. LoginTypes'
      BY <1>3, <2>2, <3>0, Sizes DEF LoginTypes, timers
    <3>4. MessageTypes'
      BY <1>3, <2>2, <3>0, <3>1 DEF MessageTypes
    <3>5. ReceiveTypes'
      <4>1. 0 <= RxUnits /\ 0 <= 1
        BY Sizes
      <4>2. rx' \in Seq(Units) /\ Len(rx') = 0
        BY <2>2, <3>1, Zenon
      <4>3. plain' \in Seq(Units \ {Part}) /\ Len(plain') = 0
        BY <2>2, <3>1, Zenon
      <4>4. record' \in BOOLEAN /\ half' \in BOOLEAN
        BY <2>2
      <4> QED
        BY <4>1, <4>2, <4>3, <4>4, Zenon DEF ReceiveTypes
    <3>6. ResourceTypes'
      BY <1>1, <2>2, <2>3, <3>0 DEF ResourceTypes
    <3> QED
      BY <1>1, <1>3, <3>2, <3>3, <3>4, <3>5, <3>6, TypesKept, NextTypes
  <2>6. ~arriving
    BY <1>1 DEF Looping
  <2>7. Sending'
    BY <1>1, <1>4, <2>2, <2>6 DEF Sending
  <2> QED
    BY <1>1, <1>4, <1>6, <2>2, <2>4, <2>5, <2>7, Over
<1> QED
  BY <1>5, <1>6 DEF Destroy

-----------------------------------------------------------------------------
(* Sessions that go on: the loop, the transport and control_rx. *)

\* What a step shows to keep the invariant.
LEMMA GoesOn ==
    ASSUME Inv, result = "OK", ~freed, result' = result, freed' = freed, at' # "destroy",
           at' = "feed" => plain' = <<>> /\ rx' # <<>>, TypeOK', Phased', Sending', Honest'
    PROVE  Inv'
<1>1. Looping'
  BY DEF Looping
<1>2. Justified(result)'
  BY DEF Justified
<1>3. ServerNeverAccused'
  BY <1>2, AccusedWhen, PTL
<1> QED
  BY <1>1, <1>3 DEF Inv

\* What is known of the server is kept when it is left alone and no message has come or gone.
LEMMA HonestSame ==
    ASSUME Honest, \A k : Coming(k)' <=> Coming(k), \A k : Once(k) => Once(k)', Ordered(Wire) => Ordered(Wire'),
           Proper(Wire, refused) => Proper(Wire', refused), result' = result, role' = role, phase' = phase, hs' = hs, greeted' = greeted, closed' = closed,
           tx' = tx, sealed' = sealed, owed' = owed, signal' = signal, awaiting' = awaiting, proxy_queued' = proxy_queued,
           ping_pending' = ping_pending, HasXtcp' = HasXtcp, refused' = refused, misbehaved' = misbehaved
    PROVE  Honest'
<1>1. SUFFICES ASSUME result = "OK", ~misbehaved PROVE Greeting' /\ Answering' /\ Proper(Wire', refused')
  BY DEF Honest
<1>2. Greeting /\ Answering /\ Proper(Wire, refused)
  BY <1>1 DEF Honest
<1>3. (\A k : Coming(k)' <=> Coming(k)) /\ (\A k : Once(k) => Once(k)') /\ (Ordered(Wire) => Ordered(Wire'))
  OBVIOUS
<1>4. Early' <=> Early
  BY DEF Early
<1>5. Greeting'
  BY <1>2, <1>3, <1>4 DEF Greeting
<1>6. visitor_role' <=> visitor_role
  BY DEF visitor_role
<1>7. Answering'
  BY <1>2, <1>3, <1>6 DEF Answering, Asked
<1> QED
  BY <1>2, <1>5, <1>7

\* What is known of the server and of its messages is kept when they are left alone.
LEMMA HonestKept ==
    ASSUME Honest, Wire' = Wire, result' = result, role' = role, phase' = phase, hs' = hs, greeted' = greeted, closed' = closed,
           tx' = tx, sealed' = sealed, owed' = owed, signal' = signal, awaiting' = awaiting, proxy_queued' = proxy_queued,
           ping_pending' = ping_pending, HasXtcp' = HasXtcp, refused' = refused, misbehaved' = misbehaved
    PROVE  Honest'
<1>1. /\ \A k : Coming(k)' <=> Coming(k)
      /\ \A k : Once(k) => Once(k)'
      /\ Ordered(Wire) => Ordered(Wire')
      /\ Proper(Wire, refused) => Proper(Wire', refused)
  BY Kept
<1> QED
  BY <1>1, HonestSame

\* A step that only moves in the loop.
LEMMA LoopStep ==
    ASSUME Inv, at \notin {"idle", "destroy"},
           UNCHANGED <<ownVars, phase, result, loginVars, messageVars, sendVars, signalVars, timers, receiveVars, resourceVars,
                       transport_eof, streamVars, serverVars>>,
           at' \in {"idle", "input", "feed", "prepare", "output", "run", "end"}, turn' \in 0..(Turns - 1),
           at' = "feed" => plain = <<>> /\ rx # <<>>
    PROVE  Inv'
<1>1. TypeOK /\ Phased /\ Sending /\ Honest /\ result = "OK" /\ ~freed
  BY Live DEF Inv
<1>2. /\ UNCHANGED <<ownVars, phase, result>> /\ UNCHANGED <<loginVars, timers>>
      /\ UNCHANGED <<messageVars, sendVars, signalVars>> /\ UNCHANGED receiveVars /\ UNCHANGED resourceVars
      /\ UNCHANGED <<transport_eof, streamVars>> /\ UNCHANGED serverVars
  OBVIOUS
<1>3. LoopTypes'
  <2>1. LoopTypes
    BY <1>1, TypeParts
  <2> QED
    BY <1>2, <2>1 DEF LoopTypes, ownVars
<1>4. TypeOK'
  BY <1>1, <1>2, <1>3, TypesKept, NextTypes
<1>5. /\ role' = role /\ freed' = freed /\ phase' = phase /\ result' = result /\ hs' = hs /\ output' = output
      /\ proxy_queued' = proxy_queued /\ ping_pending' = ping_pending /\ pongs' = pongs /\ started' = started
      /\ tx' = tx /\ sealed' = sealed /\ signal' = signal /\ awaiting' = awaiting
  BY <1>2 DEF ownVars, loginVars, messageVars, sendVars, signalVars
<1>6. /\ rx' = rx /\ plain' = plain /\ xtcp' = xtcp /\ transport_eof' = transport_eof /\ ring' = ring /\ net' = net
      /\ closed' = closed /\ greeted' = greeted /\ owed' = owed /\ arriving' = arriving /\ garbled' = garbled
      /\ refused' = refused /\ misbehaved' = misbehaved
  BY <1>2 DEF receiveVars, resourceVars, streamVars, serverVars
<1>7. Phased'
  BY <1>1, <1>5, <1>6 DEF Phased
<1>8. Sending'
  BY <1>1, <1>5, <1>6 DEF Sending, HasXtcp
<1>9. Wire' = Wire /\ HasXtcp' = HasXtcp
  BY <1>6 DEF Wire, HasXtcp
<1>10. Honest'
  BY <1>1, <1>5, <1>6, <1>9, HonestKept
<1> QED
  BY <1>1, <1>4, <1>5, <1>6, <1>7, <1>8, <1>10, GoesOn

\* The next turn, or the end of the step.
LEMMA TurnType ==
    ASSUME TypeOK, NextTurn
    PROVE  at' \in {"input", "end"} /\ turn' \in 0..(Turns - 1)
  BY Sizes DEF TypeOK, NextTurn

\* control_input with nothing to read, no output after the end, and the end of a step.
LEMMA LoopStepsInv ==
    ASSUME Inv, ReadNothing \/ SkipOutput \/ WriteNothing \/ StepEnds
    PROVE  Inv'
<1>1. TypeOK /\ Phased
  BY DEF Inv
<1>2. turn \in 0..(Turns - 1)
  BY <1>1 DEF TypeOK
<1>3. ASSUME ReadNothing PROVE Inv'
  <2>1. at = "input" /\ turn' = turn /\ at' \in {"feed", "prepare"} /\ (at' = "feed" => rx # <<>>) /\ NoPlain
    BY <1>3 DEF ReadNothing
  <2>2. plain = <<>>
    BY <1>1, <2>1 DEF NoPlain, Phased
  <2> QED
    BY <1>2, <1>3, <2>1, <2>2, LoopStep DEF ReadNothing
<1>4. ASSUME SkipOutput PROVE Inv'
  <2>1. at = "prepare" /\ at' \in {"input", "end"} /\ turn' \in 0..(Turns - 1)
    BY <1>1, <1>4, TurnType DEF SkipOutput
  <2> QED
    BY <1>4, <2>1, LoopStep DEF SkipOutput
<1>5. ASSUME WriteNothing PROVE Inv'
  <2>1. /\ at = "output" /\ at' = "run" /\ turn' = turn
        /\ UNCHANGED <<ownVars, phase, result, messageVars, timers, receiveVars, resourceVars, transport_eof, streamVars>>
        /\ UNCHANGED <<awaiting, signal>> /\ UNCHANGED <<loginVars, sendVars>> /\ UNCHANGED serverVars
    BY <1>5 DEF WriteNothing, Outputs, ServerWaits
  <2>2. UNCHANGED <<ownVars, phase, result, loginVars, messageVars, sendVars, signalVars, timers, receiveVars, resourceVars,
                    transport_eof, streamVars, serverVars>>
    BY <2>1 DEF signalVars
  <2> QED
    BY <1>2, <2>1, <2>2, LoopStep
<1>6. ASSUME StepEnds PROVE Inv'
  <2>1. at = "end" /\ at' = "idle" /\ turn' = turn
    BY <1>6 DEF StepEnds
  <2> QED
    BY <1>2, <1>6, <2>1, LoopStep DEF StepEnds
<1> QED
  BY <1>3, <1>4, <1>5, <1>6

\* Nothing changes.
LEMMA StutterInv ==
    ASSUME Inv, UNCHANGED vars
    PROVE  Inv'
<1>1. /\ UNCHANGED <<ownVars, loopVars, phase, result>> /\ UNCHANGED <<loginVars, timers>>
      /\ UNCHANGED <<messageVars, sendVars, signalVars>> /\ UNCHANGED receiveVars /\ UNCHANGED resourceVars
      /\ UNCHANGED <<transport_eof, streamVars>> /\ UNCHANGED serverVars
  BY DEF vars
<1>2. TypeOK /\ Looping /\ Phased /\ Sending /\ Honest /\ ServerNeverAccused
  BY DEF Inv
<1>3. TypeOK'
  BY <1>1, <1>2, TypesKept, NextTypes
<1>4. /\ role' = role /\ freed' = freed /\ at' = at /\ phase' = phase /\ result' = result /\ hs' = hs /\ output' = output
      /\ proxy_queued' = proxy_queued /\ ping_pending' = ping_pending /\ pongs' = pongs /\ started' = started
      /\ tx' = tx /\ sealed' = sealed /\ signal' = signal /\ awaiting' = awaiting
  BY <1>1 DEF ownVars, loopVars, loginVars, messageVars, sendVars, signalVars
<1>5. /\ rx' = rx /\ plain' = plain /\ xtcp' = xtcp /\ busy' = busy /\ leased' = leased
      /\ transport_eof' = transport_eof /\ ring' = ring /\ net' = net
      /\ closed' = closed /\ greeted' = greeted /\ owed' = owed /\ arriving' = arriving /\ garbled' = garbled
      /\ refused' = refused /\ misbehaved' = misbehaved
  BY <1>1 DEF receiveVars, resourceVars, streamVars, serverVars
<1>6. Looping'
  BY <1>2, <1>4, <1>5 DEF Looping
<1>7. Phased'
  BY <1>2, <1>4, <1>5 DEF Phased
<1>8. Sending'
  BY <1>2, <1>4, <1>5 DEF Sending, HasXtcp
<1>9. Wire' = Wire /\ HasXtcp' = HasXtcp
  BY <1>5 DEF Wire, HasXtcp
<1>10. Honest'
  BY <1>2, <1>4, <1>5, <1>9, HonestKept
<1>11. Justified(result)
  BY <1>2, AccusedWhen
<1>12. Justified(result)'
  BY <1>4, <1>5, <1>11 DEF Justified
<1>13. ServerNeverAccused'
  BY <1>12, AccusedWhen, PTL
<1> QED
  BY <1>3, <1>6, <1>7, <1>8, <1>10, <1>13 DEF Inv

\* The end of the connection is reported when nothing is left of it.
LEMMA DeliverEof ==
    ASSUME TypeOK, Phased, result = "OK", NEW n \in 0..Len(net), Deliver(n)
    PROVE  /\ transport_eof' \in BOOLEAN /\ closed' = closed
           /\ transport_eof' => closed \in {"eof", "torn"} /\ net' = <<>>
<1>1. transport_eof' = (transport_eof \/ (closed \in {"eof", "torn"} /\ net' = <<>>)) /\ closed' = closed
  BY DEF Deliver
<1>2. transport_eof' \in BOOLEAN
  BY <1>1
<1>3. ASSUME transport_eof PROVE closed \in {"eof", "torn"} /\ net' = <<>>
  <2>1. closed \in {"eof", "torn"} /\ net = <<>>
    BY <1>3 DEF Phased
  <2>2. Len(net) = 0
    BY <2>1
  <2>3. net' = SubSeq(net, n + 1, Len(net))
    BY DEF Deliver
  <2>4. n + 1 \in Int /\ Len(net) \in Int /\ Len(net) < n + 1
    BY <2>2
  <2>5. SubSeq(net, n + 1, Len(net)) = <<>>
    BY <2>4, SubSeqEmpty
  <2> QED
    BY <2>1, <2>3, <2>5
<1> QED
  BY <1>1, <1>2, <1>3

\* The time that is left.
LEMMA AfterType ==
    ASSUME NEW time \in Nat, NEW left \in 0..time, NEW elapsed \in Nat
    PROVE  After(left, elapsed) \in 0..time
  BY DEF After

\* A step begins.
LEMMA StepBeginsInv ==
    ASSUME Inv, NEW elapsed \in 0..MaxElapsed, NEW n \in 0..Len(net), StepBegins(elapsed, n)
    PROVE  Inv'
<1>1. TypeOK /\ Phased /\ Sending /\ Honest /\ result = "OK" /\ ~freed /\ Deliver(n) /\ at' = "input"
  BY DEF Inv, StepBegins, Running
<1>2. /\ UNCHANGED <<ownVars, turn, phase, result>> /\ UNCHANGED loginVars
      /\ UNCHANGED <<messageVars, sendVars, signalVars>> /\ UNCHANGED receiveVars /\ UNCHANGED resourceVars
      /\ UNCHANGED serverVars
  BY DEF StepBegins
<1>3. /\ role' = role /\ freed' = freed /\ phase' = phase /\ result' = result /\ hs' = hs /\ output' = output
      /\ proxy_queued' = proxy_queued /\ ping_pending' = ping_pending /\ pongs' = pongs /\ started' = started
      /\ tx' = tx /\ sealed' = sealed /\ signal' = signal /\ awaiting' = awaiting
  BY <1>2 DEF ownVars, loginVars, messageVars, sendVars, signalVars
<1>4. /\ rx' = rx /\ plain' = plain /\ xtcp' = xtcp /\ greeted' = greeted /\ owed' = owed /\ arriving' = arriving
      /\ garbled' = garbled /\ refused' = refused /\ misbehaved' = misbehaved
  BY <1>2 DEF receiveVars, resourceVars, serverVars
<1>5. /\ transport_eof' \in BOOLEAN /\ closed' = closed
      /\ transport_eof' => closed \in {"eof", "torn"} /\ net' = <<>>
  BY <1>1, DeliverEof
<1>6. Wire' = Wire /\ ring' \in Seq(Units) /\ net' \in Seq(Units)
  BY <1>1, <1>4, DeliverWire
<1>7. LoopTypes'
  <2>1. LoopTypes
    BY <1>1, TypeParts
  <2> QED
    BY <1>1, <1>2, <2>1 DEF LoopTypes, ownVars
<1>8. LoginTypes'
  <2>1. LoginTypes
    BY <1>1, TypeParts
  <2>2. elapsed \in Nat
    BY Sizes
  <2>3. /\ login_left' = After(login_left, elapsed) /\ registration_left' = After(registration_left, elapsed)
        /\ ping_left' = After(ping_left, elapsed) /\ next_ping_left' = After(next_ping_left, elapsed)
    BY DEF StepBegins
  <2>4. /\ login_left' \in 0..ResponseTime /\ registration_left' \in 0..ResponseTime /\ ping_left' \in 0..ResponseTime
        /\ next_ping_left' \in 0..HeartbeatTime
    BY <2>1, <2>2, <2>3, AfterType, Sizes DEF LoginTypes
  <2> QED
    BY <1>3, <2>1, <2>4 DEF LoginTypes
<1>9. StreamTypes'
  <2>1. StreamTypes
    BY <1>1, TypeParts
  <2> QED
    BY <1>5, <1>6, <2>1 DEF StreamTypes
<1>10. TypeOK'
  BY <1>1, <1>2, <1>7, <1>8, <1>9, TypesKept, NextTypes
<1>11. Phased'
  BY <1>1, <1>3, <1>4, <1>5 DEF Phased
<1>12. HasXtcp' = HasXtcp
  BY <1>4 DEF HasXtcp
<1>13. Sending'
  BY <1>1, <1>3, <1>4 DEF Sending, HasXtcp
<1>14. Honest'
  BY <1>1, <1>3, <1>4, <1>5, <1>6, <1>12, HonestKept
<1> QED
  BY <1>1, <1>3, <1>10, <1>11, <1>13, <1>14, GoesOn

\* The work of a turn without an XTCP controller.
LEMMA WorkInv ==
    ASSUME Inv, NEW n \in 0..Len(net), Work(n)
    PROVE  Inv'
<1>1. TypeOK /\ Phased /\ Sending /\ Honest /\ result = "OK" /\ ~freed /\ Deliver(n) /\ at = "run"
  BY Live DEF Inv, Work
<1>2. at' \in {"input", "end"} /\ turn' \in 0..(Turns - 1)
  BY <1>1, TurnType DEF Work
<1>3. /\ UNCHANGED <<ownVars, phase, result>> /\ UNCHANGED <<loginVars, timers>>
      /\ UNCHANGED <<messageVars, sendVars, signalVars>> /\ UNCHANGED receiveVars /\ UNCHANGED serverVars
  BY DEF Work, RunVars
<1>4. /\ role' = role /\ freed' = freed /\ phase' = phase /\ result' = result /\ hs' = hs /\ output' = output
      /\ proxy_queued' = proxy_queued /\ ping_pending' = ping_pending /\ pongs' = pongs /\ started' = started
      /\ tx' = tx /\ sealed' = sealed /\ signal' = signal /\ awaiting' = awaiting
  BY <1>3 DEF ownVars, loginVars, messageVars, sendVars, signalVars
<1>5. /\ rx' = rx /\ plain' = plain /\ greeted' = greeted /\ owed' = owed /\ arriving' = arriving
      /\ garbled' = garbled /\ refused' = refused /\ misbehaved' = misbehaved
  BY <1>3 DEF receiveVars, serverVars
<1>6. leased' = leased /\ xtcp' = xtcp /\ other_cleared' = other_cleared /\ xtcp_busy' = xtcp_busy /\ busy' \in {busy, FALSE}
  BY DEF Work, RunVars
<1>7. /\ transport_eof' \in BOOLEAN /\ closed' = closed
      /\ transport_eof' => closed \in {"eof", "torn"} /\ net' = <<>>
  BY <1>1, DeliverEof
<1>8. Wire' = Wire /\ ring' \in Seq(Units) /\ net' \in Seq(Units)
  BY <1>1, <1>5, DeliverWire
<1>9. LoopTypes'
  <2>1. LoopTypes
    BY <1>1, TypeParts
  <2> QED
    BY <1>2, <1>4, <2>1 DEF LoopTypes
<1>10. ResourceTypes'
  <2>1. ResourceTypes
    BY <1>1, TypeParts
  <2> QED
    BY <1>6, <2>1 DEF ResourceTypes
<1>11. StreamTypes'
  <2>1. StreamTypes
    BY <1>1, TypeParts
  <2> QED
    BY <1>7, <1>8, <2>1 DEF StreamTypes
<1>12. TypeOK'
  BY <1>1, <1>3, <1>9, <1>10, <1>11, TypesKept, NextTypes
<1>13. Phased'
  BY <1>1, <1>4, <1>5, <1>7 DEF Phased
<1>14. HasXtcp' = HasXtcp
  BY <1>6 DEF HasXtcp
<1>15. Sending'
  BY <1>1, <1>4, <1>5, <1>6 DEF Sending, HasXtcp
<1>16. Honest'
  BY <1>1, <1>4, <1>5, <1>7, <1>8, <1>14, HonestKept
<1> QED
  BY <1>1, <1>2, <1>4, <1>12, <1>13, <1>15, <1>16, GoesOn

\* A request of the XTCP controller, its report, and nothing to send.
LEMMA SignalFrames ==
    /\ Request \in Seq(SignalKinds) /\ Report \in Seq(SignalKinds) /\ Requesting(Request) /\ ~Requesting(Report)
    /\ ~Requesting(<<>>) /\ Report # <<>>
<1>1. SignalRecords \in Nat /\ SignalRecords > 0
  BY Sizes
<1>2. Request \in Seq(SignalKinds) /\ Len(Request) = SignalRecords
  BY <1>1 DEF Request, SignalKinds
<1>3. \A i \in 1..SignalRecords : Request[i] = IF i = SignalRecords THEN "request end" ELSE "request"
  BY DEF Request
<1>4. Request[SignalRecords] = "request end" /\ \A i \in 1..(SignalRecords - 1) : Request[i] = "request"
  <2>1. SignalRecords \in 1..SignalRecords
    BY <1>1
  <2>2. \A i \in 1..(SignalRecords - 1) : i \in 1..SignalRecords /\ i # SignalRecords
    BY <1>1
  <2> QED
    BY <1>3, <2>1, <2>2, Zenon
<1>5. Request # <<>>
  BY <1>1, <1>2
<1>6. Report \in Seq(SignalKinds) /\ Len(Report) = 1 /\ Report[1] = "report" /\ Report # <<>>
  BY DEF Report, SignalKinds
<1>7. Requesting(Request)
  BY <1>2, <1>4, <1>5 DEF Requesting
<1>8. ~Requesting(Report)
  BY <1>6 DEF Requesting
<1> QED
  BY <1>2, <1>6, <1>7, <1>8 DEF Requesting

\* The work of a turn of the XTCP controller.
LEMMA XtcpWorkInv ==
    ASSUME Inv, NEW n \in 0..Len(net), XtcpWork(n)
    PROVE  Inv'
<1>1. TypeOK /\ Phased /\ Sending /\ Honest /\ result = "OK" /\ ~freed /\ Deliver(n) /\ at = "run" /\ HasXtcp /\ pongs > 0
  BY Live DEF Inv, XtcpWork
<1>2. at' \in {"input", "end"} /\ turn' \in 0..(Turns - 1)
  BY <1>1, TurnType DEF XtcpWork
<1>3. /\ UNCHANGED <<ownVars, phase, result>> /\ UNCHANGED <<loginVars, timers>>
      /\ UNCHANGED <<messageVars, sendVars>> /\ UNCHANGED receiveVars /\ UNCHANGED serverVars
  BY DEF XtcpWork, RunVars
<1>4. /\ role' = role /\ freed' = freed /\ phase' = phase /\ result' = result /\ hs' = hs /\ output' = output
      /\ proxy_queued' = proxy_queued /\ ping_pending' = ping_pending /\ pongs' = pongs /\ started' = started
      /\ tx' = tx /\ sealed' = sealed
  BY <1>3 DEF ownVars, loginVars, messageVars, sendVars
<1>5. /\ rx' = rx /\ plain' = plain /\ greeted' = greeted /\ owed' = owed /\ arriving' = arriving
      /\ garbled' = garbled /\ refused' = refused /\ misbehaved' = misbehaved
  BY <1>3 DEF receiveVars, serverVars
<1>6. leased' = leased /\ xtcp' = xtcp /\ other_cleared' = other_cleared /\ busy' = busy
  BY DEF XtcpWork, RunVars
<1>7. xtcp_busy' \in BOOLEAN
  BY DEF XtcpWork
<1>8. \/ signal' = signal /\ awaiting' = awaiting
      \/ signal = <<>> /\ ~awaiting /\ signal' = Request /\ awaiting' = TRUE
      \/ signal = <<>> /\ ~awaiting /\ signal' = Report /\ awaiting' = awaiting
  BY DEF XtcpWork, signalVars
<1>9. /\ transport_eof' \in BOOLEAN /\ closed' = closed
      /\ transport_eof' => closed \in {"eof", "torn"} /\ net' = <<>>
  BY <1>1, DeliverEof
<1>10. Wire' = Wire /\ ring' \in Seq(Units) /\ net' \in Seq(Units)
  BY <1>1, <1>5, DeliverWire
<1>11. phase = "REGISTERED"
  BY <1>1 DEF Phased
<1>12. TypeOK'
  <2>0. LoopTypes /\ MessageTypes /\ ResourceTypes /\ StreamTypes
    BY <1>1, TypeParts
  <2>1. LoopTypes'
    BY <1>2, <1>4, <2>0 DEF LoopTypes
  <2>2. ResourceTypes'
    BY <1>6, <1>7, <2>0 DEF ResourceTypes
  <2>3. StreamTypes'
    BY <1>9, <1>10, <2>0 DEF StreamTypes
  <2>4. signal' \in Seq(SignalKinds)
    BY <1>8, <2>0, SignalFrames DEF MessageTypes
  <2>5. awaiting' \in BOOLEAN
    BY <1>8, <2>0 DEF MessageTypes
  <2>6. MessageTypes'
    BY <1>4, <2>0, <2>4, <2>5 DEF MessageTypes
  <2> QED
    BY <1>1, <1>3, <2>1, <2>2, <2>3, <2>6, TypesKept, NextTypes
<1>13. Phased'
  BY <1>1, <1>4, <1>5, <1>9 DEF Phased
<1>14. HasXtcp' = HasXtcp
  BY <1>6 DEF HasXtcp
<1>15. CASE signal' = signal /\ awaiting' = awaiting
  <2>1. Sending'
    BY <1>1, <1>4, <1>5, <1>6, <1>15 DEF Sending, HasXtcp
  <2>2. Honest'
    BY <1>1, <1>4, <1>5, <1>9, <1>10, <1>14, <1>15, HonestKept
  <2> QED
    BY <1>1, <1>2, <1>4, <1>12, <1>13, <2>1, <2>2, GoesOn
<1>16. ASSUME signal = <<>>, ~awaiting, signal' = Report \/ (signal' = Request /\ awaiting') PROVE Inv'
  <2>1. ~Requesting(signal) /\ sealed # "request" /\ ~(arriving /\ sealed # "request end")
    BY <1>1, <1>16, SignalFrames DEF Sending
  <2>2. signal' = Report \/ Requesting(signal')
    BY <1>16, SignalFrames
  <2>3. HasXtcp'
    BY <1>1, <1>14
  <2>4. Sending'
    BY <1>1, <1>4, <1>5, <1>11, <2>1, <2>2, <2>3 DEF Sending
  <2>5. ASSUME ~misbehaved PROVE Greeting' /\ Answering' /\ Proper(Wire', refused')
    <3>1. Greeting /\ Answering /\ Proper(Wire, refused)
      BY <1>1, <2>5 DEF Honest
    <3>2. (\A k : Coming(k)' <=> Coming(k)) /\ (\A k : Once(k)' <=> Once(k)) /\ (Ordered(Wire') <=> Ordered(Wire))
      BY <1>10, Kept
    <3>3. (Early' <=> Early) /\ (visitor_role' <=> visitor_role)
      BY <1>4 DEF Early, visitor_role
    <3>4. Greeting'
      BY <1>4, <1>5, <1>9, <3>1, <3>2, <3>3 DEF Greeting
    <3>5. sealed # "request end" /\ "signal" \notin owed /\ ~Coming("signal") /\ Once("signal")
      BY <1>16, <3>1 DEF Answering, Asked
    <3>6. Requesting(signal') => awaiting'
      BY <1>16, SignalFrames
    <3>7. Asked(Requesting(signal), sealed = "request end", "signal", HasXtcp /\ phase = "REGISTERED" /\ awaiting)'
      BY <1>4, <1>5, <1>11, <2>3, <3>2, <3>5, <3>6 DEF Asked
    <3>8. Answering'
      BY <1>4, <1>5, <3>1, <3>2, <3>3, <3>7 DEF Answering, Asked
    <3> QED
      BY <1>5, <1>10, <3>1, <3>4, <3>8
  <2>6. Honest'
    BY <1>5, <2>5 DEF Honest
  <2> QED
    BY <1>1, <1>2, <1>4, <1>12, <1>13, <2>4, <2>6, GoesOn
<1> QED
  BY <1>8, <1>15, <1>16

\* A unit that ends no message is used up.
LEMMA PartUsed ==
    ASSUME TypeOK, Wire # <<>>, Wire' = Tail(Wire), Head(Wire)[1] \notin {"whole", "tail"}
    PROVE  /\ \A k : Coming(k)' <=> Coming(k)
           /\ \A k : Once(k) => Once(k)'
           /\ Ordered(Wire) => Ordered(Wire')
           /\ Proper(Wire, refused) => Proper(Wire', refused)
<1>1. \A k : ~Ending(Head(Wire), k)
  BY DEF Ending
<1>2. /\ \A k : Coming(k)' => Coming(k)
      /\ \A k : Once(k) => Once(k)'
      /\ \A k : Coming(k) /\ ~Ending(Head(Wire), k) => Coming(k)'
      /\ Ordered(Wire) /\ ~Ending(Head(Wire), "hello") => Ordered(Wire')
      /\ Proper(Wire, refused) => Proper(Wire', refused)
  BY Used
<1> QED
  BY <1>1, <1>2

\* What is left of control_rx fits.
LEMMA FedType ==
    ASSUME TypeOK, rx # <<>>, rx' = Tail(rx)
    PROVE  rx' \in Seq(Units) /\ Len(rx') <= RxUnits
<1>1. rx \in Seq(Units) /\ Len(rx) <= RxUnits /\ Len(rx) \in Nat
  BY WireType, LenProperties DEF TypeOK
<1>2. rx' \in Seq(Units) /\ Len(rx') = Len(rx) - 1
  BY <1>1, HeadTailProperties
<1> QED
  BY <1>1, <1>2, Sizes

\* control_input reads the stream.
LEMMA ReadStreamInv ==
    ASSUME Inv, NEW n \in 1..RxUnits, ReadStream(n)
    PROVE  Inv'
<1>1. TypeOK /\ Phased /\ Sending /\ Honest /\ result = "OK" /\ ~freed
  BY Live DEF Inv, ReadStream
<1>2. /\ UNCHANGED <<ownVars, turn, phase, result>> /\ UNCHANGED <<loginVars, timers>>
      /\ UNCHANGED <<messageVars, sendVars, signalVars>> /\ UNCHANGED resourceVars /\ UNCHANGED serverVars
      /\ UNCHANGED <<record, plain, half, transport_eof, net, closed>>
  BY DEF ReadStream
<1>3. /\ role' = role /\ freed' = freed /\ phase' = phase /\ result' = result /\ hs' = hs /\ output' = output
      /\ proxy_queued' = proxy_queued /\ ping_pending' = ping_pending /\ pongs' = pongs /\ started' = started
      /\ tx' = tx /\ sealed' = sealed /\ signal' = signal /\ awaiting' = awaiting
  BY <1>2 DEF ownVars, loginVars, messageVars, sendVars, signalVars
<1>4. /\ xtcp' = xtcp /\ greeted' = greeted /\ owed' = owed /\ arriving' = arriving
      /\ garbled' = garbled /\ refused' = refused /\ misbehaved' = misbehaved
  BY <1>2 DEF resourceVars, serverVars
<1>5. /\ at = "input" /\ at' = "feed" /\ NoPlain /\ rx = <<>> /\ n = (IF Len(ring) > RxUnits THEN RxUnits ELSE Len(ring))
      /\ rx' = SubSeq(ring, 1, n) /\ ring' = SubSeq(ring, n + 1, Len(ring))
  BY DEF ReadStream
<1>6. plain = <<>>
  BY <1>1, <1>5 DEF NoPlain, Phased
<1>7. ring \in Seq(Units) /\ Len(ring) \in Nat
  BY <1>1, WireType, LenProperties
<1>8. n \in 0..Len(ring)
  BY <1>5, <1>7, Sizes
<1>9. Wire' = Wire /\ rx' \in Seq(Units) /\ ring' \in Seq(Units)
  BY <1>1, <1>2, <1>5, <1>8, ReadWire
<1>10. Len(rx') = n
  <2>1. \A i \in 1..n : ring[i] \in Units
    BY <1>7, <1>8, ElementOfSeq
  <2>2. n \in Int /\ 1 \in Int /\ 1 <= n
    BY Sizes
  <2>3. Len(SubSeq(ring, 1, n)) = IF 1 <= n THEN n - 1 + 1 ELSE 0
    BY <2>1, <2>2, SubSeqProperties
  <2> QED
    BY <1>5, <2>2, <2>3
<1>11. rx' # <<>> /\ Len(rx') <= RxUnits
  BY <1>9, <1>10, Sizes
<1>12. TypeOK'
  <2>0. LoopTypes /\ ReceiveTypes /\ StreamTypes
    BY <1>1, TypeParts
  <2>1. LoopTypes'
    BY <1>2, <1>5, <2>0 DEF LoopTypes, ownVars
  <2>2. ReceiveTypes'
    BY <1>2, <1>9, <1>11, <2>0 DEF ReceiveTypes
  <2>3. StreamTypes'
    BY <1>2, <1>9, <2>0 DEF StreamTypes
  <2> QED
    BY <1>1, <1>2, <2>1, <2>2, <2>3, TypesKept, NextTypes
<1>13. Phased'
  BY <1>1, <1>2, <1>3, <1>4 DEF Phased
<1>14. Sending' /\ HasXtcp' = HasXtcp
  BY <1>1, <1>3, <1>4 DEF Sending, HasXtcp
<1>15. Honest'
  BY <1>1, <1>2, <1>3, <1>4, <1>9, <1>14, HonestKept
<1>16. plain' = <<>>
  BY <1>2, <1>6
<1> QED
  BY <1>1, <1>3, <1>5, <1>11, <1>12, <1>13, <1>14, <1>15, <1>16, GoesOn

\* A unit of control_rx is used up by the handshake or by the record reader.
LEMMA FedInv ==
    ASSUME Inv, Feeding, FedUnit, Unit[1] \notin {"whole", "tail"} \/ misbehaved, record' \in BOOLEAN, leased' \in BOOLEAN,
           UNCHANGED <<ownVars, turn, phase, result, loginVars, messageVars, sendVars, signalVars, timers, plain, half,
                       busy, xtcp, xtcp_busy, other_cleared, transport_eof, streamVars, serverVars>>
    PROVE  Inv'
<1>1. TypeOK /\ Looping /\ Phased /\ Sending /\ Honest /\ result = "OK" /\ ~freed /\ at = "feed"
  BY Live DEF Inv, Feeding
<1>2. plain = <<>> /\ rx # <<>> /\ rx' = Tail(rx) /\ at' = IF rx' = <<>> THEN "prepare" ELSE "feed"
  BY <1>1 DEF Looping, FedUnit
<1>3. /\ UNCHANGED <<ownVars, turn, phase, result>> /\ UNCHANGED <<loginVars, timers>>
      /\ UNCHANGED <<messageVars, sendVars, signalVars>> /\ UNCHANGED serverVars /\ UNCHANGED <<transport_eof, streamVars>>
      /\ UNCHANGED <<plain, half, busy, xtcp, xtcp_busy, other_cleared>>
  OBVIOUS
<1>4. /\ role' = role /\ freed' = freed /\ phase' = phase /\ result' = result /\ hs' = hs /\ output' = output
      /\ proxy_queued' = proxy_queued /\ ping_pending' = ping_pending /\ pongs' = pongs /\ started' = started
      /\ tx' = tx /\ sealed' = sealed /\ signal' = signal /\ awaiting' = awaiting
  BY <1>3 DEF ownVars, loginVars, messageVars, sendVars, signalVars
<1>5. /\ xtcp' = xtcp /\ greeted' = greeted /\ owed' = owed /\ arriving' = arriving /\ ring' = ring /\ net' = net
      /\ garbled' = garbled /\ refused' = refused /\ misbehaved' = misbehaved /\ closed' = closed /\ plain' = plain
      /\ transport_eof' = transport_eof
  BY <1>3 DEF streamVars, serverVars
<1>6. Wire # <<>> /\ Head(Wire) = Head(rx) /\ Wire' = Tail(Wire)
  BY <1>1, <1>2, <1>5, UnitWire
<1>7. TypeOK'
  <2>0. LoopTypes /\ ReceiveTypes /\ ResourceTypes
    BY <1>1, TypeParts
  <2>1. LoopTypes'
    BY <1>2, <1>3, <2>0 DEF LoopTypes, ownVars
  <2>2. rx' \in Seq(Units) /\ Len(rx') <= RxUnits
    BY <1>1, <1>2, FedType
  <2>3. ReceiveTypes'
    BY <1>3, <2>0, <2>2 DEF ReceiveTypes
  <2>4. ResourceTypes'
    BY <1>3, <2>0 DEF ResourceTypes
  <2> QED
    BY <1>1, <1>3, <2>1, <2>3, <2>4, TypesKept, NextTypes
<1>8. Phased'
  BY <1>1, <1>4, <1>5 DEF Phased
<1>9. Sending' /\ HasXtcp' = HasXtcp
  BY <1>1, <1>4, <1>5 DEF Sending, HasXtcp
<1>10. CASE Unit[1] \notin {"whole", "tail"}
  <2>1. Head(Wire)[1] \notin {"whole", "tail"}
    BY <1>6, <1>10 DEF Unit
  <2>2. /\ \A k : Coming(k)' <=> Coming(k)
        /\ \A k : Once(k) => Once(k)'
        /\ Ordered(Wire) => Ordered(Wire')
        /\ Proper(Wire, refused) => Proper(Wire', refused)
    BY <1>1, <1>6, <2>1, PartUsed
  <2>3. Honest'
    BY <1>1, <1>4, <1>5, <1>9, <2>2, HonestSame
  <2> QED
    BY <1>1, <1>2, <1>4, <1>5, <1>7, <1>8, <1>9, <2>3, GoesOn
<1>11. CASE misbehaved
  <2>1. Honest'
    BY <1>5, <1>11 DEF Honest
  <2> QED
    BY <1>1, <1>2, <1>4, <1>5, <1>7, <1>8, <1>9, <2>1, GoesOn
<1> QED
  BY <1>10, <1>11

\* The handshake and the record reader are fed a part.
LEMMA PartsInv ==
    ASSUME Inv, HandshakePart \/ FeedPart
    PROVE  Inv'
<1>1. TypeOK /\ Looping
  BY DEF Inv
<1>2. ASSUME FeedPart PROVE Inv'
  <2>1. Unit[1] = "part" /\ Feeding /\ FedUnit
    BY <1>2, UnitType DEF FeedPart
  <2>2. record' \in BOOLEAN /\ leased' \in BOOLEAN
    BY <1>2 DEF FeedPart
  <2> QED
    BY <1>2, <2>1, <2>2, FedInv DEF FeedPart
<1>3. ASSUME HandshakePart PROVE Inv'
  <2>1. Feeding /\ at = "feed" /\ phase = "AUTHENTICATING" /\ Unit[1] # "whole" /\ FedUnit
    BY <1>3 DEF HandshakePart, HandshakeReads, Feeding, Frame
  <2>2. result = "OK" /\ plain = <<>> /\ rx # <<>>
    BY <1>1, <2>1, Live DEF Looping
  <2>3. Wire # <<>> /\ Head(Wire) = Unit /\ Unit \in Units
    BY <1>1, <2>2, Front DEF Unit
  <2>4. ASSUME Unit[1] = "tail", ~misbehaved PROVE FALSE
    <3>1. Coming(Unit[2]) /\ Unit[2] \notin {"hello", "login"} /\ Answering
      BY <2>2, <2>3, <2>4, FrontHonest
    <3>2. Unit[2] \in Kinds
      BY <2>3, <2>4, UnitType
    <3>3. ~Coming("proxy") /\ ~Coming("pong") /\ ~Coming("signal") /\ ~Coming("work")
      BY <2>1, <3>1 DEF Answering, Asked
    <3> QED
      BY <3>1, <3>2, <3>3 DEF Kinds
  <2>5. Unit[1] \notin {"whole", "tail"} \/ misbehaved
    BY <2>1, <2>4
  <2>6. UNCHANGED <<ownVars, turn, phase, result, loginVars, messageVars, sendVars, signalVars, timers, plain, half,
                    busy, xtcp, xtcp_busy, other_cleared, transport_eof, streamVars, serverVars>>
    BY <1>3 DEF HandshakePart, resourceVars
  <2>7. record' = record /\ leased' = leased
    BY <1>3 DEF HandshakePart, resourceVars
  <2>8. record' \in BOOLEAN /\ leased' \in BOOLEAN
    BY <1>1, <2>7 DEF TypeOK
  <2> QED
    BY <2>1, <2>5, <2>6, <2>8, FedInv
<1> QED
  BY <1>2, <1>3

\* The record reader has a record.
LEMMA FeedRecordInv ==
    ASSUME Inv, FeedRecord
    PROVE  Inv'
<1>1. TypeOK /\ Looping /\ Phased /\ Sending /\ Honest /\ result = "OK" /\ ~freed /\ at = "feed"
  BY Live DEF Inv, FeedRecord, Feeding
<1>2. /\ plain = <<>> /\ rx # <<>> /\ rx' = Tail(rx) /\ at' = "prepare" /\ record' = FALSE /\ plain' = <<Head(rx)>>
      /\ Head(rx) # Part /\ phase # "AUTHENTICATING"
  BY <1>1 DEF Looping, FeedRecord, Unit
<1>3. /\ UNCHANGED <<ownVars, turn, phase, result>> /\ UNCHANGED <<loginVars, timers>>
      /\ UNCHANGED <<messageVars, sendVars, signalVars>> /\ UNCHANGED serverVars /\ UNCHANGED <<transport_eof, streamVars>>
      /\ UNCHANGED resourceVars /\ half' = half
  BY DEF FeedRecord
<1>4. /\ role' = role /\ freed' = freed /\ phase' = phase /\ result' = result /\ hs' = hs /\ output' = output
      /\ proxy_queued' = proxy_queued /\ ping_pending' = ping_pending /\ pongs' = pongs /\ started' = started
      /\ tx' = tx /\ sealed' = sealed /\ signal' = signal /\ awaiting' = awaiting
  BY <1>3 DEF ownVars, loginVars, messageVars, sendVars, signalVars
<1>5. /\ xtcp' = xtcp /\ greeted' = greeted /\ owed' = owed /\ arriving' = arriving /\ ring' = ring /\ net' = net
      /\ garbled' = garbled /\ refused' = refused /\ misbehaved' = misbehaved /\ closed' = closed
      /\ transport_eof' = transport_eof
  BY <1>3 DEF resourceVars, streamVars, serverVars
<1>6. Wire' = Wire
  BY <1>1, <1>2, <1>5, RecordWire
<1>7. TypeOK'
  <2>0. LoopTypes /\ ReceiveTypes
    BY <1>1, TypeParts
  <2>1. LoopTypes'
    BY <1>2, <1>3, <2>0 DEF LoopTypes, ownVars
  <2>2. rx' \in Seq(Units) /\ Len(rx') <= RxUnits
    BY <1>1, <1>2, FedType
  <2>3. Head(rx) \in Units \ {Part}
    BY <1>1, <1>2, Front
  <2>4. plain' \in Seq(Units \ {Part}) /\ Len(plain') <= 1
    BY <1>2, <2>3
  <2>6. record' \in BOOLEAN /\ half' \in BOOLEAN
    BY <1>2, <1>3, <2>0 DEF ReceiveTypes
  <2>5. ReceiveTypes'
    BY <2>2, <2>4, <2>6, Zenon DEF ReceiveTypes
  <2> QED
    BY <1>1, <1>3, <2>1, <2>5, TypesKept, NextTypes
<1>8. Phased'
  BY <1>1, <1>2, <1>4, <1>5 DEF Phased
<1>9. Sending' /\ HasXtcp' = HasXtcp
  BY <1>1, <1>4, <1>5 DEF Sending, HasXtcp
<1>10. Honest'
  BY <1>1, <1>4, <1>5, <1>6, <1>9, HonestKept
<1> QED
  BY <1>1, <1>2, <1>4, <1>7, <1>8, <1>9, <1>10, GoesOn

-----------------------------------------------------------------------------
(* The login. *)

\* A frame of the server's answers is at the front of control_rx.
LEMMA HandshakeFront ==
    ASSUME Inv, HandshakeReads, Frame
    PROVE  /\ TypeOK /\ Looping /\ Phased /\ Sending /\ Honest /\ result = "OK" /\ ~freed /\ at = "feed"
           /\ phase = "AUTHENTICATING" /\ plain = <<>> /\ rx # <<>> /\ Wire # <<>> /\ Head(Wire) = Unit
           /\ Head(Wire) = Head(rx) /\ Ending(Head(Wire), Unit[2])
<1>1. TypeOK /\ Looping /\ Phased /\ Sending /\ Honest /\ at = "feed" /\ phase = "AUTHENTICATING" /\ Unit[1] = "whole"
  BY DEF Inv, HandshakeReads, Feeding, Frame
<1>2. result = "OK" /\ ~freed
  BY <1>1, Live
<1>3. plain = <<>> /\ rx # <<>>
  BY <1>1 DEF Looping
<1>4. Wire # <<>> /\ Head(Wire) = Unit /\ Head(Wire) = Head(rx)
  BY <1>1, <1>3, Front DEF Unit
<1>5. Ending(Unit, Unit[2])
  BY <1>1 DEF Ending
<1> QED
  BY <1>1, <1>2, <1>3, <1>4, <1>5

\* accept_hello.
LEMMA AcceptHelloInv ==
    ASSUME Inv, accept_hello
    PROVE  Inv'
<1>1. /\ TypeOK /\ Looping /\ Phased /\ Sending /\ Honest /\ result = "OK" /\ ~freed /\ at = "feed"
      /\ phase = "AUTHENTICATING" /\ plain = <<>> /\ rx # <<>> /\ Wire # <<>> /\ Head(Wire) = Head(rx)
  BY HandshakeFront DEF accept_hello
<1>2. Unit[2] = "hello" /\ hs = "HELLO" /\ hs' = "LOGIN" /\ rx' = Tail(rx) /\ at' = IF rx' = <<>> THEN "prepare" ELSE "feed"
  BY DEF accept_hello, FedUnit
<1>3. Ending(Head(Wire), "hello")
  BY <1>2, HandshakeFront DEF accept_hello
<1>4. /\ UNCHANGED <<ownVars, turn, phase, result>> /\ UNCHANGED timers
      /\ UNCHANGED <<messageVars, sendVars, signalVars>> /\ UNCHANGED serverVars /\ UNCHANGED <<transport_eof, streamVars>>
      /\ UNCHANGED resourceVars /\ UNCHANGED <<output, record, plain, half>>
  BY DEF accept_hello
<1>5. /\ role' = role /\ freed' = freed /\ phase' = phase /\ result' = result /\ output' = output
      /\ proxy_queued' = proxy_queued /\ ping_pending' = ping_pending /\ pongs' = pongs /\ started' = started
      /\ tx' = tx /\ sealed' = sealed /\ signal' = signal /\ awaiting' = awaiting
  BY <1>4 DEF ownVars, messageVars, sendVars, signalVars
<1>6. /\ xtcp' = xtcp /\ greeted' = greeted /\ owed' = owed /\ arriving' = arriving /\ ring' = ring /\ net' = net
      /\ garbled' = garbled /\ refused' = refused /\ misbehaved' = misbehaved /\ closed' = closed
      /\ transport_eof' = transport_eof /\ plain' = plain
  BY <1>4 DEF resourceVars, streamVars, serverVars
<1>7. Wire' = Tail(Wire)
  BY <1>1, <1>2, <1>6, UnitWire
<1>8. TypeOK'
  <2>0. LoopTypes /\ LoginTypes /\ ReceiveTypes
    BY <1>1, TypeParts
  <2>1. LoopTypes'
    BY <1>2, <1>4, <2>0 DEF LoopTypes, ownVars
  <2>2. LoginTypes'
    BY <1>2, <1>4, <2>0 DEF LoginTypes, timers
  <2>3. rx' \in Seq(Units) /\ Len(rx') <= RxUnits
    BY <1>1, <1>2, FedType
  <2>4. ReceiveTypes'
    BY <1>4, <2>0, <2>3 DEF ReceiveTypes
  <2> QED
    BY <1>1, <1>4, <2>1, <2>2, <2>4, TypesKept, NextTypes
<1>9. Phased'
  BY <1>1, <1>2, <1>5, <1>6 DEF Phased
<1>10. Sending'
  BY <1>1, <1>5, <1>6 DEF Sending, HasXtcp
<1>11. ASSUME ~misbehaved PROVE Greeting' /\ Answering' /\ Proper(Wire', refused')
  <2>1. Greeting /\ Answering /\ Proper(Wire, refused)
    BY <1>1, <1>11 DEF Honest
  <2>2. /\ \A k : Coming(k)' => Coming(k)
        /\ \A k : Once(k) => Once(k)'
        /\ \A k : Ending(Head(Wire), k) => Coming(k)
        /\ \A k : Ending(Head(Wire), k) /\ Once(k) => ~Coming(k)'
        /\ Proper(Wire, refused) => Proper(Wire', refused)
    BY <1>1, <1>7, Used
  <2>3. Coming("hello") /\ ~Coming("hello")'
    BY <1>3, <2>1, <2>2 DEF Greeting
  <2>4. ~Early'
    BY <1>2 DEF Early
  <2>5. greeted >= 1
    BY <2>1, <2>3 DEF Greeting
  <2>6. Greeting'
    BY <1>5, <1>6, <2>1, <2>2, <2>3, <2>4, <2>5 DEF Greeting
  <2>7. (visitor_role' <=> visitor_role) /\ (HasXtcp' <=> HasXtcp)
    BY <1>5, <1>6 DEF visitor_role, HasXtcp
  <2>8. Answering'
    BY <1>5, <1>6, <2>1, <2>2, <2>7 DEF Answering, Asked
  <2> QED
    BY <1>6, <2>1, <2>2, <2>6, <2>8
<1>12. Honest'
  BY <1>6, <1>11 DEF Honest
<1> QED
  BY <1>1, <1>2, <1>5, <1>6, <1>8, <1>9, <1>10, <1>12, GoesOn

\* accept_login and finish_login.
LEMMA FinishLoginInv ==
    ASSUME Inv, finish_login
    PROVE  Inv'
<1>1. /\ TypeOK /\ Looping /\ Phased /\ Sending /\ Honest /\ result = "OK" /\ ~freed /\ at = "feed"
      /\ phase = "AUTHENTICATING" /\ plain = <<>> /\ rx # <<>> /\ Wire # <<>> /\ Head(Wire) = Head(rx)
  BY HandshakeFront DEF finish_login
<1>2. /\ Unit[2] = "login" /\ hs = "LOGIN" /\ hs' = "TAKEN" /\ rx' = Tail(rx) /\ at' = "prepare"
      /\ phase' \in {"REGISTERING", "REGISTERED"}
  BY DEF finish_login
<1>3. Ending(Head(Wire), "login")
  BY <1>2, HandshakeFront DEF finish_login
<1>4. /\ UNCHANGED <<ownVars, turn, result>>
      /\ UNCHANGED <<messageVars, sendVars, signalVars>> /\ UNCHANGED serverVars /\ UNCHANGED <<transport_eof, streamVars>>
      /\ UNCHANGED resourceVars /\ UNCHANGED <<output, record, plain, half, ping_left>>
  BY DEF finish_login
<1>5. /\ role' = role /\ freed' = freed /\ result' = result /\ output' = output
      /\ proxy_queued' = proxy_queued /\ ping_pending' = ping_pending /\ pongs' = pongs /\ started' = started
      /\ tx' = tx /\ sealed' = sealed /\ signal' = signal /\ awaiting' = awaiting
  BY <1>4 DEF ownVars, messageVars, sendVars, signalVars
<1>6. /\ xtcp' = xtcp /\ greeted' = greeted /\ owed' = owed /\ arriving' = arriving /\ ring' = ring /\ net' = net
      /\ garbled' = garbled /\ refused' = refused /\ misbehaved' = misbehaved /\ closed' = closed
      /\ transport_eof' = transport_eof /\ plain' = plain
  BY <1>4 DEF resourceVars, streamVars, serverVars
<1>7. Wire' = Tail(Wire)
  BY <1>1, <1>2, <1>6, UnitWire
<1>8. TypeOK'
  <2>0. LoopTypes /\ LoginTypes /\ ReceiveTypes
    BY <1>1, TypeParts
  <2>1. LoopTypes'
    BY <1>2, <1>4, <2>0 DEF LoopTypes, ownVars
  <2>2. registration_left' \in {registration_left, ResponseTime} /\ next_ping_left' \in {next_ping_left, 0} /\ login_left' = 0
    BY DEF finish_login
  <2>3. LoginTypes'
    BY <1>2, <1>4, <2>0, <2>2, Sizes DEF LoginTypes
  <2>4. rx' \in Seq(Units) /\ Len(rx') <= RxUnits
    BY <1>1, <1>2, FedType
  <2>5. ReceiveTypes'
    BY <1>4, <2>0, <2>4 DEF ReceiveTypes
  <2> QED
    BY <1>1, <1>4, <2>1, <2>3, <2>5, TypesKept, NextTypes
<1>9. Phased'
  <2>1. pongs \in 0..2
    BY <1>1 DEF TypeOK
  <2>2. pongs = 0
    BY <1>1, <2>1 DEF Phased
  <2> QED
    BY <1>1, <1>2, <1>5, <1>6, <2>2 DEF Phased
<1>10. signal = <<>>
  BY <1>1 DEF Sending
<1>11. Sending'
  BY <1>1, <1>5, <1>6, <1>10 DEF Sending, HasXtcp
<1>12. ASSUME ~misbehaved PROVE Greeting' /\ Answering' /\ Proper(Wire', refused')
  <2>1. Greeting /\ Answering /\ Proper(Wire, refused)
    BY <1>1, <1>12 DEF Honest
  <2>2. /\ \A k : Coming(k)' => Coming(k)
        /\ \A k : Once(k) => Once(k)'
        /\ \A k : Ending(Head(Wire), k) => Coming(k)
        /\ \A k : Ending(Head(Wire), k) /\ Once(k) => ~Coming(k)'
        /\ Proper(Wire, refused) => Proper(Wire', refused)
    BY <1>1, <1>7, Used
  <2>3. Coming("login") /\ ~Coming("login")'
    BY <1>3, <2>1, <2>2 DEF Greeting
  <2>4. ~Early' /\ ~Early
    BY <1>2 DEF Early
  <2>5. greeted = 2
    BY <2>1, <2>3 DEF Greeting
  <2>6. ~Coming("hello")'
    BY <2>1, <2>2, <2>4 DEF Greeting
  <2>7. Greeting'
    BY <1>2, <1>6, <2>1, <2>2, <2>3, <2>4, <2>5, <2>6 DEF Greeting
  <2>8. /\ tx # "proxy" /\ sealed # "proxy" /\ "proxy" \notin owed /\ ~Coming("proxy") /\ Once("proxy")
        /\ tx # "ping" /\ sealed # "ping" /\ "pong" \notin owed /\ ~Coming("pong") /\ Once("pong")
        /\ ~Requesting(signal) /\ sealed # "request end" /\ "signal" \notin owed /\ ~Coming("signal") /\ Once("signal")
        /\ ~Coming("work")
    BY <1>1, <2>1 DEF Answering, Asked
  <2>9. Answering'
    BY <1>5, <1>6, <2>1, <2>2, <2>8 DEF Answering, Asked
  <2> QED
    BY <1>6, <2>1, <2>2, <2>7, <2>9
<1>13. Honest'
  BY <1>6, <1>12 DEF Honest
<1> QED
  BY <1>1, <1>2, <1>5, <1>8, <1>9, <1>11, <1>13, GoesOn

-----------------------------------------------------------------------------
(* The frames after the login. *)

\* What every frame that is taken leaves alone, and the unit that it uses up.
LEMMA TakenFacts ==
    ASSUME Inv, Parsing, Taken
    PROVE  /\ TypeOK /\ Phased /\ Sending /\ Honest /\ result = "OK" /\ ~freed /\ at' = "prepare"
           /\ phase \in {"REGISTERING", "REGISTERED"} /\ hs = "TAKEN"
           /\ UNCHANGED <<role, freed, turn, result, hs, output, tx, sealed, login_left>>
           /\ UNCHANGED <<rx, record, other_cleared, transport_eof, ring, net, closed>>
           /\ UNCHANGED <<greeted, owed, arriving, garbled, refused, misbehaved>>
           /\ plain' = <<>> /\ leased' = FALSE
           /\ Wire # <<>> /\ Head(Wire) = Message /\ Wire' = Tail(Wire) /\ Message \in Units \ {Part}
<1>1. TypeOK /\ Phased /\ Sending /\ Honest /\ at = "input" /\ phase # "AUTHENTICATING" /\ plain # <<>>
  BY DEF Inv, Parsing
<1>2. result = "OK" /\ ~freed /\ phase \in {"REGISTERING", "REGISTERED"}
  BY <1>1, Live
<1>3. hs = "TAKEN"
  BY <1>1 DEF Phased
<1>4. /\ at' = "prepare" /\ plain' = <<>> /\ leased' = FALSE
      /\ UNCHANGED <<role, freed, turn, result, hs, output, tx, sealed, login_left>>
      /\ UNCHANGED <<rx, record, other_cleared, transport_eof, ring, net, closed>>
      /\ UNCHANGED <<greeted, owed, arriving, garbled, refused, misbehaved>>
  BY DEF Taken, ownVars, loginVars, sendVars, streamVars, serverVars
<1>5. rx' = rx /\ ring' = ring /\ net' = net
  BY <1>4
<1>6. Wire # <<>> /\ Head(Wire) = plain[1] /\ Wire' = Tail(Wire) /\ plain[1] \in Units \ {Part}
  BY <1>1, <1>4, <1>5, PlainWire
<1> QED
  BY <1>1, <1>2, <1>3, <1>4, <1>6 DEF Message

\* What a frame that is taken shows to keep the invariant.
LEMMA FrameInv ==
    ASSUME Inv, Parsing, Taken, phase' \in {phase, "REGISTERED"}, half' \in BOOLEAN,
           busy' \in BOOLEAN, xtcp_busy' \in BOOLEAN, xtcp' \in {"none", "created", "started", "cancelled"}, HasXtcp' = HasXtcp,
           signal' = signal, awaiting' \in BOOLEAN, proxy_queued' = proxy_queued, ping_pending' \in BOOLEAN,
           pongs' \in 0..2, started' \in 0..2, pongs' > 0 => phase' = "REGISTERED", pongs' = 0 => started' = 0,
           registration_left' \in {registration_left, 0}, ping_left' \in {ping_left, 0}, next_ping_left' \in {next_ping_left, 0},
           Honest'
    PROVE  Inv'
<1>1. /\ TypeOK /\ Phased /\ Sending /\ Honest /\ result = "OK" /\ ~freed /\ at' = "prepare"
      /\ phase \in {"REGISTERING", "REGISTERED"} /\ hs = "TAKEN" /\ plain' = <<>> /\ leased' = FALSE
  BY TakenFacts
<1>2. /\ UNCHANGED <<role, freed, turn, result, hs, output, tx, sealed, login_left>>
      /\ UNCHANGED <<rx, record, other_cleared, transport_eof, ring, net, closed>>
      /\ UNCHANGED <<greeted, owed, arriving, garbled, refused, misbehaved>>
  BY TakenFacts
<1>3. TypeOK'
  <2>0. LoopTypes /\ LoginTypes /\ MessageTypes /\ ReceiveTypes /\ ResourceTypes /\ StreamTypes /\ ServerTypes
    BY <1>1, TypeParts
  <2>1. LoopTypes'
    BY <1>1, <1>2, <2>0 DEF LoopTypes
  <2>2. LoginTypes'
    <3>1. hs' = hs /\ output' = output /\ login_left' = login_left
      BY <1>2
    <3> QED
      BY <2>0, <3>1, Sizes DEF LoginTypes
  <2>3. MessageTypes'
    BY <1>2, <2>0 DEF MessageTypes
  <2>4. ReceiveTypes'
    <3>1. plain' \in Seq(Units \ {Part}) /\ Len(plain') = 0
      <4>1. <<>> \in Seq(Units \ {Part}) /\ Len(<<>>) = 0
        BY EmptySeq
      <4> QED
        BY <1>1, <4>1, Zenon
    <3>2. 0 <= 1
      OBVIOUS
    <3>3. rx' = rx /\ record' = record
      BY <1>2
    <3> QED
      BY <2>0, <3>1, <3>2, <3>3, Zenon DEF ReceiveTypes
  <2>5. ResourceTypes'
    BY <1>1, <1>2, <2>0 DEF ResourceTypes
  <2>6. StreamTypes'
    BY <1>2, <2>0 DEF StreamTypes
  <2>7. ServerTypes'
    BY <1>2, <2>0 DEF ServerTypes
  <2> QED
    BY <2>1, <2>2, <2>3, <2>4, <2>5, <2>6, <2>7, NextTypes
<1>4. Phased'
  BY <1>1, <1>2 DEF Phased
<1>5. Sending'
  BY <1>1, <1>2 DEF Sending
<1>6. result' = result /\ freed' = freed /\ at' # "destroy" /\ at' # "feed"
  BY <1>1, <1>2
<1> QED
  BY <1>1, <1>3, <1>4, <1>5, <1>6, GoesOn

\* What is known when a frame of a server that keeps to the protocol is taken.
LEMMA FrameHonest ==
    ASSUME Inv, Parsing, Taken, ~misbehaved, NEW kind, Message[1] # "head", Message[2] = kind,
           phase' \in {phase, "REGISTERED"}
    PROVE  /\ \A k : Coming(k)' => Coming(k)
           /\ \A k : Once(k) => Once(k)'
           /\ Coming(kind) /\ (Once(kind) => ~Coming(kind)')
           /\ Proper(Wire', refused')
           /\ Greeting' /\ Answering
<1>1. /\ TypeOK /\ Phased /\ Honest /\ result = "OK" /\ phase \in {"REGISTERING", "REGISTERED"} /\ hs = "TAKEN"
      /\ Wire # <<>> /\ Head(Wire) = Message /\ Wire' = Tail(Wire) /\ Message \in Units \ {Part}
  BY TakenFacts
<1>2. hs' = hs /\ greeted' = greeted /\ refused' = refused /\ closed' = closed
  BY TakenFacts
<1>3. Ending(Head(Wire), kind)
  BY <1>1, UnitType DEF Ending
<1>4. Greeting /\ Answering /\ Proper(Wire, refused)
  BY <1>1 DEF Honest
<1>5. /\ \A k : Coming(k)' => Coming(k)
      /\ \A k : Once(k) => Once(k)'
      /\ \A k : Ending(Head(Wire), k) => Coming(k)
      /\ \A k : Ending(Head(Wire), k) /\ Once(k) => ~Coming(k)'
      /\ Proper(Wire, refused) => Proper(Wire', refused)
  BY <1>1, Used
<1>6. ~Early'
  BY <1>1, <1>2 DEF Early
<1>7. phase # "AUTHENTICATING" /\ phase' # "AUTHENTICATING" /\ hs' # "LOGIN"
  BY <1>1, <1>2
<1>8. Greeting'
  BY <1>2, <1>4, <1>5, <1>6, <1>7 DEF Greeting
<1> QED
  BY <1>2, <1>3, <1>4, <1>5, <1>8

\* The first part of a split frame.
LEMMA FrameHeadInv ==
    ASSUME Inv, FrameHead
    PROVE  Inv'
<1>1. Parsing /\ Taken /\ Message[1] = "head" /\ half' = TRUE
  BY DEF FrameHead
<1>2. /\ TypeOK /\ Phased /\ Honest /\ result = "OK"
      /\ Wire # <<>> /\ Head(Wire) = Message /\ Wire' = Tail(Wire)
  BY <1>1, TakenFacts
<1>3. /\ phase' = phase /\ UNCHANGED <<proxy_queued, ping_pending, pongs, started>> /\ UNCHANGED <<signal, awaiting>>
      /\ UNCHANGED <<registration_left, ping_left, next_ping_left>> /\ UNCHANGED <<busy, xtcp, xtcp_busy>>
  BY DEF FrameHead, messageVars, signalVars, timers
<1>4. /\ UNCHANGED <<role, result, hs, tx, sealed, closed>> /\ UNCHANGED <<greeted, owed, refused, misbehaved>>
  BY <1>1, TakenFacts
<1>5. /\ \A k : Coming(k)' <=> Coming(k)
      /\ \A k : Once(k) => Once(k)'
      /\ Ordered(Wire) => Ordered(Wire')
      /\ Proper(Wire, refused) => Proper(Wire', refused)
  BY <1>1, <1>2, PartUsed
<1>6. HasXtcp' = HasXtcp
  BY <1>3 DEF HasXtcp
<1>7. Honest'
  BY <1>2, <1>3, <1>4, <1>5, <1>6, HonestSame
<1>8. /\ busy' \in BOOLEAN /\ xtcp_busy' \in BOOLEAN /\ xtcp' \in {"none", "created", "started", "cancelled"}
      /\ awaiting' \in BOOLEAN /\ ping_pending' \in BOOLEAN /\ pongs' \in 0..2 /\ started' \in 0..2
  BY <1>2, <1>3 DEF TypeOK
<1>9. (pongs' > 0 => phase' = "REGISTERED") /\ (pongs' = 0 => started' = 0)
  BY <1>2, <1>3 DEF Phased
<1> QED
  BY <1>1, <1>3, <1>6, <1>7, <1>8, <1>9, FrameInv

\* The proxy is registered.
LEMMA NewProxyRespInv ==
    ASSUME Inv, NewProxyResp
    PROVE  Inv'
<1>1. /\ Parsing /\ Taken /\ Message[1] # "head" /\ Message[2] = "proxy" /\ half' = FALSE
      /\ phase' = "REGISTERED" /\ next_ping_left' = 0 /\ registration_left' = 0 /\ phase = "REGISTERING"
  BY DEF NewProxyResp, FrameEnds, Expected
<1>2. TypeOK /\ Phased /\ Honest /\ Sending /\ result = "OK"
  BY <1>1, TakenFacts
<1>3. /\ UNCHANGED <<proxy_queued, ping_pending, pongs, started>> /\ UNCHANGED <<signal, awaiting>>
      /\ ping_left' = ping_left /\ UNCHANGED <<busy, xtcp, xtcp_busy>>
  BY DEF NewProxyResp, messageVars, signalVars
<1>4. /\ UNCHANGED <<role, tx, sealed>> /\ UNCHANGED <<owed, misbehaved>>
  BY <1>1, TakenFacts
<1>5. HasXtcp' = HasXtcp /\ (visitor_role' <=> visitor_role)
  BY <1>3, <1>4 DEF HasXtcp, visitor_role
<1>6. ASSUME ~misbehaved PROVE Greeting' /\ Answering' /\ Proper(Wire', refused')
  <2>1. /\ \A k : Coming(k)' => Coming(k)
        /\ \A k : Once(k) => Once(k)'
        /\ Coming("proxy") /\ (Once("proxy") => ~Coming("proxy")')
        /\ Proper(Wire', refused') /\ Greeting' /\ Answering
    BY <1>1, <1>6, FrameHonest
  <2>2. tx # "proxy" /\ sealed # "proxy" /\ "proxy" \notin owed /\ Once("proxy")
    BY <2>1 DEF Answering, Asked
  <2>3. /\ tx # "ping" /\ sealed # "ping" /\ "pong" \notin owed /\ ~Coming("pong") /\ Once("pong")
        /\ ~Requesting(signal) /\ sealed # "request end" /\ "signal" \notin owed /\ ~Coming("signal") /\ Once("signal")
    BY <1>1, <2>1 DEF Answering, Asked
  <2>4. Answering'
    BY <1>1, <1>3, <1>4, <1>5, <2>1, <2>2, <2>3 DEF Answering, Asked
  <2> QED
    BY <2>1, <2>4
<1>7. Honest'
  BY <1>4, <1>6 DEF Honest
<1>8. /\ busy' \in BOOLEAN /\ xtcp_busy' \in BOOLEAN /\ xtcp' \in {"none", "created", "started", "cancelled"}
      /\ awaiting' \in BOOLEAN /\ ping_pending' \in BOOLEAN /\ pongs' \in 0..2 /\ started' \in 0..2
  BY <1>2, <1>3 DEF TypeOK
<1>9. (pongs' > 0 => phase' = "REGISTERED") /\ (pongs' = 0 => started' = 0)
  BY <1>1, <1>2, <1>3 DEF Phased
<1> QED
  BY <1>1, <1>3, <1>5, <1>7, <1>8, <1>9, FrameInv

\* A Pong, and what the first one starts.
LEMMA PongInv ==
    ASSUME Inv, Pong
    PROVE  Inv'
<1>1. /\ Parsing /\ Taken /\ Message[1] # "head" /\ Message[2] = "pong" /\ half' = FALSE /\ phase = "REGISTERED"
      /\ ping_pending' = FALSE /\ ping_left' = 0 /\ pongs' = (IF pongs < 2 THEN pongs + 1 ELSE pongs)
  BY DEF Pong, FrameEnds, Expected
<1>2. TypeOK /\ Phased /\ Honest /\ Sending /\ result = "OK"
  BY <1>1, TakenFacts
<1>3. phase' = phase /\ proxy_queued' = proxy_queued /\ signal' = signal /\ awaiting' = awaiting
      /\ registration_left' = registration_left /\ next_ping_left' = next_ping_left
  BY DEF Pong, signalVars
<1>4. /\ UNCHANGED <<role, tx, sealed>> /\ UNCHANGED <<owed, misbehaved>>
  BY <1>1, TakenFacts
<1>5. \/ /\ pongs = 0 /\ started' = started + 1 /\ xtcp' = (IF HasXtcp THEN "started" ELSE xtcp)
         /\ xtcp_busy' = (xtcp_busy \/ role = XtcpVisitor) /\ busy' = (busy \/ role = Visitor)
      \/ UNCHANGED <<started, busy, xtcp, xtcp_busy>>
  BY DEF Pong, FirstPong
<1>6. xtcp' \in {"none", "created", "started", "cancelled"} /\ HasXtcp' = HasXtcp
  <2>1. xtcp' = xtcp \/ (HasXtcp /\ xtcp' = "started")
    BY <1>5
  <2>2. xtcp \in {"none", "created", "started", "cancelled"}
    BY <1>2 DEF TypeOK
  <2> QED
    BY <2>1, <2>2 DEF HasXtcp
<1>7. busy' \in BOOLEAN /\ xtcp_busy' \in BOOLEAN
  <2>1. busy \in BOOLEAN /\ xtcp_busy \in BOOLEAN
    BY <1>2 DEF TypeOK
  <2> QED
    BY <1>5, <2>1
<1>8. pongs' \in 0..2 /\ pongs' > 0
  <2>1. pongs \in 0..2
    BY <1>2 DEF TypeOK
  <2> QED
    BY <1>1, <2>1
<1>9. started' \in 0..2
  <2>1. started \in 0..2 /\ (pongs = 0 => started = 0)
    BY <1>2 DEF TypeOK, Phased
  <2> QED
    BY <1>5, <2>1
<1>10. visitor_role' <=> visitor_role
  BY <1>4 DEF visitor_role
<1>11. ASSUME ~misbehaved PROVE Greeting' /\ Answering' /\ Proper(Wire', refused')
  <2>1. /\ \A k : Coming(k)' => Coming(k)
        /\ \A k : Once(k) => Once(k)'
        /\ Coming("pong") /\ (Once("pong") => ~Coming("pong")')
        /\ Proper(Wire', refused') /\ Greeting' /\ Answering
    BY <1>1, <1>3, <1>11, FrameHonest
  <2>2. tx # "ping" /\ sealed # "ping" /\ "pong" \notin owed /\ Once("pong")
    BY <2>1 DEF Answering, Asked
  <2>3. Answering'
    BY <1>3, <1>4, <1>6, <1>10, <2>1, <2>2 DEF Answering, Asked
  <2> QED
    BY <2>1, <2>3
<1>12. Honest'
  BY <1>4, <1>11 DEF Honest
<1>13. ping_pending' \in BOOLEAN /\ awaiting' \in BOOLEAN /\ half' \in BOOLEAN
  BY <1>1, <1>2, <1>3 DEF TypeOK
<1> QED
  BY <1>1, <1>3, <1>6, <1>7, <1>8, <1>9, <1>12, <1>13, FrameInv

\* Work is asked for.
LEMMA ReqWorkConnInv ==
    ASSUME Inv, ReqWorkConn
    PROVE  Inv'
<1>1. Parsing /\ Taken /\ Message[1] # "head" /\ Message[2] = "work" /\ half' = FALSE
  BY DEF ReqWorkConn, FrameEnds
<1>2. TypeOK /\ Phased /\ Honest /\ Sending /\ result = "OK"
  BY <1>1, TakenFacts
<1>3. /\ phase' = phase /\ UNCHANGED <<proxy_queued, ping_pending, pongs, started>> /\ UNCHANGED <<signal, awaiting>>
      /\ UNCHANGED <<registration_left, ping_left, next_ping_left>> /\ xtcp' = xtcp
  BY DEF ReqWorkConn, messageVars, signalVars, timers
<1>4. /\ UNCHANGED <<role, tx, sealed>> /\ UNCHANGED <<owed, misbehaved>>
  BY <1>1, TakenFacts
<1>5. HasXtcp' = HasXtcp /\ (visitor_role' <=> visitor_role)
  BY <1>3, <1>4 DEF HasXtcp, visitor_role
<1>6. ASSUME ~misbehaved PROVE Greeting' /\ Answering' /\ Proper(Wire', refused')
  <2>1. /\ \A k : Coming(k)' => Coming(k)
        /\ \A k : Once(k) => Once(k)'
        /\ Proper(Wire', refused') /\ Greeting' /\ Answering
    BY <1>1, <1>3, <1>6, FrameHonest
  <2>2. Answering'
    BY <1>3, <1>4, <1>5, <2>1 DEF Answering, Asked
  <2> QED
    BY <2>1, <2>2
<1>7. Honest'
  BY <1>4, <1>6 DEF Honest
<1>8. busy' \in BOOLEAN /\ xtcp_busy' \in BOOLEAN
  <2>1. busy \in BOOLEAN /\ xtcp_busy \in BOOLEAN
    BY <1>2 DEF TypeOK
  <2>2. busy' \in {busy, TRUE} /\ xtcp_busy' \in {xtcp_busy, TRUE}
    BY DEF ReqWorkConn
  <2> QED
    BY <2>1, <2>2
<1>9. /\ xtcp' \in {"none", "created", "started", "cancelled"}
      /\ awaiting' \in BOOLEAN /\ ping_pending' \in BOOLEAN /\ pongs' \in 0..2 /\ started' \in 0..2
  BY <1>2, <1>3 DEF TypeOK
<1>10. (pongs' > 0 => phase' = "REGISTERED") /\ (pongs' = 0 => started' = 0)
  BY <1>2, <1>3 DEF Phased
<1> QED
  BY <1>1, <1>3, <1>5, <1>7, <1>8, <1>9, <1>10, FrameInv

\* An answer for the XTCP controller.
LEMMA SignalInv ==
    ASSUME Inv, Signal
    PROVE  Inv'
<1>1. Parsing /\ Taken /\ Message[1] # "head" /\ Message[2] = "signal" /\ half' = FALSE /\ awaiting' = FALSE
  BY DEF Signal, FrameEnds
<1>2. TypeOK /\ Phased /\ Honest /\ Sending /\ result = "OK"
  BY <1>1, TakenFacts
<1>3. /\ phase' = phase /\ UNCHANGED <<proxy_queued, ping_pending, pongs, started>> /\ signal' = signal
      /\ UNCHANGED <<registration_left, ping_left, next_ping_left>> /\ UNCHANGED <<busy, xtcp, xtcp_busy>>
  BY DEF Signal, messageVars, timers
<1>4. /\ UNCHANGED <<role, tx, sealed>> /\ UNCHANGED <<owed, misbehaved>>
  BY <1>1, TakenFacts
<1>5. HasXtcp' = HasXtcp /\ (visitor_role' <=> visitor_role)
  BY <1>3, <1>4 DEF HasXtcp, visitor_role
<1>6. ASSUME ~misbehaved PROVE Greeting' /\ Answering' /\ Proper(Wire', refused')
  <2>1. /\ \A k : Coming(k)' => Coming(k)
        /\ \A k : Once(k) => Once(k)'
        /\ Coming("signal") /\ (Once("signal") => ~Coming("signal")')
        /\ Proper(Wire', refused') /\ Greeting' /\ Answering
    BY <1>1, <1>3, <1>6, FrameHonest
  <2>2. ~Requesting(signal) /\ sealed # "request end" /\ "signal" \notin owed /\ Once("signal")
    BY <2>1 DEF Answering, Asked
  <2>3. Answering'
    BY <1>3, <1>4, <1>5, <2>1, <2>2 DEF Answering, Asked
  <2> QED
    BY <2>1, <2>3
<1>7. Honest'
  BY <1>4, <1>6 DEF Honest
<1>8. /\ busy' \in BOOLEAN /\ xtcp_busy' \in BOOLEAN /\ xtcp' \in {"none", "created", "started", "cancelled"}
      /\ awaiting' \in BOOLEAN /\ ping_pending' \in BOOLEAN /\ pongs' \in 0..2 /\ started' \in 0..2
  BY <1>1, <1>2, <1>3 DEF TypeOK
<1>9. (pongs' > 0 => phase' = "REGISTERED") /\ (pongs' = 0 => started' = 0)
  BY <1>2, <1>3 DEF Phased
<1> QED
  BY <1>1, <1>3, <1>5, <1>7, <1>8, <1>9, FrameInv

-----------------------------------------------------------------------------
(* What the session sends. *)

\* prepare_control leaves the input alone.
LEMMA PrepareFacts ==
    ASSUME Inv, prepare_control
    PROVE  /\ TypeOK /\ Phased /\ Sending /\ Honest /\ result = "OK" /\ ~freed /\ at' = "output"
           /\ phase \in {"AUTHENTICATING", "REGISTERING", "REGISTERED"}
           /\ UNCHANGED <<role, freed, turn, phase, result, hs, output, pongs, started, sealed, signal, awaiting>>
           /\ UNCHANGED <<login_left, registration_left, rx, record, plain, half>>
           /\ UNCHANGED resourceVars /\ UNCHANGED <<transport_eof, streamVars>> /\ UNCHANGED serverVars
           /\ UNCHANGED <<xtcp, ring, net, closed, transport_eof, greeted, owed, arriving, garbled, refused, misbehaved>>
           /\ Wire' = Wire /\ HasXtcp' = HasXtcp
<1>1. TypeOK /\ Phased /\ Sending /\ Honest /\ at = "prepare"
  BY DEF Inv, prepare_control
<1>2. result = "OK" /\ ~freed /\ phase \in {"AUTHENTICATING", "REGISTERING", "REGISTERED"}
  BY <1>1, Live
<1>3. /\ at' = "output" /\ UNCHANGED <<ownVars, turn, phase, result, loginVars, pongs, started, sealed, signalVars>>
      /\ UNCHANGED <<login_left, registration_left>> /\ UNCHANGED receiveVars
      /\ UNCHANGED resourceVars /\ UNCHANGED <<transport_eof, streamVars>> /\ UNCHANGED serverVars
  BY DEF prepare_control
<1>4. /\ UNCHANGED <<role, freed, turn, phase, result, hs, output, pongs, started, sealed, signal, awaiting>>
      /\ UNCHANGED <<login_left, registration_left, rx, record, plain, half>>
  BY <1>3 DEF ownVars, loginVars, signalVars, receiveVars
<1>5. UNCHANGED <<xtcp, ring, net, closed, transport_eof, greeted, owed, arriving, garbled, refused, misbehaved>>
  BY <1>3 DEF resourceVars, streamVars, serverVars
<1>6. Wire' = Wire /\ HasXtcp' = HasXtcp
  BY <1>4, <1>5 DEF Wire, HasXtcp
<1> QED
  BY <1>1, <1>2, <1>3, <1>4, <1>5, <1>6

\* The proxy or a ping is prepared, when nothing else is on its way.
LEMMA PrepareInv ==
    ASSUME Inv, prepare_control
    PROVE  Inv'
<1>1. /\ TypeOK /\ Phased /\ Sending /\ Honest /\ result = "OK" /\ ~freed /\ at' = "output"
      /\ phase \in {"AUTHENTICATING", "REGISTERING", "REGISTERED"} /\ Wire' = Wire /\ HasXtcp' = HasXtcp
  BY PrepareFacts
<1>2. /\ UNCHANGED <<role, freed, turn, phase, result, hs, output, pongs, started, sealed, signal, awaiting>>
      /\ UNCHANGED <<login_left, registration_left, rx, record, plain, half>>
      /\ UNCHANGED resourceVars /\ UNCHANGED <<transport_eof, streamVars>> /\ UNCHANGED serverVars
      /\ UNCHANGED <<xtcp, ring, net, closed, transport_eof, greeted, owed, arriving, garbled, refused, misbehaved>>
  BY PrepareFacts
<1>3. \/ /\ ProxyDue /\ tx' = "proxy" /\ proxy_queued' = TRUE /\ UNCHANGED <<ping_pending, ping_left, next_ping_left>>
      \/ /\ PingDue /\ tx' = "ping" /\ ping_pending' = TRUE /\ proxy_queued' = proxy_queued
         /\ ping_left' = ResponseTime /\ next_ping_left' = HeartbeatTime
      \/ UNCHANGED <<tx, proxy_queued, ping_pending, ping_left, next_ping_left>>
  BY DEF prepare_control
<1>4. TypeOK'
  <2>0. LoopTypes /\ LoginTypes /\ MessageTypes /\ ReceiveTypes
    BY <1>1, TypeParts
  <2>1. LoopTypes'
    BY <1>1, <1>2, <2>0 DEF LoopTypes
  <2>2. ping_left' \in {ping_left, ResponseTime} /\ next_ping_left' \in {next_ping_left, HeartbeatTime}
    BY <1>3
  <2>3. hs' = hs /\ output' = output /\ login_left' = login_left /\ registration_left' = registration_left
    BY <1>2
  <2>4. LoginTypes'
    BY <2>0, <2>2, <2>3, Sizes DEF LoginTypes
  <2>5. tx' \in {"none", "proxy", "ping"}
    BY <1>3, <2>0 DEF MessageTypes
  <2>6. proxy_queued' \in BOOLEAN /\ ping_pending' \in BOOLEAN
    BY <1>3, <2>0 DEF MessageTypes
  <2>7. MessageTypes'
    BY <1>2, <2>0, <2>5, <2>6 DEF MessageTypes
  <2>8. ReceiveTypes'
    BY <1>2, <2>0 DEF ReceiveTypes
  <2> QED
    BY <1>1, <1>2, <2>1, <2>4, <2>7, <2>8, TypesKept, NextTypes
<1>5. result' = result /\ freed' = freed /\ at' # "destroy" /\ at' # "feed"
  BY <1>1, <1>2
<1>6. /\ \A k : Coming(k)' <=> Coming(k)
      /\ \A k : Once(k)' <=> Once(k)
      /\ Ordered(Wire') <=> Ordered(Wire)
  BY <1>1, Kept
<1>7. (Early' <=> Early) /\ (visitor_role' <=> visitor_role)
  BY <1>2 DEF Early, visitor_role
<1>8. Greeting => Greeting'
  BY <1>2, <1>6, <1>7 DEF Greeting
<1>9. Requesting(signal) => HasXtcp /\ phase = "REGISTERED" /\ signal # <<>>
  BY <1>1 DEF Sending, Requesting
<1>10. CASE ProxyDue /\ tx' = "proxy" /\ proxy_queued' = TRUE /\ UNCHANGED <<ping_pending, ping_left, next_ping_left>>
  <2>1. phase = "REGISTERING" /\ ~proxy_queued /\ tx = "none"
    BY <1>10 DEF ProxyDue, MayPrepare
  <2>2. Phased'
    BY <1>1, <1>2, <2>1 DEF Phased
  <2>3. ~Requesting(signal)
    BY <1>9, <2>1
  <2>4. Sending'
    BY <1>1, <1>2, <2>3 DEF Sending
  <2>5. ASSUME ~misbehaved PROVE Answering'
    <3>1. Answering
      BY <1>1, <2>5 DEF Honest
    <3>2. sealed # "proxy" /\ "proxy" \notin owed /\ ~Coming("proxy") /\ Once("proxy")
      BY <2>1, <3>1 DEF Answering, Asked
    <3>3. proxy_queued'
      BY <1>10
    <3> QED
      BY <1>1, <1>2, <1>6, <1>7, <1>10, <2>1, <3>1, <3>2, <3>3 DEF Answering, Asked
  <2>6. Honest'
    BY <1>1, <1>2, <1>8, <2>5 DEF Honest
  <2> QED
    BY <1>1, <1>4, <1>5, <2>2, <2>4, <2>6, GoesOn
<1>11. CASE PingDue /\ tx' = "ping" /\ ping_pending' = TRUE /\ proxy_queued' = proxy_queued
  <2>1. phase = "REGISTERED" /\ ~ping_pending /\ tx = "none" /\ ~(HasXtcp /\ phase = "REGISTERED" /\ signal # <<>>)
    BY <1>11 DEF PingDue, MayPrepare
  <2>2. Phased'
    BY <1>1, <1>2, <2>1 DEF Phased
  <2>3. ~Requesting(signal)
    BY <1>9, <2>1
  <2>4. Sending'
    BY <1>1, <1>2, <2>3 DEF Sending
  <2>5. ASSUME ~misbehaved PROVE Answering'
    <3>1. Answering
      BY <1>1, <2>5 DEF Honest
    <3>2. sealed # "ping" /\ "pong" \notin owed /\ ~Coming("pong") /\ Once("pong")
      BY <2>1, <3>1 DEF Answering, Asked
    <3>3. ping_pending'
      BY <1>11
    <3> QED
      BY <1>1, <1>2, <1>6, <1>7, <1>11, <2>1, <3>1, <3>2, <3>3 DEF Answering, Asked
  <2>6. Honest'
    BY <1>1, <1>2, <1>8, <2>5 DEF Honest
  <2> QED
    BY <1>1, <1>4, <1>5, <2>2, <2>4, <2>6, GoesOn
<1>12. CASE UNCHANGED <<tx, proxy_queued, ping_pending, ping_left, next_ping_left>>
  <2>1. Phased'
    BY <1>1, <1>2, <1>12 DEF Phased
  <2>2. Sending'
    BY <1>1, <1>2, <1>12 DEF Sending
  <2>3. Honest'
    BY <1>1, <1>2, <1>12, HonestKept
  <2> QED
    BY <1>1, <1>4, <1>5, <2>1, <2>2, <2>3, GoesOn
<1> QED
  BY <1>3, <1>10, <1>11, <1>12

\* control_output leaves the input alone.
LEMMA OutputFacts ==
    ASSUME Inv, Outputs
    PROVE  /\ TypeOK /\ Phased /\ Sending /\ Honest /\ result = "OK" /\ ~freed /\ at' = "run"
           /\ phase \in {"AUTHENTICATING", "REGISTERING", "REGISTERED"}
           /\ UNCHANGED <<role, freed, turn, phase, result, proxy_queued, ping_pending, pongs, started, awaiting>>
           /\ UNCHANGED timers /\ UNCHANGED receiveVars
           /\ UNCHANGED resourceVars /\ UNCHANGED <<transport_eof, streamVars>>
           /\ UNCHANGED <<rx, plain, xtcp, ring, net, closed, transport_eof>>
           /\ Wire' = Wire /\ HasXtcp' = HasXtcp /\ LoopTypes'
<1>1. TypeOK /\ Phased /\ Sending /\ Honest /\ at = "output"
  BY DEF Inv, Outputs
<1>2. result = "OK" /\ ~freed /\ phase \in {"AUTHENTICATING", "REGISTERING", "REGISTERED"}
  BY <1>1, Live
<1>3. /\ at' = "run" /\ UNCHANGED <<ownVars, turn, phase, result, messageVars, awaiting>>
      /\ UNCHANGED timers /\ UNCHANGED receiveVars /\ UNCHANGED resourceVars /\ UNCHANGED <<transport_eof, streamVars>>
  BY DEF Outputs
<1>4. UNCHANGED <<role, freed, turn, phase, result, proxy_queued, ping_pending, pongs, started, awaiting>>
  BY <1>3 DEF ownVars, messageVars
<1>5. UNCHANGED <<rx, plain, xtcp, ring, net, closed, transport_eof>>
  BY <1>3 DEF receiveVars, resourceVars, streamVars
<1>6. Wire' = Wire /\ HasXtcp' = HasXtcp
  BY <1>5 DEF Wire, HasXtcp
<1>7. LoopTypes'
  <2>1. LoopTypes
    BY <1>1, TypeParts
  <2> QED
    BY <1>3, <1>4, <2>1 DEF LoopTypes
<1> QED
  BY <1>1, <1>2, <1>3, <1>4, <1>5, <1>6, <1>7

\* A write of the login output.
LEMMA WriteLoginInv ==
    ASSUME Inv, WriteLogin
    PROVE  Inv'
<1>1. Outputs /\ UNCHANGED serverVars /\ phase = "AUTHENTICATING" /\ hs = "SEND" /\ output' = output - 1
  BY DEF WriteLogin, ServerWaits
<1>2. /\ TypeOK /\ Phased /\ Sending /\ Honest /\ result = "OK" /\ ~freed /\ at' = "run"
      /\ Wire' = Wire /\ HasXtcp' = HasXtcp /\ LoopTypes'
  BY <1>1, OutputFacts
<1>3. /\ UNCHANGED <<role, freed, turn, phase, result, proxy_queued, ping_pending, pongs, started, awaiting>>
      /\ UNCHANGED timers /\ UNCHANGED receiveVars
      /\ UNCHANGED resourceVars /\ UNCHANGED <<transport_eof, streamVars>>
      /\ UNCHANGED <<rx, plain, xtcp, ring, net, closed, transport_eof>>
  BY <1>1, OutputFacts
<1>4. hs' = (IF output' = 0 THEN "HELLO" ELSE "SEND") /\ tx' = tx /\ sealed' = sealed /\ signal' = signal
  BY <1>1 DEF WriteLogin, sendVars
<1>5. greeted' = greeted /\ owed' = owed /\ arriving' = arriving /\ garbled' = garbled /\ refused' = refused /\ misbehaved' = misbehaved
  BY <1>1 DEF serverVars
<1>6. output \in 0..LoginWrites /\ output > 0
  BY <1>1, <1>2 DEF TypeOK, Phased
<1>7. output' \in 0..LoginWrites /\ (hs' = "SEND" => output' > 0) /\ hs' \in {"SEND", "HELLO"}
  BY <1>1, <1>4, <1>6, Sizes
<1>8. TypeOK'
  <2>0. LoginTypes /\ MessageTypes
    BY <1>2, TypeParts
  <2>1. LoginTypes'
    BY <1>3, <1>7, <2>0 DEF LoginTypes, timers
  <2>2. MessageTypes'
    BY <1>3, <1>4, <2>0 DEF MessageTypes
  <2> QED
    BY <1>1, <1>2, <1>3, <2>1, <2>2, TypesKept, NextTypes
<1>9. Phased'
  BY <1>1, <1>2, <1>3, <1>4, <1>5, <1>7 DEF Phased
<1>10. Sending'
  BY <1>2, <1>3, <1>4, <1>5 DEF Sending
<1>11. /\ \A k : Coming(k)' <=> Coming(k)
       /\ \A k : Once(k)' <=> Once(k)
       /\ Ordered(Wire') <=> Ordered(Wire)
  BY <1>2, Kept
<1>12. Early' /\ Early /\ (visitor_role' <=> visitor_role)
  BY <1>1, <1>3, <1>7 DEF Early, visitor_role
<1>13. Greeting => Greeting'
  BY <1>1, <1>3, <1>5, <1>7, <1>11, <1>12 DEF Greeting
<1>14. Answering => Answering'
  BY <1>2, <1>3, <1>4, <1>5, <1>11, <1>12 DEF Answering, Asked
<1>15. Honest'
  BY <1>2, <1>3, <1>5, <1>13, <1>14 DEF Honest
<1>16. result' = result /\ freed' = freed /\ at' # "destroy" /\ at' # "feed"
  BY <1>2, <1>3
<1> QED
  BY <1>2, <1>8, <1>9, <1>10, <1>15, <1>16, GoesOn

\* The records that are sealed, written or left alone, after the login.
LEMMA RecordsInv ==
    ASSUME Inv, Outputs, phase # "AUTHENTICATING", UNCHANGED loginVars, tx' \in {"none", "proxy", "ping"},
           sealed' \in {"none", "proxy", "ping"} \cup SignalKinds, signal' \in Seq(SignalKinds), Sending', ServerTypes',
           greeted' = greeted, refused' = refused, misbehaved' = misbehaved, ~misbehaved => Answering'
    PROVE  Inv'
<1>1. /\ TypeOK /\ Phased /\ Sending /\ Honest /\ result = "OK" /\ ~freed /\ at' = "run"
      /\ phase \in {"AUTHENTICATING", "REGISTERING", "REGISTERED"} /\ Wire' = Wire /\ LoopTypes'
  BY OutputFacts
<1>2. /\ UNCHANGED <<role, freed, turn, phase, result, proxy_queued, ping_pending, pongs, started, awaiting>>
      /\ UNCHANGED timers /\ UNCHANGED receiveVars
      /\ UNCHANGED resourceVars /\ UNCHANGED <<transport_eof, streamVars>>
      /\ UNCHANGED <<rx, plain, xtcp, ring, net, closed, transport_eof>>
  BY OutputFacts
<1>3. hs' = hs /\ output' = output
  BY DEF loginVars
<1>4. TypeOK'
  <2>1. MessageTypes
    BY <1>1, TypeParts
  <2>2. MessageTypes'
    BY <1>2, <2>1 DEF MessageTypes
  <2> QED
    BY <1>1, <1>2, <2>2, TypesKept, NextTypes
<1>5. Phased'
  BY <1>1, <1>2, <1>3 DEF Phased
<1>6. /\ \A k : Coming(k)' <=> Coming(k)
      /\ \A k : Once(k)' <=> Once(k)
      /\ Ordered(Wire') <=> Ordered(Wire)
  BY <1>1, Kept
<1>7. Early' <=> Early
  BY <1>3 DEF Early
<1>8. Greeting => Greeting'
  BY <1>2, <1>3, <1>6, <1>7 DEF Greeting
<1>9. Honest'
  BY <1>1, <1>2, <1>8 DEF Honest
<1>10. result' = result /\ freed' = freed /\ at' # "destroy" /\ at' # "feed"
  BY <1>1, <1>2
<1> QED
  BY <1>1, <1>4, <1>5, <1>9, <1>10, GoesOn

\* The server takes a record: no frame is cut into another, and it owes an answer.
LEMMA WriteRecordInv ==
    ASSUME Inv, WriteRecord
    PROVE  Inv'
<1>1. /\ Outputs /\ phase # "AUTHENTICATING" /\ sealed # "none" /\ ServerReads(sealed) /\ sealed' = "none"
      /\ UNCHANGED loginVars /\ tx' = tx /\ signal' = signal
  BY DEF WriteRecord
<1>2. /\ TypeOK /\ Phased /\ Sending /\ Honest /\ result = "OK" /\ Wire' = Wire /\ HasXtcp' = HasXtcp
      /\ phase' = phase /\ proxy_queued' = proxy_queued /\ ping_pending' = ping_pending /\ awaiting' = awaiting /\ role' = role
  BY <1>1, OutputFacts
<1>3. /\ garbled' = (garbled \/ (arriving /\ sealed \notin {"request", "request end"})) /\ arriving' = (sealed = "request")
      /\ greeted' = greeted /\ refused' = refused /\ misbehaved' = misbehaved
  BY <1>1 DEF ServerReads
<1>4. owed' = owed \cup (CASE sealed = "ping" -> {"pong"}
                           [] sealed = "proxy" -> {"proxy"}
                           [] sealed = "request end" -> {"signal"}
                           [] OTHER -> {})
  BY <1>1 DEF ServerReads
<1>5. /\ sealed = "ping" => owed' = owed \cup {"pong"}
      /\ sealed = "proxy" => owed' = owed \cup {"proxy"}
      /\ sealed = "request end" => owed' = owed \cup {"signal"}
      /\ sealed \notin {"ping", "proxy", "request end"} => owed' = owed
  BY <1>4
<1>6. /\ \A k \in owed : k \in owed'
      /\ "pong" \in owed' <=> "pong" \in owed \/ sealed = "ping"
      /\ "proxy" \in owed' <=> "proxy" \in owed \/ sealed = "proxy"
      /\ "signal" \in owed' <=> "signal" \in owed \/ sealed = "request end"
      /\ owed' \subseteq owed \cup {"proxy", "pong", "signal"}
  BY <1>5
<1>7. sealed \in {"request", "request end"} \/ ~arriving
  BY <1>1, <1>2 DEF Sending
<1>8. ~garbled
  BY <1>2 DEF Sending
<1>9. ~garbled'
  BY <1>3, <1>7, <1>8
<1>10. arriving' => Requesting(signal) /\ tx = "none"
  BY <1>2, <1>3 DEF Sending
<1>11. Sending'
  BY <1>1, <1>2, <1>9, <1>10 DEF Sending
<1>12. ServerTypes'
  <2>0. ServerTypes
    BY <1>2, TypeParts
  <2>1. owed' \subseteq Kinds
    BY <1>6, <2>0 DEF ServerTypes, Kinds
  <2>2. garbled' \in BOOLEAN /\ arriving' \in BOOLEAN
    BY <1>3
  <2> QED
    BY <1>3, <2>0, <2>1, <2>2 DEF ServerTypes
<1>13. ASSUME ~misbehaved PROVE Answering'
  <2>1. Answering
    BY <1>2, <1>13 DEF Honest
  <2>2. (\A k : Coming(k)' <=> Coming(k)) /\ (\A k : Once(k)' <=> Once(k))
    BY <1>2, Kept
  <2>3. visitor_role' <=> visitor_role
    BY <1>2 DEF visitor_role
  <2>4. Asked(tx = "proxy", sealed = "proxy", "proxy", phase = "REGISTERING" /\ proxy_queued)'
    BY <1>1, <1>2, <1>6, <2>1, <2>2 DEF Answering, Asked
  <2>5. Asked(tx = "ping", sealed = "ping", "pong", phase = "REGISTERED" /\ ping_pending)'
    BY <1>1, <1>2, <1>6, <2>1, <2>2 DEF Answering, Asked
  <2>6. Asked(Requesting(signal), sealed = "request end", "signal", HasXtcp /\ phase = "REGISTERED" /\ awaiting)'
    BY <1>1, <1>2, <1>6, <2>1, <2>2 DEF Answering, Asked
  <2>7. owed' \subseteq {"proxy", "pong", "signal"}
    BY <1>6, <2>1 DEF Answering
  <2> QED
    BY <1>2, <2>1, <2>2, <2>3, <2>4, <2>5, <2>6, <2>7 DEF Answering
<1>14. tx' \in {"none", "proxy", "ping"} /\ sealed' \in {"none", "proxy", "ping"} \cup SignalKinds /\ signal' \in Seq(SignalKinds)
  BY <1>1, <1>2 DEF TypeOK
<1> QED
  BY <1>1, <1>3, <1>11, <1>12, <1>13, <1>14, RecordsInv

\* The message of control_tx is sealed.
LEMMA SealMessageInv ==
    ASSUME Inv, SealMessage
    PROVE  Inv'
<1>1. /\ Outputs /\ phase # "AUTHENTICATING" /\ sealed = "none" /\ tx # "none" /\ sealed' = tx /\ tx' = "none"
      /\ UNCHANGED loginVars /\ UNCHANGED serverVars /\ signal' = signal
  BY DEF SealMessage, ServerWaits
<1>2. /\ TypeOK /\ Phased /\ Sending /\ Honest /\ result = "OK" /\ Wire' = Wire /\ HasXtcp' = HasXtcp
      /\ phase' = phase /\ proxy_queued' = proxy_queued /\ ping_pending' = ping_pending /\ awaiting' = awaiting /\ role' = role
  BY <1>1, OutputFacts
<1>3. /\ greeted' = greeted /\ owed' = owed /\ arriving' = arriving /\ garbled' = garbled /\ refused' = refused
      /\ misbehaved' = misbehaved
  BY <1>1 DEF serverVars
<1>4. tx \in {"proxy", "ping"}
  BY <1>1, <1>2 DEF TypeOK
<1>5. ~arriving
  BY <1>1, <1>2 DEF Sending
<1>6. Sending'
  BY <1>1, <1>2, <1>3, <1>4, <1>5 DEF Sending
<1>7. ServerTypes'
  BY <1>1, <1>2, TypesKept
<1>8. ASSUME ~misbehaved PROVE Answering'
  <2>1. Answering
    BY <1>2, <1>8 DEF Honest
  <2>2. (\A k : Coming(k)' <=> Coming(k)) /\ (\A k : Once(k)' <=> Once(k))
    BY <1>2, Kept
  <2>3. visitor_role' <=> visitor_role
    BY <1>2 DEF visitor_role
  <2>4. Asked(tx = "proxy", sealed = "proxy", "proxy", phase = "REGISTERING" /\ proxy_queued)'
    BY <1>1, <1>2, <1>3, <2>1, <2>2 DEF Answering, Asked
  <2>5. Asked(tx = "ping", sealed = "ping", "pong", phase = "REGISTERED" /\ ping_pending)'
    BY <1>1, <1>2, <1>3, <2>1, <2>2 DEF Answering, Asked
  <2>6. Asked(Requesting(signal), sealed = "request end", "signal", HasXtcp /\ phase = "REGISTERED" /\ awaiting)'
    BY <1>1, <1>2, <1>3, <1>4, <2>1, <2>2 DEF Answering, Asked
  <2> QED
    BY <1>2, <1>3, <2>1, <2>2, <2>3, <2>4, <2>5, <2>6 DEF Answering
<1>9. tx' \in {"none", "proxy", "ping"} /\ sealed' \in {"none", "proxy", "ping"} \cup SignalKinds /\ signal' \in Seq(SignalKinds)
  BY <1>1, <1>2, <1>4 DEF TypeOK
<1> QED
  BY <1>1, <1>3, <1>6, <1>7, <1>8, <1>9, RecordsInv

\* The first record of a request, and what is left of it.
LEMMA RequestHead ==
    ASSUME NEW s \in Seq(SignalKinds), Requesting(s)
    PROVE  \/ Head(s) = "request end" /\ Tail(s) = <<>>
           \/ Head(s) = "request" /\ Requesting(Tail(s))
<1>1. s # <<>> /\ s[Len(s)] = "request end" /\ \A i \in 1..(Len(s) - 1) : s[i] = "request"
  BY DEF Requesting
<1>2. Len(s) \in Nat \ {0}
  BY <1>1, EmptySeq
<1>3. Tail(s) \in Seq(SignalKinds) /\ Len(Tail(s)) = Len(s) - 1 /\ \A i \in 1..Len(Tail(s)) : Tail(s)[i] = s[i + 1]
  BY <1>1, HeadTailProperties
<1>4. Head(s) = s[1]
  OBVIOUS
<1> DEFINE t == Tail(s)
<1> HIDE DEF t
<1>5. t \in Seq(SignalKinds) /\ Len(t) = Len(s) - 1 /\ \A i \in 1..Len(t) : t[i] = s[i + 1]
  BY <1>3 DEF t
<1>6. CASE Len(s) = 1
  <2>1. Head(s) = "request end"
    BY <1>1, <1>4, <1>6
  <2>2. t # <<>> => Len(t) \in Nat \ {0}
    BY <1>5, EmptySeq
  <2>3. Len(t) = 0
    BY <1>5, <1>6
  <2>4. t = <<>>
    BY <2>2, <2>3
  <2> QED
    BY <2>1, <2>4 DEF t
<1>7. CASE Len(s) > 1
  <2>1. 1 \in 1..(Len(s) - 1)
    BY <1>2, <1>7
  <2>2. Head(s) = "request"
    BY <1>1, <1>4, <2>1
  <2>3. Len(t) \in 1..Len(t) /\ Len(t) + 1 = Len(s) /\ Len(t) > 0
    BY <1>2, <1>5, <1>7
  <2>4. t[Len(t)] = "request end"
    <3>1. t[Len(t)] = s[Len(t) + 1]
      BY <1>5, <2>3
    <3> QED
      BY <1>1, <2>3, <3>1
  <2>5. t # <<>>
    <3>1. Len(<<>>) = 0
      BY EmptySeq
    <3> QED
      BY <2>3, <3>1
  <2>6. \A i \in 1..(Len(t) - 1) : t[i] = "request"
    <3>1. \A i \in 1..(Len(t) - 1) : i \in 1..Len(t) /\ i + 1 \in 1..(Len(s) - 1)
      BY <1>2, <1>5
    <3> QED
      BY <1>1, <1>5, <3>1
  <2>7. Requesting(t)
    BY <2>4, <2>5, <2>6 DEF Requesting
  <2> QED
    BY <2>2, <2>7 DEF t
<1>8. Len(s) = 1 \/ Len(s) > 1
  BY <1>2
<1> QED
  BY <1>6, <1>7, <1>8, Zenon

\* A record of the XTCP controller's frame is sealed.
LEMMA SealSignalInv ==
    ASSUME Inv, SealSignal
    PROVE  Inv'
<1>1. /\ Outputs /\ phase = "REGISTERED" /\ sealed = "none" /\ tx = "none" /\ HasXtcp /\ signal # <<>>
      /\ sealed' = Head(signal) /\ signal' = Tail(signal) /\ UNCHANGED loginVars /\ UNCHANGED serverVars /\ tx' = tx
  BY DEF SealSignal, ServerWaits
<1>2. /\ TypeOK /\ Phased /\ Sending /\ Honest /\ result = "OK" /\ Wire' = Wire /\ HasXtcp' = HasXtcp
      /\ phase' = phase /\ proxy_queued' = proxy_queued /\ ping_pending' = ping_pending /\ awaiting' = awaiting /\ role' = role
  BY <1>1, OutputFacts
<1>3. /\ greeted' = greeted /\ owed' = owed /\ arriving' = arriving /\ garbled' = garbled /\ refused' = refused
      /\ misbehaved' = misbehaved
  BY <1>1 DEF serverVars
<1>4. signal \in Seq(SignalKinds)
  BY <1>2 DEF TypeOK
<1>5. sealed' \in SignalKinds /\ signal' \in Seq(SignalKinds)
  BY <1>1, <1>4, HeadTailProperties
<1>6. \/ signal = Report /\ sealed' = "report" /\ signal' = <<>>
      \/ Requesting(signal) /\ sealed' = "request end" /\ signal' = <<>>
      \/ Requesting(signal) /\ sealed' = "request" /\ Requesting(signal')
  <2>1. signal = Report \/ Requesting(signal)
    BY <1>1, <1>2 DEF Sending
  <2>2. ASSUME signal = Report PROVE sealed' = "report" /\ signal' = <<>>
    BY <1>1, <2>2 DEF Report
  <2>3. ASSUME Requesting(signal)
        PROVE  \/ sealed' = "request end" /\ signal' = <<>>
               \/ sealed' = "request" /\ Requesting(signal')
    BY <1>1, <1>4, <2>3, RequestHead
  <2> QED
    BY <2>1, <2>2, <2>3
<1>7. ~Requesting(<<>>) /\ ~Requesting(Report)
  BY SignalFrames
<1>8. arriving => Requesting(signal)
  BY <1>1, <1>2 DEF Sending
<1>9. Sending'
  <2>1. signal' = <<>> \/ signal' = Report \/ Requesting(signal')
    BY <1>6
  <2>2. HasXtcp' /\ phase' = "REGISTERED" /\ tx' = "none"
    BY <1>1, <1>2
  <2>3. sealed' = "request" => Requesting(signal')
    BY <1>6
  <2>4. arriving' => sealed' \in {"request", "request end"}
    BY <1>3, <1>6, <1>7, <1>8
  <2>5. ~garbled'
    BY <1>2, <1>3 DEF Sending
  <2> QED
    BY <2>1, <2>2, <2>3, <2>4, <2>5 DEF Sending
<1>10. ServerTypes'
  BY <1>1, <1>2, TypesKept
<1>11. ASSUME ~misbehaved PROVE Answering'
  <2>1. Answering
    BY <1>2, <1>11 DEF Honest
  <2>2. (\A k : Coming(k)' <=> Coming(k)) /\ (\A k : Once(k)' <=> Once(k))
    BY <1>2, Kept
  <2>3. visitor_role' <=> visitor_role
    BY <1>2 DEF visitor_role
  <2>4. sealed' \notin {"proxy", "ping"}
    BY <1>6
  <2>5. Asked(tx = "proxy", sealed = "proxy", "proxy", phase = "REGISTERING" /\ proxy_queued)'
    BY <1>1, <1>2, <1>3, <2>1, <2>2, <2>4 DEF Answering, Asked
  <2>6. Asked(tx = "ping", sealed = "ping", "pong", phase = "REGISTERED" /\ ping_pending)'
    BY <1>1, <1>2, <1>3, <2>1, <2>2, <2>4 DEF Answering, Asked
  <2>7. /\ Requesting(signal') => Requesting(signal) /\ sealed' # "request end"
        /\ sealed' = "request end" => Requesting(signal)
    BY <1>6, <1>7
  <2>8. Asked(Requesting(signal), sealed = "request end", "signal", HasXtcp /\ phase = "REGISTERED" /\ awaiting)'
    BY <1>1, <1>2, <1>3, <2>1, <2>2, <2>7 DEF Answering, Asked
  <2> QED
    BY <1>2, <1>3, <2>1, <2>2, <2>3, <2>5, <2>6, <2>8 DEF Answering
<1>12. tx' \in {"none", "proxy", "ping"} /\ sealed' \in {"none", "proxy", "ping"} \cup SignalKinds
  BY <1>1, <1>5
<1> QED
  BY <1>1, <1>3, <1>5, <1>9, <1>10, <1>11, <1>12, RecordsInv

-----------------------------------------------------------------------------
(* The server and the network. *)

\* The server acts on a session that goes on.
LEMMA ServerFacts ==
    ASSUME Inv, MayAct, UNCHANGED <<SessionVars, ring>>
    PROVE  /\ TypeOK /\ Phased /\ Sending /\ Honest /\ result = "OK" /\ ~freed /\ closed = "no" /\ ~transport_eof
           /\ UNCHANGED <<ownVars, loopVars, phase, result>> /\ UNCHANGED <<loginVars, timers>>
           /\ UNCHANGED <<messageVars, sendVars, signalVars>> /\ UNCHANGED receiveVars /\ UNCHANGED resourceVars
           /\ UNCHANGED <<role, freed, at, phase, result, hs, output, proxy_queued, ping_pending, pongs, started>>
           /\ UNCHANGED <<tx, sealed, signal, awaiting, rx, plain, xtcp, transport_eof, ring>>
           /\ HasXtcp' = HasXtcp /\ at' # "destroy" /\ at' # "feed"
<1>1. TypeOK /\ Looping /\ Phased /\ Sending /\ Honest /\ at \in {"idle", "run"} /\ result = "OK" /\ closed = "no"
  BY DEF Inv, MayAct
<1>2. ~freed /\ ~transport_eof
  BY <1>1 DEF Looping, Phased
<1>3. /\ UNCHANGED <<ownVars, loopVars, phase, result>> /\ UNCHANGED <<loginVars, timers>>
      /\ UNCHANGED <<messageVars, sendVars, signalVars>> /\ UNCHANGED receiveVars /\ UNCHANGED resourceVars
      /\ UNCHANGED <<transport_eof, ring>>
  BY DEF SessionVars
<1>4. /\ UNCHANGED <<role, freed, at, phase, result, hs, output, proxy_queued, ping_pending, pongs, started>>
      /\ UNCHANGED <<tx, sealed, signal, awaiting, rx, plain, xtcp, transport_eof, ring>>
  BY <1>3 DEF ownVars, loopVars, loginVars, messageVars, sendVars, signalVars, receiveVars, resourceVars
<1>5. HasXtcp' = HasXtcp
  BY <1>4 DEF HasXtcp
<1>6. at' # "destroy" /\ at' # "feed"
  BY <1>1, <1>4
<1> QED
  BY <1>1, <1>2, <1>3, <1>4, <1>5, <1>6

\* What a step of the server shows to keep the invariant.
LEMMA ServerInv ==
    ASSUME Inv, MayAct, UNCHANGED <<SessionVars, ring>>, arriving' = arriving, garbled' = garbled,
           net' \in Seq(Units), closed' \in {"no", "fin", "eof", "torn"}, greeted' \in 0..2, owed' \subseteq owed,
           refused' \subseteq Kinds, misbehaved' \in BOOLEAN, Honest'
    PROVE  Inv'
<1>1. /\ TypeOK /\ Phased /\ Sending /\ result = "OK" /\ ~freed /\ ~transport_eof
      /\ HasXtcp' = HasXtcp /\ at' # "destroy" /\ at' # "feed"
  BY ServerFacts
<1>2. /\ UNCHANGED <<ownVars, loopVars, phase, result>> /\ UNCHANGED <<loginVars, timers>>
      /\ UNCHANGED <<messageVars, sendVars, signalVars>> /\ UNCHANGED receiveVars /\ UNCHANGED resourceVars
  BY ServerFacts
<1>3. /\ UNCHANGED <<role, freed, at, phase, result, hs, output, proxy_queued, ping_pending, pongs, started>>
      /\ UNCHANGED <<tx, sealed, signal, awaiting, rx, plain, xtcp, transport_eof, ring>>
  BY ServerFacts
<1>4. TypeOK'
  <2>0. StreamTypes /\ ServerTypes
    BY <1>1, TypeParts
  <2>1. StreamTypes'
    BY <1>3, <2>0 DEF StreamTypes
  <2>2. owed' \subseteq Kinds
    BY <2>0 DEF ServerTypes
  <2>3. ServerTypes'
    BY <2>0, <2>2 DEF ServerTypes
  <2> QED
    BY <1>1, <1>2, <2>1, <2>3, TypesKept, NextTypes
<1>5. owed = {} => owed' = {}
  OBVIOUS
<1>6. Phased'
  BY <1>1, <1>3, <1>5 DEF Phased
<1>7. Sending'
  BY <1>1, <1>3 DEF Sending
<1>8. result' = result /\ freed' = freed
  BY <1>3
<1> QED
  BY <1>1, <1>4, <1>6, <1>7, <1>8, GoesOn

\* A message of the server is one of the two forms.
LEMMA SendsMessage ==
    ASSUME Inv, NEW kind \in Kinds, NEW ok \in BOOLEAN, Sends(kind, ok)
    PROVE  /\ MayAct /\ ~misbehaved /\ UNCHANGED <<SessionVars, ring>> /\ UNCHANGED <<closed, arriving, garbled>>
           /\ net' \in Seq(Units)
           /\ \E m : net' = net \o m /\ (m = Whole(kind, ok) \/ (greeted = 2 /\ m = Split(kind, ok)))
<1>1. MayAct /\ ~misbehaved /\ UNCHANGED <<SessionVars, ring>> /\ UNCHANGED <<closed, arriving, garbled>>
  BY DEF Sends
<1>2. PICK m : net' = net \o m /\ (m = Whole(kind, ok) \/ (greeted = 2 /\ m = Split(kind, ok)))
  BY DEF Sends
<1>3. TypeOK /\ rx' = rx /\ plain' = plain /\ ring' = ring
  BY <1>1, ServerFacts
<1>4. m = Whole(kind, ok) \/ m = Split(kind, ok)
  BY <1>2
<1>5. m \in Seq(Units)
  BY <1>4, MessageEnds, Zenon
<1>6. net' \in Seq(Units)
  BY <1>2, <1>3, <1>5, SendWire
<1> QED
  BY <1>1, <1>2, <1>6

\* What is on the wire after a message.
LEMMA SendsWire ==
    ASSUME Inv, NEW kind \in Kinds, NEW ok \in BOOLEAN, Sends(kind, ok), greeted = 2 => kind \notin {"hello", "login"},
           refused \subseteq refused', ok \/ kind \in refused' \ {"work", "signal"}
    PROVE  /\ \A k : Coming(k)' <=> Coming(k) \/ k = kind
           /\ \A k : Once(k) /\ (k = kind => ~Coming(k)) => Once(k)'
           /\ Ordered(Wire) /\ (kind = "login" => Coming("hello")) => Ordered(Wire')
           /\ Proper(Wire, refused) => Proper(Wire', refused')
<1>1. PICK m : net' = net \o m /\ (m = Whole(kind, ok) \/ (greeted = 2 /\ m = Split(kind, ok)))
  BY SendsMessage
<1>2. TypeOK /\ rx' = rx /\ plain' = plain /\ ring' = ring
  BY SendsMessage, ServerFacts
<1>3. m = Whole(kind, ok) \/ (m = Split(kind, ok) /\ kind \notin {"hello", "login"})
  BY <1>1
<1> QED
  BY <1>1, <1>2, <1>3, Sent

\* The answers to the login.
LEMMA ServerGreetsInv ==
    ASSUME Inv, NEW ok \in BOOLEAN, ServerGreets(ok)
    PROVE  Inv'
<1>1. PICK kind \in {"hello", "login"} :
         /\ Sends(kind, ok)
         /\ kind = "hello" => greeted = 0
         /\ kind = "login" => greeted = 1
         /\ refused' = refused \cup (IF ok THEN {} ELSE {kind})
  BY DEF ServerGreets
<1>2. greeted' = greeted + 1 /\ owed' = owed /\ misbehaved' = misbehaved
  BY DEF ServerGreets
<1>3. kind \in Kinds
  BY DEF Kinds
<1>4. MayAct /\ ~misbehaved /\ UNCHANGED <<SessionVars, ring>> /\ UNCHANGED <<closed, arriving, garbled>> /\ net' \in Seq(Units)
  BY <1>1, <1>3, SendsMessage
<1>5. TypeOK /\ Phased /\ Honest /\ result = "OK" /\ closed = "no" /\ HasXtcp' = HasXtcp
  BY <1>4, ServerFacts
<1>6. /\ UNCHANGED <<role, freed, at, phase, result, hs, output, proxy_queued, ping_pending, pongs, started>>
      /\ UNCHANGED <<tx, sealed, signal, awaiting, rx, plain, xtcp, transport_eof, ring>>
  BY <1>4, ServerFacts
<1>7. refused \subseteq refused' /\ (ok \/ kind \in refused' \ {"work", "signal"}) /\ refused' \subseteq refused \cup {kind}
  BY <1>1
<1>8. greeted \in 0..1 /\ greeted' \in 1..2
  BY <1>1, <1>2
<1>9. Greeting /\ Answering /\ Proper(Wire, refused)
  BY <1>4, <1>5 DEF Honest
<1>10. greeted # 2
  BY <1>8
<1>11. phase = "AUTHENTICATING"
  BY <1>9, <1>10 DEF Greeting
<1>12. /\ \A k : Coming(k)' <=> Coming(k) \/ k = kind
       /\ \A k : Once(k) /\ (k = kind => ~Coming(k)) => Once(k)'
       /\ Ordered(Wire) /\ (kind = "login" => Coming("hello")) => Ordered(Wire')
       /\ Proper(Wire, refused) => Proper(Wire', refused')
  BY <1>1, <1>3, <1>7, <1>10, SendsWire
<1>13. ~Coming("login")
  BY <1>9, <1>10 DEF Greeting
<1>14. Early' <=> Early
  BY <1>6 DEF Early
<1>15. CASE kind = "hello"
  <2>1. greeted = 0 /\ greeted' = 1
    BY <1>1, <1>2, <1>15
  <2>2. ~Coming("hello")
    BY <1>9, <2>1 DEF Greeting
  <2>3. hs # "LOGIN" /\ hs # "TAKEN"
    BY <1>5, <1>9, <1>11, <2>1 DEF Greeting, Phased
  <2>4. Early
    BY <1>5, <2>3 DEF Early, TypeOK
  <2>5. Ordered(Wire')
    BY <1>9, <1>12, <1>15, <2>4 DEF Greeting
  <2>6. Once("hello")' /\ Once("login")'
    BY <1>9, <1>12, <1>13, <2>2 DEF Greeting
  <2>7. Coming("hello")' /\ ~Coming("login")'
    BY <1>12, <1>13, <1>15
  <2>8. hs' # "LOGIN" /\ phase' = "AUTHENTICATING" /\ greeted' >= 1
    BY <1>6, <1>11, <2>1, <2>3
  <2> QED
    <3>1. Greeting'
      BY <1>14, <2>4, <2>5, <2>6, <2>7, <2>8 DEF Greeting
    <3>2. Answering'
      <4>1. visitor_role' <=> visitor_role
        BY <1>6 DEF visitor_role
      <4>2. /\ \A k \in {"proxy", "pong", "signal", "work"} : Coming(k)' <=> Coming(k)
            /\ \A k \in {"proxy", "pong", "signal", "work"} : Once(k) => Once(k)'
        BY <1>12, <1>15
      <4> QED
        BY <1>2, <1>5, <1>6, <1>9, <4>1, <4>2 DEF Answering, Asked
    <3>3. Honest'
      BY <1>9, <1>12, <3>1, <3>2 DEF Honest
    <3>4. greeted' \in 0..2 /\ owed' \subseteq owed /\ refused' \subseteq Kinds /\ misbehaved' \in BOOLEAN
      BY <1>2, <1>3, <1>5, <1>7, <1>8 DEF TypeOK
    <3> QED
      BY <1>4, <1>5, <3>3, <3>4, ServerInv
<1>16. CASE kind = "login"
  <2>1. greeted = 1 /\ greeted' = 2
    BY <1>1, <1>2, <1>16
  <2>2. Early => Coming("hello")
    BY <1>5, <1>9, <2>1 DEF Greeting
  <2>3. Early => Ordered(Wire')
    BY <1>9, <1>12, <2>2 DEF Greeting
  <2>4. Once("hello")' /\ Once("login")'
    BY <1>9, <1>12, <1>13, <1>16 DEF Greeting
  <2>5. (Coming("hello")' <=> Coming("hello")) /\ Coming("login")'
    BY <1>12, <1>16
  <2>6. hs' = hs /\ phase' = "AUTHENTICATING" /\ greeted' >= 1 /\ closed' = closed
    BY <1>4, <1>6, <1>11, <2>1
  <2> QED
    <3>1. Greeting'
      BY <1>9, <1>11, <1>14, <2>1, <2>2, <2>3, <2>4, <2>5, <2>6 DEF Greeting
    <3>2. Answering'
      <4>1. visitor_role' <=> visitor_role
        BY <1>6 DEF visitor_role
      <4>2. /\ \A k \in {"proxy", "pong", "signal", "work"} : Coming(k)' <=> Coming(k)
            /\ \A k \in {"proxy", "pong", "signal", "work"} : Once(k) => Once(k)'
        BY <1>12, <1>16
      <4> QED
        BY <1>2, <1>5, <1>6, <1>9, <4>1, <4>2 DEF Answering, Asked
    <3>3. Honest'
      BY <1>9, <1>12, <3>1, <3>2 DEF Honest
    <3>4. greeted' \in 0..2 /\ owed' \subseteq owed /\ refused' \subseteq Kinds /\ misbehaved' \in BOOLEAN
      BY <1>2, <1>3, <1>5, <1>7, <1>8 DEF TypeOK
    <3> QED
      BY <1>4, <1>5, <3>3, <3>4, ServerInv
<1> QED
  BY <1>15, <1>16

\* The answer to a request, which the server owes.
LEMMA ServerAnswersInv ==
    ASSUME Inv, NEW kind \in Kinds, NEW ok \in BOOLEAN, ServerAnswers(kind, ok)
    PROVE  Inv'
<1>1. /\ greeted = 2 /\ kind \in owed /\ (kind = "signal" => ok) /\ Sends(kind, ok) /\ owed' = owed \ {kind}
      /\ refused' = refused \cup (IF ok THEN {} ELSE {kind}) /\ greeted' = greeted /\ misbehaved' = misbehaved
  BY DEF ServerAnswers
<1>2. MayAct /\ ~misbehaved /\ UNCHANGED <<SessionVars, ring>> /\ UNCHANGED <<closed, arriving, garbled>> /\ net' \in Seq(Units)
  BY <1>1, SendsMessage
<1>3. TypeOK /\ Phased /\ Honest /\ result = "OK" /\ closed = "no" /\ HasXtcp' = HasXtcp
  BY <1>2, ServerFacts
<1>4. /\ UNCHANGED <<role, freed, at, phase, result, hs, output, proxy_queued, ping_pending, pongs, started>>
      /\ UNCHANGED <<tx, sealed, signal, awaiting, rx, plain, xtcp, transport_eof, ring>>
  BY <1>2, ServerFacts
<1>5. Greeting /\ Answering /\ Proper(Wire, refused)
  BY <1>2, <1>3 DEF Honest
<1>6. kind \in {"proxy", "pong", "signal"}
  BY <1>1, <1>5 DEF Answering
<1>7. refused \subseteq refused' /\ (ok \/ kind \in refused' \ {"work", "signal"}) /\ refused' \subseteq refused \cup {kind}
  BY <1>1, <1>6
<1>8. ~Coming(kind)
  BY <1>1, <1>5, <1>6 DEF Answering, Asked
<1>9. phase # "AUTHENTICATING"
  BY <1>1, <1>3 DEF Phased
<1>10. ~Early /\ (Early' <=> Early) /\ (visitor_role' <=> visitor_role)
  BY <1>3, <1>4, <1>9 DEF Early, Phased, visitor_role
<1>11. /\ \A k : Coming(k)' <=> Coming(k) \/ k = kind
       /\ \A k : Once(k) /\ (k = kind => ~Coming(k)) => Once(k)'
       /\ Proper(Wire, refused) => Proper(Wire', refused')
  BY <1>1, <1>6, <1>7, SendsWire
<1>12. /\ \A k : Once(k) => Once(k)'
       /\ Coming("hello")' <=> Coming("hello")
       /\ Coming("login")' <=> Coming("login")
       /\ Coming("work")' <=> Coming("work")
  BY <1>6, <1>8, <1>11
<1>13. Greeting'
  BY <1>1, <1>2, <1>4, <1>5, <1>9, <1>10, <1>12 DEF Greeting
<1>14. \A k : k \in owed' <=> k \in owed /\ k # kind
  BY <1>1
<1>15. Answering'
  <2>1. Asked(tx = "proxy", sealed = "proxy", "proxy", phase = "REGISTERING" /\ proxy_queued)'
    BY <1>1, <1>4, <1>5, <1>11, <1>12, <1>14 DEF Answering, Asked
  <2>2. Asked(tx = "ping", sealed = "ping", "pong", phase = "REGISTERED" /\ ping_pending)'
    BY <1>1, <1>4, <1>5, <1>11, <1>12, <1>14 DEF Answering, Asked
  <2>3. Asked(Requesting(signal), sealed = "request end", "signal", HasXtcp /\ phase = "REGISTERED" /\ awaiting)'
    BY <1>1, <1>3, <1>4, <1>5, <1>11, <1>12, <1>14 DEF Answering, Asked
  <2>4. owed' \subseteq {"proxy", "pong", "signal"}
    BY <1>1, <1>5 DEF Answering
  <2> QED
    BY <1>4, <1>5, <1>10, <1>12, <2>1, <2>2, <2>3, <2>4 DEF Answering
<1>16. Honest'
  BY <1>5, <1>11, <1>13, <1>15 DEF Honest
<1>17. greeted' \in 0..2 /\ owed' \subseteq owed /\ refused' \subseteq Kinds /\ misbehaved' \in BOOLEAN /\ closed' \in {"no", "fin", "eof", "torn"}
  BY <1>1, <1>2, <1>3, <1>7 DEF TypeOK
<1> QED
  BY <1>2, <1>16, <1>17, ServerInv

\* The server asks for work.
LEMMA ServerAsksInv ==
    ASSUME Inv, ServerAsks
    PROVE  Inv'
<1>1. /\ greeted = 2 /\ ~visitor_role /\ proxy_queued /\ Sends("work", TRUE)
      /\ greeted' = greeted /\ owed' = owed /\ refused' = refused /\ misbehaved' = misbehaved
  BY DEF ServerAsks
<1>2. "work" \in Kinds /\ TRUE \in BOOLEAN
  BY DEF Kinds
<1>3. MayAct /\ ~misbehaved /\ UNCHANGED <<SessionVars, ring>> /\ UNCHANGED <<closed, arriving, garbled>> /\ net' \in Seq(Units)
  BY <1>1, <1>2, SendsMessage
<1>4. TypeOK /\ Phased /\ Honest /\ result = "OK" /\ closed = "no" /\ HasXtcp' = HasXtcp
  BY <1>3, ServerFacts
<1>5. /\ UNCHANGED <<role, freed, at, phase, result, hs, output, proxy_queued, ping_pending, pongs, started>>
      /\ UNCHANGED <<tx, sealed, signal, awaiting, rx, plain, xtcp, transport_eof, ring>>
  BY <1>3, ServerFacts
<1>6. Greeting /\ Answering /\ Proper(Wire, refused)
  BY <1>3, <1>4 DEF Honest
<1>7. phase # "AUTHENTICATING"
  BY <1>1, <1>4 DEF Phased
<1>8. ~Early /\ (Early' <=> Early) /\ (visitor_role' <=> visitor_role)
  BY <1>4, <1>5, <1>7 DEF Early, Phased, visitor_role
<1>9. /\ \A k : Coming(k)' <=> Coming(k) \/ k = "work"
      /\ \A k : Once(k) /\ (k = "work" => ~Coming(k)) => Once(k)'
      /\ Proper(Wire, refused) => Proper(Wire', refused')
  BY <1>1, <1>2, SendsWire
<1>10. /\ \A k \in {"hello", "login", "proxy", "pong", "signal"} : Coming(k)' <=> Coming(k)
       /\ \A k \in {"hello", "login", "proxy", "pong", "signal"} : Once(k) => Once(k)'
  BY <1>9
<1>11. Greeting'
  BY <1>1, <1>3, <1>5, <1>6, <1>7, <1>8, <1>10 DEF Greeting
<1>12. Answering'
  BY <1>1, <1>4, <1>5, <1>6, <1>7, <1>8, <1>10 DEF Answering, Asked
<1>13. Honest'
  BY <1>6, <1>9, <1>11, <1>12 DEF Honest
<1>14. greeted' \in 0..2 /\ owed' \subseteq owed /\ refused' \subseteq Kinds /\ misbehaved' \in BOOLEAN /\ closed' \in {"no", "fin", "eof", "torn"}
  BY <1>1, <1>3, <1>4 DEF TypeOK
<1> QED
  BY <1>3, <1>13, <1>14, ServerInv

\* The last message of a server that breaks the protocol.
LEMMA ServerMisbehavesInv ==
    ASSUME Inv, NEW kind \in Kinds, NEW ok \in BOOLEAN, ServerMisbehaves(kind, ok)
    PROVE  Inv'
<1>1. Sends(kind, ok) /\ misbehaved' = TRUE /\ greeted' = greeted /\ owed' = owed /\ refused' = refused
  BY DEF ServerMisbehaves
<1>2. MayAct /\ UNCHANGED <<SessionVars, ring>> /\ UNCHANGED <<closed, arriving, garbled>> /\ net' \in Seq(Units)
  BY <1>1, SendsMessage
<1>3. TypeOK
  BY DEF Inv
<1>4. Honest'
  BY <1>1 DEF Honest
<1>5. greeted' \in 0..2 /\ owed' \subseteq owed /\ refused' \subseteq Kinds /\ misbehaved' \in BOOLEAN /\ closed' \in {"no", "fin", "eof", "torn"}
  BY <1>1, <1>2, <1>3 DEF TypeOK
<1> QED
  BY <1>2, <1>4, <1>5, ServerInv

\* The stream or the connection ends.
LEMMA ServerClosesInv ==
    ASSUME Inv, NEW n \in 0..Len(net), ServerCloses(n)
    PROVE  Inv'
<1>1. /\ MayAct /\ net' = SubSeq(net, 1, n) /\ closed' \in {"fin", "eof", "torn"} /\ UNCHANGED <<SessionVars, ring>>
      /\ UNCHANGED <<greeted, owed, arriving, garbled, refused, misbehaved>>
  BY DEF ServerCloses
<1>2. TypeOK /\ Phased /\ Honest /\ result = "OK" /\ HasXtcp' = HasXtcp
  BY <1>1, ServerFacts
<1>3. /\ UNCHANGED <<role, freed, at, phase, result, hs, output, proxy_queued, ping_pending, pongs, started>>
      /\ UNCHANGED <<tx, sealed, signal, awaiting, rx, plain, xtcp, transport_eof, ring>>
  BY <1>1, ServerFacts
<1>4. net' \in Seq(Units)
  BY <1>1, <1>2, <1>3, LossWire
<1>5. /\ \A k : Coming(k)' => Coming(k)
      /\ \A k : Once(k) => Once(k)'
      /\ Ordered(Wire) => Ordered(Wire')
      /\ Proper(Wire, refused) => Proper(Wire', refused)
  BY <1>1, <1>2, <1>3, Lost
<1>6. (Early' <=> Early) /\ (visitor_role' <=> visitor_role)
  BY <1>3 DEF Early, visitor_role
<1>7. ASSUME ~misbehaved PROVE Greeting' /\ Answering' /\ Proper(Wire', refused')
  <2>1. Greeting /\ Answering /\ Proper(Wire, refused)
    BY <1>2, <1>7 DEF Honest
  <2>2. Greeting'
    BY <1>1, <1>3, <1>5, <1>6, <2>1 DEF Greeting
  <2>3. Answering'
    BY <1>1, <1>2, <1>3, <1>5, <1>6, <2>1 DEF Answering, Asked
  <2> QED
    BY <1>1, <1>5, <2>1, <2>2, <2>3
<1>8. Honest'
  BY <1>1, <1>7 DEF Honest
<1>9. greeted' \in 0..2 /\ owed' \subseteq owed /\ refused' \subseteq Kinds /\ misbehaved' \in BOOLEAN
  BY <1>1, <1>2 DEF TypeOK
<1> QED
  BY <1>1, <1>4, <1>8, <1>9, ServerInv

-----------------------------------------------------------------------------
(* The specification. *)

\* A session that was just created.
LEMMA InitInv == Init => Inv
<1> SUFFICES ASSUME Init PROVE Inv
  OBVIOUS
<1>1. <<>> \in Seq(Units) /\ <<>> \in Seq(Units \ {Part}) /\ <<>> \in Seq(SignalKinds) /\ Len(<<>>) = 0
  BY EmptySeq
<1>2. LoopTypes
  <2>1. role \in Roles /\ freed = FALSE /\ at = "idle" /\ turn = 0 /\ phase = "AUTHENTICATING" /\ result = "OK"
    BY DEF Init
  <2>2. 0 \in 0..(Turns - 1) /\ "OK" \in Results
    BY Sizes DEF Results
  <2> QED
    BY <2>1, <2>2 DEF LoopTypes
<1>3. LoginTypes
  BY Sizes DEF Init, LoginTypes
<1>4. MessageTypes
  <2>1. /\ proxy_queued = FALSE /\ ping_pending = FALSE /\ pongs = 0 /\ started = 0
        /\ tx = "none" /\ sealed = "none" /\ signal = <<>> /\ awaiting = FALSE
    BY DEF Init
  <2>2. pongs \in 0..2 /\ started \in 0..2
    BY <2>1
  <2> QED
    BY <1>1, <2>1, <2>2 DEF MessageTypes
<1>5. ReceiveTypes
  <2>1. rx = <<>> /\ record = FALSE /\ plain = <<>> /\ half = FALSE
    BY DEF Init
  <2>2. Len(rx) <= RxUnits /\ Len(plain) <= 1
    BY <1>1, <2>1, Sizes
  <2> QED
    BY <1>1, <2>1, <2>2 DEF ReceiveTypes
<1>6. ResourceTypes
  BY DEF Init, ResourceTypes
<1>7. StreamTypes
  BY <1>1 DEF Init, StreamTypes
<1>8. ServerTypes
  <2>1. greeted = 0 /\ owed = {} /\ arriving = FALSE /\ garbled = FALSE /\ refused = {} /\ misbehaved = FALSE
    BY DEF Init
  <2>2. greeted \in 0..2
    BY <2>1
  <2> QED
    BY <2>1, <2>2 DEF ServerTypes
<1>9. TypeOK
  BY <1>2, <1>3, <1>4, <1>5, <1>6, <1>7, <1>8, TypeParts
<1>10. Looping
  BY DEF Init, Looping
<1>11. Phased
  BY Sizes DEF Init, Phased
<1>12. Sending
  BY DEF Init, Sending
<1>13. /\ plain = <<>> /\ rx = <<>> /\ ring = <<>> /\ net = <<>> /\ greeted = 0 /\ owed = {} /\ signal = <<>>
       /\ tx = "none" /\ sealed = "none" /\ phase = "AUTHENTICATING" /\ hs = "SEND" /\ result = "OK"
  BY DEF Init
<1>14. Wire = <<>> /\ Len(Wire) = 0
  BY <1>1, <1>13, ConcatEmptySeq DEF Wire
<1>15. \A i : i \notin 1..Len(Wire)
  BY <1>14
<1>16. (\A kind : ~Coming(kind) /\ Once(kind)) /\ Ordered(Wire) /\ Proper(Wire, refused)
  BY <1>15 DEF Coming, Once, Ends, Single, Ordered, Proper
<1>17. Greeting
  BY <1>13, <1>16 DEF Greeting
<1>18. Answering
  BY <1>13, <1>16 DEF Answering, Asked, Requesting
<1>19. Honest
  BY <1>16, <1>17, <1>18 DEF Honest
<1>20. ServerNeverAccused
  BY <1>13, AccusedWhen DEF Justified
<1> QED
  BY <1>9, <1>10, <1>11, <1>12, <1>19, <1>20 DEF Inv

\* Every step keeps the invariant.
LEMMA NextInv == Inv /\ [Next]_vars => Inv'
<1> SUFFICES ASSUME Inv, [Next]_vars PROVE Inv'
  OBVIOUS
<1>1. ASSUME NEW elapsed \in 0..MaxElapsed, Begin(elapsed) PROVE Inv'
  BY <1>1, StepBeginsInv, NeutralStepsInv DEF Begin
<1>2. ASSUME Input PROVE Inv'
  <2>1. CASE \E n \in 1..RxUnits : ReadStream(n)
    BY <2>1, ReadStreamInv
  <2>2. CASE ReadNothing
    BY <2>2, LoopStepsInv
  <2>3. CASE ReadEof \/ HandshakeRefuses \/ ReaderFails \/ StartFails \/ ConsumeFails
    BY <2>3, NeutralStepsInv
  <2>4. CASE HandshakePart \/ FeedPart
    BY <2>4, PartsInv
  <2>5. CASE accept_hello
    BY <2>5, AcceptHelloInv
  <2>6. CASE finish_login
    BY <2>6, FinishLoginInv
  <2>7. CASE HandshakeFails
    BY <2>7, HandshakeFailsInv
  <2>8. CASE FeedRecord
    BY <2>8, FeedRecordInv
  <2>9. CASE FrameHead
    BY <2>9, FrameHeadInv
  <2>10. CASE NewProxyResp
    BY <2>10, NewProxyRespInv
  <2>11. CASE Pong
    BY <2>11, PongInv
  <2>12. CASE ReqWorkConn
    BY <2>12, ReqWorkConnInv
  <2>13. CASE Signal
    BY <2>13, SignalInv
  <2>14. CASE RefusedFrame
    BY <2>14, RefusedFrameInv
  <2> QED
    BY <1>2, <2>1, <2>2, <2>3, <2>4, <2>5, <2>6, <2>7, <2>8, <2>9, <2>10, <2>11, <2>12, <2>13, <2>14 DEF Input
<1>3. ASSUME Output PROVE Inv'
  <2>1. CASE SkipOutput \/ WriteNothing
    BY <2>1, LoopStepsInv
  <2>2. CASE PrepareFails \/ OutputFails
    BY <2>2, NeutralStepsInv
  <2>3. CASE prepare_control
    BY <2>3, PrepareInv
  <2>4. CASE WriteLogin
    BY <2>4, WriteLoginInv
  <2>5. CASE WriteRecord
    BY <2>5, WriteRecordInv
  <2>6. CASE SealMessage
    BY <2>6, SealMessageInv
  <2>7. CASE SealSignal
    BY <2>7, SealSignalInv
  <2> QED
    BY <1>3, <2>1, <2>2, <2>3, <2>4, <2>5, <2>6, <2>7 DEF Output
<1>4. ASSUME Run PROVE Inv'
  <2>1. ASSUME NEW n \in 0..Len(net), Work(n) PROVE Inv'
    BY <2>1, WorkInv
  <2>2. ASSUME NEW n \in 0..Len(net), XtcpWork(n) PROVE Inv'
    BY <2>2, XtcpWorkInv
  <2>3. CASE WorkFails
    BY <2>3, NeutralStepsInv
  <2> QED
    BY <1>4, <2>1, <2>2, <2>3 DEF Run
<1>5. ASSUME Continue PROVE Inv'
  <2>1. CASE StepEnds
    BY <2>1, LoopStepsInv
  <2>2. CASE check_eof
    BY <2>2, NeutralStepsInv
  <2> QED
    BY <1>2, <1>3, <1>4, <1>5, <2>1, <2>2 DEF Continue
<1>6. ASSUME Server PROVE Inv'
  <2>1. ASSUME NEW ok \in BOOLEAN, ServerGreets(ok) PROVE Inv'
    BY <2>1, ServerGreetsInv
  <2>2. ASSUME NEW kind \in Kinds, NEW ok \in BOOLEAN, ServerAnswers(kind, ok) PROVE Inv'
    BY <2>2, ServerAnswersInv
  <2>3. ASSUME NEW kind \in Kinds, NEW ok \in BOOLEAN, ServerMisbehaves(kind, ok) PROVE Inv'
    BY <2>3, ServerMisbehavesInv
  <2>4. CASE ServerAsks
    BY <2>4, ServerAsksInv
  <2>5. ASSUME NEW n \in 0..Len(net), ServerCloses(n) PROVE Inv'
    BY <2>5, ServerClosesInv
  <2> QED
    BY <1>6, <2>1, <2>2, <2>3, <2>4, <2>5 DEF Server
<1>7. CASE TransportFails
  BY <1>7, NeutralStepsInv
<1>8. CASE Cancel
  BY <1>8, CancelInv
<1>9. CASE Drain
  BY <1>9, DrainInv
<1>10. CASE Destroy
  BY <1>10, DestroyInv
<1>11. CASE Freed \/ UNCHANGED vars
  BY <1>11, StutterInv DEF Freed
<1> QED
  BY <1>1, <1>5, <1>6, <1>7, <1>8, <1>9, <1>10, <1>11 DEF Next

\* What the loop, the writer, the server and the wire hold fits together in every state of
\* efrp_session_step: each request is in one place, and each answer comes to a session that
\* expects it.
THEOREM SessionInvariant == Spec => []Inv
<1>1. Init => Inv
  BY InitInv
<1>2. Inv /\ [Next]_vars => Inv'
  BY NextInv
<1> QED
  BY <1>1, <1>2, PTL DEF Spec

\* accept_control and efrp_handshake_feed never return a protocol error, and never report a
\* refusal, because of a server that keeps to the protocol and did not refuse.
THEOREM ServerIsNeverAccused == Spec => []ServerNeverAccused
<1>1. Inv => ServerNeverAccused
  BY DEF Inv
<1> QED
  BY <1>1, SessionInvariant, PTL

\* prepare_control and control_output put nothing between the records of one frame.
THEOREM FramesAreContiguous == Spec => []FramesContiguous
<1>1. Inv => FramesContiguous
  BY DEF Inv, Sending, FramesContiguous
<1> QED
  BY <1>1, SessionInvariant, PTL

\* efrp_session_destroy frees a session only when its lease, its sockets and its XTCP
\* controller are gone.
THEOREM FreedIsClean == Spec => []FreedClean
<1>1. Inv => FreedClean
  BY DEF Inv, Looping, FreedClean
<1> QED
  BY <1>1, SessionInvariant, PTL

-----------------------------------------------------------------------------
(* The end of the input. *)

\* What a step that ends the session may report of the input.
ExactEnd ==
    /\ result' = "SESSION_CLOSED" /\ result = "OK" =>
          /\ phase # "AUTHENTICATING" /\ closed # "no"
          /\ net \o ring \o rx \o plain = <<>> /\ ~record /\ ~half
    /\ result' = "TRUNCATED" /\ result = "OK" =>
          closed = "torn" \/ record \/ half \/ phase = "AUTHENTICATING"

\* The results that are about the end of the input.
EndResults == {"SESSION_CLOSED", "TRUNCATED"}

\* fail() reports its code, or that the store could not be released.
LEMMA FailResult ==
    ASSUME NEW code, fail(code)
    PROVE  result' = code \/ result' = "STORAGE_ERROR"
  BY DEF fail

\* A step that does not fail, or fails for another reason, does not report the end.
LEMMA OtherEnd ==
    ASSUME \/ result' = result
           \/ \E code : fail(code) /\ code \notin EndResults
    PROVE  ExactEnd
<1>1. CASE result' = result
  BY <1>1 DEF ExactEnd
<1>2. ASSUME NEW code, fail(code), code \notin EndResults PROVE ExactEnd
  BY <1>2, FailResult DEF ExactEnd, EndResults
<1> QED
  BY <1>1, <1>2

\* Nothing is left when the stream has ended, and what is reported is what control_finish finds.
LEMMA EofEnd ==
    ASSUME Inv, ReadEof \/ check_eof
    PROVE  ExactEnd
<1>1. TypeOK /\ Looping /\ Phased
  BY DEF Inv
<1>2. /\ result = "OK" /\ NoPlain /\ rx = <<>> /\ ring = <<>>
      /\ (closed = "fin" /\ net = <<>>) \/ transport_eof
  BY Live DEF ReadEof, check_eof, AtEof
<1>3. net = <<>> /\ closed # "no"
  BY <1>1, <1>2 DEF Phased
<1>4. plain = <<>>
  BY <1>1, <1>2 DEF NoPlain, Phased
<1>5. net \o ring \o rx \o plain = <<>>
  BY <1>2, <1>3, <1>4, ConcatEmptySeq, EmptySeq
<1>6. result' = control_finish \/ result' = "STORAGE_ERROR" \/ (closed = "torn" /\ result' = "TRUNCATED")
  <2>1. CASE ReadEof
    BY <2>1, FailResult DEF ReadEof, StepFails
  <2>2. CASE check_eof
    BY <2>2, FailResult DEF check_eof, StepFails
  <2> QED
    BY <2>1, <2>2
<1>7. /\ control_finish = "SESSION_CLOSED" => phase # "AUTHENTICATING" /\ ~record /\ ~half
      /\ control_finish = "TRUNCATED" => phase = "AUTHENTICATING" \/ record \/ half
      /\ control_finish = "SESSION_CLOSED" \/ control_finish = "TRUNCATED"
  BY DEF control_finish
<1> QED
  BY <1>3, <1>5, <1>6, <1>7 DEF ExactEnd

\* Every other step.
LEMMA NextEnd ==
    ASSUME Inv, [Next]_vars
    PROVE  ExactEnd
<1>1. ASSUME NEW elapsed \in 0..MaxElapsed, Begin(elapsed) PROVE ExactEnd
  <2>1. ASSUME NEW n \in 0..Len(net), StepBegins(elapsed, n) PROVE ExactEnd
    BY <2>1, OtherEnd DEF StepBegins
  <2>2. CASE StepExpires(elapsed)
    BY <2>2, OtherEnd DEF StepExpires, StepFails, EndResults
  <2> QED
    BY <1>1, <2>1, <2>2 DEF Begin
<1>2. ASSUME Input PROVE ExactEnd
  <2>1. ASSUME NEW n \in 1..RxUnits, ReadStream(n) PROVE ExactEnd
    BY <2>1, OtherEnd DEF ReadStream
  <2>2. CASE ReadEof
    BY <2>2, EofEnd
  <2>3. CASE ReadNothing \/ HandshakePart \/ accept_hello \/ finish_login \/ FeedPart \/ FeedRecord
    BY <2>3, OtherEnd DEF ReadNothing, HandshakePart, accept_hello, finish_login, FeedPart, FeedRecord
  <2>4. CASE FrameHead \/ NewProxyResp \/ Pong \/ ReqWorkConn \/ Signal
    <3>1. Taken
      BY <2>4 DEF FrameHead, NewProxyResp, Pong, ReqWorkConn, Signal, FrameEnds
    <3> QED
      BY <3>1, OtherEnd DEF Taken
  <2>5. CASE HandshakeRefuses
    BY <2>5, OtherEnd DEF HandshakeRefuses, StepFails, EndResults
  <2>6. CASE ReaderFails \/ ConsumeFails
    BY <2>6, OtherEnd DEF ReaderFails, ConsumeFails, StepFails, EndResults
  <2>7. CASE StartFails
    BY <2>7, OtherEnd DEF StartFails, StepFails, EndResults
  <2>8. CASE HandshakeFails
    <3>1. \E code \in {"NEGOTIATION_FAILED", "LOGIN_REJECTED", "PROTOCOL_ERROR", "NO_MEMORY"} : fail(code)
      BY <2>8 DEF HandshakeFails, StepFails
    <3> QED
      BY <3>1, OtherEnd DEF EndResults
  <2>9. CASE RefusedFrame
    <3>1. \E code \in {"PROTOCOL_ERROR", "PROXY_REJECTED", "AUTHENTICATION_FAILED", "NO_MEMORY"} : fail(code)
      BY <2>9 DEF RefusedFrame, StepFails
    <3> QED
      BY <3>1, OtherEnd DEF EndResults
  <2> QED
    BY <1>2, <2>1, <2>2, <2>3, <2>4, <2>5, <2>6, <2>7, <2>8, <2>9 DEF Input
<1>3. ASSUME Output PROVE ExactEnd
  <2>1. CASE SkipOutput \/ prepare_control
    BY <2>1, OtherEnd DEF SkipOutput, prepare_control
  <2>2. CASE WriteLogin \/ WriteRecord \/ SealMessage \/ SealSignal \/ WriteNothing
    <3>1. Outputs
      BY <2>2 DEF WriteLogin, WriteRecord, SealMessage, SealSignal, WriteNothing
    <3> QED
      BY <3>1, OtherEnd DEF Outputs
  <2>3. CASE PrepareFails
    BY <2>3, OtherEnd DEF PrepareFails, StepFails, EndResults
  <2>4. CASE OutputFails
    BY <2>4, OtherEnd DEF OutputFails, StepFails, EndResults
  <2> QED
    BY <1>3, <2>1, <2>2, <2>3, <2>4 DEF Output
<1>4. ASSUME Run PROVE ExactEnd
  <2>1. ASSUME NEW n \in 0..Len(net), Work(n) \/ XtcpWork(n) PROVE ExactEnd
    BY <2>1, OtherEnd DEF Work, XtcpWork, RunVars
  <2>2. CASE WorkFails
    BY <2>2, OtherEnd DEF WorkFails, StepFails, EndResults
  <2> QED
    BY <1>4, <2>1, <2>2 DEF Run
<1>5. CASE StepEnds
  BY <1>5, OtherEnd DEF StepEnds
<1>6. CASE check_eof
  BY <1>6, EofEnd
<1>7. CASE TransportFails
  BY <1>7, OtherEnd DEF TransportFails, StepFails, EndResults
<1>8. CASE Cancel
  BY <1>8, OtherEnd DEF Cancel, EndResults
<1>9. CASE Drain
  BY <1>9, OtherEnd DEF Drain, ended
<1>10. CASE Destroy
  BY <1>10, OtherEnd DEF Destroy
<1>11. ASSUME Server PROVE ExactEnd
  <2>1. ASSUME NEW kind, NEW ok, Sends(kind, ok) PROVE ExactEnd
    BY <2>1, OtherEnd DEF Sends, SessionVars
  <2>2. ASSUME NEW n \in 0..Len(net), ServerCloses(n) PROVE ExactEnd
    BY <2>2, OtherEnd DEF ServerCloses, SessionVars
  <2> QED
    BY <1>11, <2>1, <2>2 DEF Server, ServerGreets, ServerAnswers, ServerMisbehaves, ServerAsks
<1>12. CASE Freed \/ UNCHANGED vars
  BY <1>12, OtherEnd DEF Freed, vars
<1> QED
  BY <1>1, <1>2, <1>3, <1>4, <1>5, <1>6, <1>7, <1>8, <1>9, <1>10, <1>11, <1>12 DEF Next, Continue

\* control_finish and check_eof report SESSION_CLOSED only when all that was received has been
\* used and ended with a frame, and TRUNCATED only when something was cut.
THEOREM EndsAreExact == Spec => EndIsExact
<1>1. Inv /\ [Next]_vars => [ExactEnd]_vars
  BY NextEnd
<1>2. Spec => []Inv
  BY SessionInvariant
<1> QED
  BY <1>1, <1>2, PTL DEF Spec, EndIsExact, ExactEnd

================================================================================
