--------------------------- MODULE BootstrapProofs ---------------------------
(***************************************************************************)
(* Proofs about Bootstrap: that a bootstrap settles what it leaves behind  *)
(* (BootstrapSettled) and that a session and the control that answered it  *)
(* agree (SessionAgrees), for every set of connections and for every set   *)
(* of client and server configurations.                                    *)
(*                                                                         *)
(* Agreement is a fact about what each end computed from the frames it     *)
(* read, so the invariant says which frames can be on their way, in which  *)
(* order, and what each end has made of the ones it has read.              *)
(***************************************************************************)
EXTENDS Bootstrap, SequenceTheorems, WellFoundedInduction, TLAPS

Dialing == {"dial", "opened", "connected", "greeted", "hello", "resp"}
\* The stages of the server's handler before it knows the wire protocol, and before the first message.
Early == {"none", "tls", "mux", "magic"}

\* What a hello of the client settles, and the run id that its login is given.
HelloOf(c) == NewServerHello(c, NewClientHello(c))
CryptoOf(c) == NewCryptoContext(NewClientHello(c), HelloOf(c))
RunOf(c) == IF accepted[c].first.v.run = Nil THEN c ELSE accepted[c].first.v.run

\* A connection that was not opened yet; one that has ended, failed or is established.
Untouched(c) ==
    /\ handler[c] = "none" /\ accepted[c] = NoConn
    /\ up[c] = <<>> /\ down[c] = <<>> /\ ~copen[c] /\ ~sopen[c] /\ ~cwait[c] /\ ~cut[c]
Opening(c) ==
    /\ at[c] \in {"none", "dial", "opened"} => Untouched(c)
    /\ at[c] = "failed" => ~copen[c]
    /\ at[c] \notin {"hello", "resp", "visiting"} => ~cwait[c]
    /\ handler[c] \in {"tls", "mux", "magic", "first", "message", "handle", "control", "pooled", "joined"} => sopen[c]
    /\ handler[c] \in {"handle", "control", "pooled", "joined"} => ~swait[c]
    /\ handler[c] = "ended" => ~sopen[c]
    /\ handler[c] = "pooled" => control # Nil

\* The order of the frames for the server.
Ordered(c, i) ==
    LET f == up[c][i]
        follows(t) == i > 1 => up[c][i - 1].t = t IN
    /\ f.t = "tls" => i = 1 /\ handler[c] \notin {"mux", "magic", "first", "message"}
    /\ f.t = "mux" => /\ handler[c] \notin {"magic", "first", "message"}
                      /\ handler[c] = "mux" => i = 1
                      /\ handler[c] = "tls" => i = 1 \/ (i = 2 /\ up[c][1].t = "tls")
    /\ f.t \in {"magic", "hello"} => client.wire = "v2"
    /\ f.t = "hello" => f.v = NewClientHello(c)
    /\ f.t \in {"hello", "NewWorkConn", "NewVisitorConn"} /\ client.wire = "v2" =>
           follows("magic") /\ (i = 1 => handler[c] \notin Early)
    /\ f.t = "Login" => /\ f.v \in Logins
                        /\ f.v.cred = NewAuthSetter /\ f.v.xtcp = client.xtcp /\ f.v.ssh = client.ssh
                        /\ client.wire = "v2" => follows("hello") /\ (i = 1 => handler[c] \notin Early \cup {"first"})
Uplink(c) ==
    /\ \A i \in 1..Len(up[c]) : Ordered(c, i)
    /\ cut[c] => up[c] = <<>>
    /\ at[c] = "greeted" /\ client.wire = "v2" /\ ~cut[c] =>
           IF up[c] = <<>> THEN handler[c] \notin Early \cup {"first"} ELSE up[c][Len(up[c])].t = "hello"

\* What the server has made of the frames it has read.
Acceptance(c) ==
    /\ handler[c] \in Early => accepted[c].wire = "v1" /\ accepted[c].first = Nil
    /\ handler[c] \in Early \cup {"first"} => ~accepted[c].hello
    /\ handler[c] = "message" => accepted[c].hello
    /\ handler[c] \in {"first", "message", "handle", "control"} => accepted[c].wire = client.wire
    /\ accepted[c].hello =>
           client.wire = "v2" /\ accepted[c].crypto = CryptoOf(c) /\ accepted[c].codec = HelloOf(c).codec
    /\ ~accepted[c].hello => accepted[c].crypto = Nil /\ accepted[c].codec = ""
    /\ handler[c] = "control" => accepted[c].first.t = "Login"
    /\ handler[c] \in {"handle", "control"} /\ accepted[c].first.t = "Login" =>
           LET m == accepted[c].first.v IN
           /\ m \in Logins /\ m.cred = NewAuthSetter /\ m.xtcp = client.xtcp /\ m.ssh = client.ssh
           /\ client.wire = "v2" => accepted[c].hello

\* What it has answered.
Downlink(c) ==
    \A i \in 1..Len(down[c]) :
        LET f == down[c][i] IN
        /\ f.t = "serverHello" /\ ~f.v.error => accepted[c].hello /\ f.v = HelloOf(c)
        /\ f.t = "LoginResp" /\ ~f.v.error => 
               handler[c] \in {"control", "ended"} /\ f.v.run = RunOf(c) /\ f.v.run \in RunIDs

\* What the client has made of the answers; there is one Dial at a time, and none beside a session.
Client(c) ==
    /\ at[c] = "resp" /\ client.wire = "v2" => exchange = [crypto |-> CryptoOf(c), codec |-> HelloOf(c).codec]
    /\ at[c] \in {"greeted", "hello", "resp", "session"} => MayLogin
    /\ at[c] \in Dialing => session = Nil /\ \A d \in Conns : at[d] \in Dialing => d = c
    /\ at[c] = "dial" => connector = "none"
    /\ at[c] = "session" => session # Nil /\ session.conn = c

KeysOf(c) ==
    IF client.ssh THEN Plain
    ELSE IF client.wire = "v2" THEN ClientKeys(client.secret, CryptoOf(c))
    ELSE V1Keys(client.secret)
Sessioned ==
    LET c == session.conn IN
    session # Nil =>
        /\ at[c] = "session" /\ handler[c] \in {"control", "ended"}
        /\ session.run = RunOf(c) /\ session.wire = client.wire /\ session.xtcp = client.xtcp
        /\ session.keys = KeysOf(c)
        /\ session.codec = (IF client.wire = "v2" THEN HelloOf(c).codec ELSE "")
Controlled ==
    LET c == control.conn IN
    control # Nil =>
        /\ handler[c] = "control"
        /\ control.run = RunOf(c) /\ control.wire = accepted[c].wire /\ control.codec = accepted[c].codec
        /\ control.keys = NewControlReadWriter(c) /\ control.xtcp = client.xtcp
        /\ control.xtcp => accepted[c].tls
        /\ ~client.ssh /\ server.method = "token" => client.secret = server.secret
Connector == connector = "open" => session # Nil \/ ~NoDial

Inv ==
    /\ TypeOK
    /\ \A c \in Conns : Opening(c) /\ Uplink(c) /\ Acceptance(c) /\ Downlink(c) /\ Client(c)
    /\ Sessioned /\ Controlled /\ Connector

-----------------------------------------------------------------------------
(* What the operators of the bootstrap return. *)

\* The selected algorithm is the first of the advertised ones that the server knows.
LEMMA SelectType ==
    ASSUME NEW algs \in Seq(STRING)
    PROVE  SelectAEADAlgorithm(algs) \in STRING \cup {Nil}
<1> DEFINE known == {i \in DOMAIN algs : algs[i] \in Supported}
<1>1. known \subseteq Nat /\ known \subseteq DOMAIN algs
  OBVIOUS
<1>2. CASE known = {}
  BY <1>2 DEF SelectAEADAlgorithm
<1>3. CASE known # {}
  <2> HIDE DEF known
  <2>1. PICK i \in known : \A j \in known : ~(<<j, i>> \in OpToRel(<, Nat))
    <3>1. \E i \in known : \A j \in known : ~(<<j, i>> \in OpToRel(<, Nat))
      BY <1>1, <1>3, NatLessThanWellFounded, WFMin
    <3> QED
      BY <3>1
  <2>2. \A j \in known : i <= j
    <3> TAKE j \in known
    <3>1. i \in Nat /\ j \in Nat
      BY <1>1
    <3>2. <<j, i>> \in Nat \X Nat /\ <<j, i>>[1] = j /\ <<j, i>>[2] = i
      BY <3>1
    <3>3. j < i => <<j, i>> \in OpToRel(<, Nat)
      BY <3>2 DEF OpToRel
    <3>4. ~(j < i)
      BY <2>1, <3>3
    <3> QED
      BY <3>1, <3>4
  <2>3. (CHOOSE k \in known : \A j \in known : k <= j) \in known
    BY <2>2
  <2>4. \A k \in known : algs[k] \in STRING
    BY <1>1
  <2> QED
    BY <1>3, <2>3, <2>4 DEF SelectAEADAlgorithm, known
<1> QED
  BY <1>2, <1>3

\* The configurations in use.
LEMMA SetupType ==
    ASSUME TypeOK
    PROVE  /\ client.wire \in {"v1", "v2"} /\ client.secret \in STRING /\ server.secret \in STRING
           /\ client.ssh \in BOOLEAN /\ client.xtcp \in BOOLEAN /\ client.mux \in BOOLEAN
           /\ client.method \in {"token", "oidc"} /\ server.method \in {"token", "oidc"}
           /\ client.hello.algs \in Seq(STRING) /\ client.hello.codecs \in SUBSET STRING
  BY BootstrapAssumption DEF TypeOK, ClientSet, ServerSet

\* The two hellos and what follows from them.
LEMMA HelloType ==
    ASSUME TypeOK, NEW c \in Conns
    PROVE  /\ NewClientHello(c) \in Hellos /\ HelloOf(c) \in ServerHellos /\ CryptoOf(c) \in Cryptos
           /\ HelloOf(c).codec \in Codecs
<1>1. NewClientHello(c) \in Hellos
  BY SetupType DEF NewClientHello, clientHelloWithCryptoRandom, Hellos
<1>2. NewClientHello(c).algs \in Seq(STRING)
  BY <1>1 DEF Hellos
<1>3. SelectAEADAlgorithm(NewClientHello(c).algs) \in STRING \cup {Nil}
  BY <1>2, SelectType
<1>4. SelectUDPPacketCodec(NewClientHello(c).codecs) \in Codecs
  BY DEF SelectUDPPacketCodec, Codecs
<1>5. HelloOf(c) \in ServerHellos /\ HelloOf(c).codec \in Codecs
  BY <1>3, <1>4 DEF HelloOf, NewServerHello, ServerHellos, RunIDs
<1>6. HelloOf(c).alg \in STRING \cup {Nil}
  BY <1>5 DEF ServerHellos
<1>7. CryptoOf(c) \in Cryptos
  BY <1>1, <1>5, <1>6 DEF CryptoOf, NewCryptoContext, HashCryptoTranscript, Cryptos
<1> QED
  BY <1>1, <1>5, <1>7

\* Keys of either role are keys of the channel.
LEMMA KeysType ==
    ASSUME NEW secret \in STRING, NEW crypto \in Cryptos \cup {Nil}
    PROVE  /\ ClientKeys(secret, crypto) \in [read : Keys, write : Keys]
           /\ ServerKeys(secret, crypto) \in [read : Keys, write : Keys]
           /\ V1Keys(secret) \in [read : Keys, write : Keys]
           /\ Plain \in [read : Keys, write : Keys]
  BY DEF ClientKeys, ServerKeys, V1Keys, Plain, Key, Keys

\* The frames that the client writes and that the server writes.
LEMMA FrameType ==
    ASSUME TypeOK, NEW c \in Conns
    PROVE  /\ Preamble \in Seq(UpFrames)
           /\ Frame("magic", Nil) \in UpFrames /\ Frame("hello", NewClientHello(c)) \in UpFrames
           /\ LoginMsg \in Logins /\ Frame("Login", LoginMsg) \in UpFrames
           /\ \A t \in {"NewWorkConn", "NewVisitorConn"} : Frame(t, [run |-> run, cred |-> SetNewWorkConn]) \in UpFrames
<1>1. NewAuthSetter \in Credentials /\ SetNewWorkConn \in Credentials
  BY SetupType DEF NewAuthSetter, SetNewWorkConn, GetAuthKey, generateAccessToken, Credentials
<1>2. run \in RunIDs
  BY DEF TypeOK
<1>3. LoginMsg \in Logins
  BY <1>1, <1>2, SetupType DEF LoginMsg, Logins
<1>4. Frame("tls", Nil) \in UpFrames /\ Frame("mux", Nil) \in UpFrames /\ Frame("magic", Nil) \in UpFrames
  BY DEF Frame, UpFrames
<1>5. Frame("hello", NewClientHello(c)) \in UpFrames
  BY HelloType DEF Frame, UpFrames
<1>6. Frame("Login", LoginMsg) \in UpFrames
  BY <1>3 DEF Frame, UpFrames
<1>7. ASSUME NEW t \in {"NewWorkConn", "NewVisitorConn"} PROVE Frame(t, [run |-> run, cred |-> SetNewWorkConn]) \in UpFrames
  BY <1>1, <1>2 DEF Frame, UpFrames
<1>8. Preamble \in Seq(UpFrames)
  BY <1>4 DEF Preamble
<1> QED
  BY <1>3, <1>4, <1>5, <1>6, <1>7, <1>8

\* Queues stay queues.
LEMMA SentType ==
    ASSUME TypeOK, NEW S, NEW q \in [Conns -> Seq(S)], NEW frames \in Seq(S), NEW c \in Conns
    PROVE  Sent(q, c, frames) \in [Conns -> Seq(S)]
  BY DEF Sent, TypeOK

\* A frame that is taken from a queue is one of its frames.
LEMMA TailType ==
    ASSUME NEW S, NEW q \in [Conns -> Seq(S)], NEW c \in Conns, q[c] # <<>>
    PROVE  [q EXCEPT ![c] = Tail(@)] \in [Conns -> Seq(S)] /\ Head(q[c]) \in S
<1>1. Tail(q[c]) \in Seq(S) /\ Head(q[c]) \in S
  OBVIOUS
<1> QED
  BY <1>1

-----------------------------------------------------------------------------
(* Every step keeps the types. *)

Step(c) ==
    \/ ClientStep(c) \/ ServerStep(c) \/ StartWork(c) \/ SessionEnds(c) \/ Cut(c)
    \/ ConnectMore(c, "work") \/ ConnectMore(c, "visitor")

\* The configurations are never changed.
LEMMA SetupKept ==
    ASSUME NEW c \in Conns, Step(c)
    PROVE  client' = client /\ server' = server
  BY DEF Step, ClientStep, ServerStep, setupVars, Connect, ConnectMore, WriteFirst, StartWork, SessionEnds, Cut, Dial, Open, OpenFails, DialConnect, SendHello, SendLogin, ReadServerHello, ReadLoginResp, DialFails, SendNewWorkConn, SendNewVisitorConn, ReadStart, ReadVisitorResp, ConnFails, CheckTLS, AcceptStream, CheckMagic, HandleClientHello, RefuseClientHello, ReadFirst, RegisterControl, RefuseLogin, RegisterWorkConn, RegisterVisitorConn, RefuseConn, AcceptFails, ControlEnds

\* The session that an accepted login makes.
LEMMA SessionMade ==
    ASSUME Inv, NEW c \in Conns, ReadLoginResp(c)
    PROVE  /\ session' \in Sessions /\ session'.conn = c
           /\ handler[c] \in {"control", "ended"}
           /\ session'.run = RunOf(c) /\ session'.wire = client.wire /\ session'.xtcp = client.xtcp
           /\ session'.keys = KeysOf(c)
           /\ session'.codec = (IF client.wire = "v2" THEN HelloOf(c).codec ELSE "")
<1> TypeOK
  BY DEF Inv
<1>1. down[c] # <<>> /\ Head(down[c]).t = "LoginResp" /\ ~Head(down[c]).v.error /\ at[c] = "resp"
  BY DEF ReadLoginResp, AcceptsResp, Arrived
<1>2. handler[c] \in {"control", "ended"} /\ Head(down[c]).v.run = RunOf(c) /\ RunOf(c) \in RunIDs
  <2>1. down[c] \in Seq(DownFrames) /\ Downlink(c)
    BY DEF Inv, TypeOK
  <2>2. 1 \in 1..Len(down[c]) /\ down[c][1] = Head(down[c])
    BY <1>1, <2>1
  <2> QED
    BY <1>1, <2>1, <2>2 DEF Downlink
<1>3. client.wire = "v2" => exchange.crypto = CryptoOf(c) /\ exchange.codec = HelloOf(c).codec
  BY <1>1 DEF Inv, Client
<1>4. ControlKeys = KeysOf(c)
  BY <1>3, SetupType DEF ControlKeys, KeysOf
<1>5. session' = [conn |-> c, run |-> RunOf(c), wire |-> client.wire, keys |-> KeysOf(c),
                  codec |-> (IF client.wire = "v2" THEN HelloOf(c).codec ELSE ""), xtcp |-> client.xtcp]
  BY <1>2, <1>3, <1>4 DEF ReadLoginResp
<1>6. session' \in Sessions
  <2>1. RunOf(c) \in RunIDs
    BY <1>2
  <2>2. KeysOf(c) \in [read : Keys, write : Keys]
    BY HelloType, KeysType, SetupType DEF KeysOf
  <2>3. (IF client.wire = "v2" THEN HelloOf(c).codec ELSE "") \in Codecs
    BY HelloType DEF Codecs
  <2> QED
    BY <1>5, <2>1, <2>2, <2>3, SetupType DEF Sessions
<1> QED
  BY <1>2, <1>5, <1>6

\* A step of a connection keeps the types; the frames in it are well-formed.
LEMMA TypeStep ==
    ASSUME Inv, NEW c \in Conns, Step(c)
    PROVE  TypeOK'
<1> TypeOK
  BY DEF Inv
<1>a. up \in [Conns -> Seq(UpFrames)] /\ down \in [Conns -> Seq(DownFrames)]
  BY DEF TypeOK
<1> USE SetupType DEF setupVars, clientVars, serverVars
<1>1. CASE Dial(c)
  BY <1>1 DEF Dial, Goes, TypeOK
<1>2. CASE Open(c)
  BY <1>2 DEF Open, Goes, TypeOK
<1>3. CASE OpenFails(c)
  BY <1>3 DEF OpenFails, Goes, TypeOK
<1>4. CASE DialConnect(c)
  <2>1. [up EXCEPT ![c] = Preamble] \in [Conns -> Seq(UpFrames)]
    BY <1>a, FrameType
  <2> QED
    BY <1>4, <2>1 DEF DialConnect, Connect, Goes, TypeOK
<1>5. CASE SendHello(c)
  <2>1. <<Frame("magic", Nil), Frame("hello", NewClientHello(c))>> \in Seq(UpFrames)
    BY FrameType
  <2>2. Sent(up, c, <<Frame("magic", Nil), Frame("hello", NewClientHello(c))>>) \in [Conns -> Seq(UpFrames)]
    BY <1>a, <2>1, SentType
  <2> QED
    BY <1>5, <2>2 DEF SendHello, Goes, TypeOK
<1>6. CASE SendLogin(c)
  <2>1. <<Frame("Login", LoginMsg)>> \in Seq(UpFrames)
    BY FrameType
  <2>2. Sent(up, c, <<Frame("Login", LoginMsg)>>) \in [Conns -> Seq(UpFrames)]
    BY <1>a, <2>1, SentType
  <2> QED
    BY <1>6, <2>2 DEF SendLogin, Goes, TypeOK
<1>7. CASE ReadServerHello(c)
  <2>1. [down EXCEPT ![c] = Tail(@)] \in [Conns -> Seq(DownFrames)]
    BY <1>a, <1>7, TailType DEF ReadServerHello, AcceptsHello, Arrived
  <2> QED
    BY <1>7, <2>1 DEF ReadServerHello, AcceptsHello, Arrived, Read, Goes, TypeOK
<1>8. CASE ReadLoginResp(c)
  <2>1. [down EXCEPT ![c] = Tail(@)] \in [Conns -> Seq(DownFrames)]
    BY <1>a, <1>8, TailType DEF ReadLoginResp, AcceptsResp, Arrived
  <2>2. session' \in Sessions /\ run' = session'.run /\ session'.run \in RunIDs
    <3>1. session' \in Sessions
      BY <1>8, SessionMade
    <3> QED
      BY <1>8, <3>1 DEF ReadLoginResp, Sessions
  <2> QED
    BY <1>8, <2>1, <2>2 DEF ReadLoginResp, Read, Goes, Established, TypeOK
<1>9. CASE DialFails(c)
  BY <1>9 DEF DialFails, Close, Goes, ClosedConnector, TypeOK
<1>10. CASE SendNewWorkConn(c)
  <2> DEFINE frames == (IF client.wire = "v2" THEN <<Frame("magic", Nil)>> ELSE <<>>)
                            \o <<Frame("NewWorkConn", [run |-> run, cred |-> SetNewWorkConn])>>
  <2>1. frames \in Seq(UpFrames)
    BY FrameType
  <2> HIDE DEF frames
  <2>2. Sent(up, c, frames) \in [Conns -> Seq(UpFrames)]
    BY <1>a, <2>1, SentType
  <2>3. up' = Sent(up, c, frames)
    BY <1>10 DEF SendNewWorkConn, WriteFirst, frames
  <2> QED
    BY <1>10, <2>2, <2>3 DEF SendNewWorkConn, WriteFirst, Goes, TypeOK
<1>11. CASE SendNewVisitorConn(c)
  <2> DEFINE frames == (IF client.wire = "v2" THEN <<Frame("magic", Nil)>> ELSE <<>>)
                            \o <<Frame("NewVisitorConn", [run |-> run, cred |-> SetNewWorkConn])>>
  <2>1. frames \in Seq(UpFrames)
    BY FrameType
  <2> HIDE DEF frames
  <2>2. Sent(up, c, frames) \in [Conns -> Seq(UpFrames)]
    BY <1>a, <2>1, SentType
  <2>3. up' = Sent(up, c, frames)
    BY <1>11 DEF SendNewVisitorConn, WriteFirst, frames
  <2> QED
    BY <1>11, <2>2, <2>3 DEF SendNewVisitorConn, WriteFirst, Goes, TypeOK
<1>12. CASE ReadStart(c)
  <2>1. [down EXCEPT ![c] = Tail(@)] \in [Conns -> Seq(DownFrames)]
    BY <1>a, <1>12, TailType DEF ReadStart, AcceptsHello, Arrived
  <2> QED
    BY <1>12, <2>1 DEF ReadStart, Arrived, Read, Goes, TypeOK
<1>13. CASE ReadVisitorResp(c)
  <2>1. [down EXCEPT ![c] = Tail(@)] \in [Conns -> Seq(DownFrames)]
    BY <1>a, <1>13, TailType DEF ReadVisitorResp, AcceptsHello, Arrived
  <2> QED
    BY <1>13, <2>1 DEF ReadVisitorResp, Arrived, Read, Goes, Established, TypeOK
<1>14. CASE ConnFails(c)
  BY <1>14 DEF ConnFails, Close, Goes, TypeOK
<1>15. CASE CheckTLS(c)
  <2>1. up' \in [Conns -> Seq(UpFrames)]
    <3>1. CASE Receives(c, "tls")
      BY <1>a, <1>15, <3>1, TailType DEF CheckTLS, Receives
    <3>2. CASE ~Receives(c, "tls")
      BY <1>a, <1>15, <3>2 DEF CheckTLS
    <3> QED
      BY <3>1, <3>2
  <2>2. accepted' \in [Conns -> Acceptances]
    <3> DEFINE new == (client.protocol = "quic" \/ Receives(c, "tls"))
    <3>1. accepted \in [Conns -> Acceptances] /\ new \in BOOLEAN
      BY DEF TypeOK
    <3>2. accepted' = [accepted EXCEPT ![c].tls = new]
      BY <1>15 DEF CheckTLS
    <3> HIDE DEF new
    <3>3. accepted'[c] \in Acceptances
      BY <3>1, <3>2 DEF Acceptances
    <3> QED
      BY <3>1, <3>2, <3>3
  <2> QED
    BY <1>15, <2>1, <2>2 DEF CheckTLS, HandlerAt, TypeOK
<1>16. CASE AcceptStream(c)
  <2>1. up' \in [Conns -> Seq(UpFrames)]
    <3>1. CASE Receives(c, "mux")
      BY <1>a, <1>16, <3>1, TailType DEF AcceptStream, Receives
    <3>2. CASE ~Receives(c, "mux")
      BY <1>a, <1>16, <3>2 DEF AcceptStream
    <3> QED
      BY <3>1, <3>2
  <2> QED
    BY <1>16, <2>1 DEF AcceptStream, HandlerAt, TypeOK
<1>17. CASE CheckMagic(c)
  <2>1. up' \in [Conns -> Seq(UpFrames)]
    <3>1. CASE Receives(c, "magic")
      BY <1>a, <1>17, <3>1, TailType DEF CheckMagic, Receives
    <3>2. CASE ~Receives(c, "magic")
      BY <1>a, <1>17, <3>2 DEF CheckMagic
    <3> QED
      BY <3>1, <3>2
  <2>2. accepted' \in [Conns -> Acceptances]
    <3> DEFINE new == (IF Receives(c, "magic") THEN "v2" ELSE "v1")
    <3>1. accepted \in [Conns -> Acceptances] /\ new \in {"v1", "v2"}
      BY DEF TypeOK
    <3>2. accepted' = [accepted EXCEPT ![c].wire = new]
      BY <1>17 DEF CheckMagic
    <3> HIDE DEF new
    <3>3. accepted'[c] \in Acceptances
      BY <3>1, <3>2 DEF Acceptances
    <3> QED
      BY <3>1, <3>2, <3>3
  <2> QED
    BY <1>17, <2>1, <2>2 DEF CheckMagic, HandlerAt, TypeOK
<1>18. CASE HandleClientHello(c)
  <2>1. [up EXCEPT ![c] = Tail(@)] \in [Conns -> Seq(UpFrames)] /\ Head(up[c]) \in UpFrames
    BY <1>a, <1>18, TailType DEF HandleClientHello, Receives
  <2>2. Head(up[c]).v = NewClientHello(c)
    <3>1. up[c] \in Seq(UpFrames) /\ up[c] # <<>> /\ Head(up[c]).t = "hello"
      BY <1>a, <1>18 DEF HandleClientHello, Receives
    <3>2. 1 \in 1..Len(up[c]) /\ up[c][1] = Head(up[c])
      BY <3>1
    <3> QED
      BY <3>1, <3>2 DEF Inv, Uplink, Ordered
  <2>3. /\ accepted' = [accepted EXCEPT ![c].hello = TRUE, ![c].codec = HelloOf(c).codec, ![c].crypto = CryptoOf(c)]
        /\ down' = Sent(down, c, <<Frame("serverHello", HelloOf(c))>>)
    BY <1>18, <2>2 DEF HandleClientHello, Write, HelloOf, CryptoOf
  <2>4. accepted' \in [Conns -> Acceptances]
    <3>1. accepted \in [Conns -> Acceptances]
      BY DEF TypeOK
    <3>2. accepted'[c] \in Acceptances
      BY <2>3, <3>1, HelloType DEF Acceptances
    <3> QED
      BY <2>3, <3>1, <3>2
  <2>5. <<Frame("serverHello", HelloOf(c))>> \in Seq(DownFrames)
    <3>1. Frame("serverHello", HelloOf(c)) \in DownFrames
      BY HelloType DEF Frame, DownFrames
    <3> QED
      BY <3>1
  <2>6. down' \in [Conns -> Seq(DownFrames)]
    BY <1>a, <2>3, <2>5, SentType
  <2> QED
    BY <1>18, <2>1, <2>4, <2>6 DEF HandleClientHello, Take, HandlerAt, TypeOK
<1>19. CASE RefuseClientHello(c)
  <2>1. [up EXCEPT ![c] = Tail(@)] \in [Conns -> Seq(UpFrames)] /\ Head(up[c]) \in UpFrames
    BY <1>a, <1>19, TailType DEF RefuseClientHello, Receives
  <2>2. Frame("serverHello", DefaultServerHello) \in DownFrames
    BY <1>19 DEF Frame, DownFrames, DefaultServerHello, ServerHellos, RunIDs, Codecs
  <2>3. down' \in [Conns -> Seq(DownFrames)]
    <3>1. <<Frame("serverHello", DefaultServerHello)>> \in Seq(DownFrames)
      BY <2>2
    <3>2. down' = Sent(down, c, <<Frame("serverHello", DefaultServerHello)>>)
      BY <1>19 DEF RefuseClientHello, Write
    <3> QED
      BY <1>a, <3>1, <3>2, SentType
  <2> QED
    BY <1>19, <2>1, <2>3 DEF RefuseClientHello, Take, HangUp, HandlerAt, TypeOK
<1>20. CASE ReadFirst(c)
  <2>1. [up EXCEPT ![c] = Tail(@)] \in [Conns -> Seq(UpFrames)] /\ Head(up[c]) \in UpFrames
    BY <1>a, <1>20, TailType DEF ReadFirst, Receives
  <2>2. accepted' \in [Conns -> Acceptances]
    <3>1. accepted \in [Conns -> Acceptances]
      BY DEF TypeOK
    <3>2. accepted' = [accepted EXCEPT ![c].first = Head(up[c])]
      BY <1>20 DEF ReadFirst
    <3>3. accepted'[c] \in Acceptances
      BY <2>1, <3>1, <3>2 DEF Acceptances
    <3> QED
      BY <3>1, <3>2, <3>3
  <2> QED
    BY <1>20, <2>1, <2>2 DEF ReadFirst, Take, HandlerAt, TypeOK
<1>21. CASE RegisterControl(c)
  <2> DEFINE m == accepted[c].first.v
             answer == [error |-> FALSE, run |-> RunOf(c), xtcp |-> m.xtcp]
  <2>1. m \in Logins
    BY <1>21 DEF RegisterControl, Inv, Acceptance
  <2>2. RunOf(c) \in RunIDs /\ m.xtcp \in BOOLEAN
    BY <2>1 DEF RunOf, Logins, RunIDs
  <2>3. control' \in Sessions
    <3>1. accepted[c] \in Acceptances
      BY DEF TypeOK
    <3>2. NewControlReadWriter(c) \in [read : Keys, write : Keys]
      BY <3>1, KeysType DEF NewControlReadWriter, Acceptances
    <3>3. accepted[c].wire \in {"v1", "v2"} /\ accepted[c].codec \in Codecs
      BY <3>1 DEF Acceptances
    <3>4. control' = [conn |-> c, run |-> RunOf(c), wire |-> accepted[c].wire, codec |-> accepted[c].codec,
                      keys |-> NewControlReadWriter(c), xtcp |-> m.xtcp]
      BY <1>21 DEF RegisterControl, RunOf
    <3> QED
      BY <2>2, <3>2, <3>3, <3>4 DEF Sessions
  <2>4. down' \in [Conns -> Seq(DownFrames)]
    <3>1. Frame("LoginResp", answer) \in DownFrames
      BY <2>2 DEF Frame, DownFrames
    <3>2. <<Frame("LoginResp", answer)>> \in Seq(DownFrames)
      BY <3>1
    <3>3. down' = Sent(down, c, <<Frame("LoginResp", answer)>>)
      BY <1>21 DEF RegisterControl, Write, RunOf
    <3> QED
      BY <1>a, <3>2, <3>3, SentType
  <2>5. subjects' \subseteq {"subject"}
    BY <1>21 DEF RegisterControl, Remembered, Subject, TypeOK
  <2>6. sopen' \in [Conns -> BOOLEAN]
    BY <1>21 DEF RegisterControl, TypeOK
  <2>7. /\ handler' \in [Conns -> {"none", "tls", "mux", "magic", "first", "message", "handle",
                                   "control", "pooled", "joined", "ended"}]
    BY <1>21 DEF RegisterControl, TypeOK
  <2>8. UNCHANGED <<setupVars, cut, clientVars, up, swait, accepted>>
    BY <1>21 DEF RegisterControl
  <2> QED
    BY <2>3, <2>4, <2>5, <2>6, <2>7, <2>8 DEF TypeOK
<1>22. CASE RefuseLogin(c)
  <2>1. Frame("LoginResp", [error |-> TRUE, run |-> Nil, xtcp |-> FALSE]) \in DownFrames
    BY <1>22 DEF Frame, DownFrames, RunIDs
  <2>2. down' \in [Conns -> Seq(DownFrames)]
    <3>1. <<Frame("LoginResp", [error |-> TRUE, run |-> Nil, xtcp |-> FALSE])>> \in Seq(DownFrames)
      BY <2>1
    <3>2. down' = Sent(down, c, <<Frame("LoginResp", [error |-> TRUE, run |-> Nil, xtcp |-> FALSE])>>)
      BY <1>22 DEF RefuseLogin, Write
    <3> QED
      BY <1>a, <3>1, <3>2, SentType
  <2> QED
    BY <1>22, <2>2 DEF RefuseLogin, HangUp, HandlerAt, TypeOK
<1>23. CASE RegisterWorkConn(c)
  BY <1>23 DEF RegisterWorkConn, HandlerAt, CurrentRun, TypeOK
<1>24. CASE RegisterVisitorConn(c)
  <2>1. Frame("NewVisitorConnResp", [error |-> FALSE]) \in DownFrames
    BY <1>24 DEF Frame, DownFrames
  <2>2. down' \in [Conns -> Seq(DownFrames)]
    <3>1. <<Frame("NewVisitorConnResp", [error |-> FALSE])>> \in Seq(DownFrames)
      BY <2>1
    <3>2. down' = Sent(down, c, <<Frame("NewVisitorConnResp", [error |-> FALSE])>>)
      BY <1>24 DEF RegisterVisitorConn, Write
    <3> QED
      BY <1>a, <3>1, <3>2, SentType
  <2> QED
    BY <1>24, <2>2 DEF RegisterVisitorConn, HandlerAt, TypeOK
<1>25. CASE RefuseConn(c)
  <2>1. Frame(IF accepted[c].first.t = "NewWorkConn" THEN "StartWorkConn" ELSE "NewVisitorConnResp", [error |-> TRUE]) \in DownFrames
    BY <1>25 DEF Frame, DownFrames
  <2>2. down' \in [Conns -> Seq(DownFrames)]
    <3>1. <<Frame(IF accepted[c].first.t = "NewWorkConn" THEN "StartWorkConn" ELSE "NewVisitorConnResp", [error |-> TRUE])>> \in Seq(DownFrames)
      BY <2>1
    <3>2. down' = Sent(down, c, <<Frame(IF accepted[c].first.t = "NewWorkConn" THEN "StartWorkConn" ELSE "NewVisitorConnResp", [error |-> TRUE])>>)
      BY <1>25 DEF RefuseConn, Write
    <3> QED
      BY <1>a, <3>1, <3>2, SentType
  <2> QED
    BY <1>25, <2>2 DEF RefuseConn, HangUp, HandlerAt, TypeOK
<1>26. CASE AcceptFails(c)
  BY <1>26 DEF AcceptFails, HangUp, HandlerAt, TypeOK
<1>27. CASE ControlEnds(c)
  BY <1>27 DEF ControlEnds, EndsWith, TypeOK
<1>28. CASE StartWork(c)
  <2>1. Frame("StartWorkConn", [error |-> FALSE]) \in DownFrames
    BY <1>28 DEF Frame, DownFrames
  <2>2. down' \in [Conns -> Seq(DownFrames)]
    <3>1. <<Frame("StartWorkConn", [error |-> FALSE])>> \in Seq(DownFrames)
      BY <2>1
    <3>2. down' = Sent(down, c, <<Frame("StartWorkConn", [error |-> FALSE])>>)
      BY <1>28 DEF StartWork, Write
    <3> QED
      BY <1>a, <3>1, <3>2, SentType
  <2> QED
    BY <1>28, <2>2 DEF StartWork, HandlerAt, TypeOK
<1>29. CASE SessionEnds(c)
  BY <1>29 DEF SessionEnds, Goes, ClosedConnector, TypeOK
<1>30. CASE Cut(c)
  BY <1>30 DEF Cut, TypeOK
<1>31. CASE ConnectMore(c, "work") \/ ConnectMore(c, "visitor")
  <2>1. [up EXCEPT ![c] = Preamble] \in [Conns -> Seq(UpFrames)]
    BY <1>a, FrameType
  <2> QED
    BY <1>31, <2>1 DEF ConnectMore, Connect, Goes, TypeOK
<1> QED
  BY <1>1, <1>2, <1>3, <1>4, <1>5, <1>6, <1>7, <1>8, <1>9, <1>10, <1>11, <1>12, <1>13, <1>14, <1>15, <1>16, <1>17, <1>18, <1>19, <1>20, <1>21, <1>22, <1>23, <1>24, <1>25, <1>26, <1>27, <1>28, <1>29, <1>30, <1>31 DEF Step, ClientStep, ServerStep

-----------------------------------------------------------------------------
(* Every step keeps the parts of the invariant. *)

\* The functions of the state, as the steps below need them.
LEMMA Functions ==
    ASSUME TypeOK
    PROVE  /\ at \in [Conns -> {"none", "dial", "opened", "connected", "greeted", "hello", "resp", "session",
                                 "work", "visitor", "started", "visiting", "joined", "failed"}]
           /\ handler \in [Conns -> {"none", "tls", "mux", "magic", "first", "message", "handle",
                                      "control", "pooled", "joined", "ended"}]
           /\ copen \in [Conns -> BOOLEAN] /\ sopen \in [Conns -> BOOLEAN] /\ cut \in [Conns -> BOOLEAN]
           /\ cwait \in [Conns -> BOOLEAN] /\ swait \in [Conns -> BOOLEAN]
           /\ up \in [Conns -> Seq(UpFrames)] /\ down \in [Conns -> Seq(DownFrames)]
           /\ accepted \in [Conns -> Acceptances]
           /\ session \in Sessions \cup {Nil} /\ control \in Sessions \cup {Nil}
  BY DEF TypeOK

\* Opening: what is closed, armed and pooled at each place.
LEMMA OpeningStep ==
    ASSUME Inv, NEW c \in Conns, Step(c), NEW d \in Conns
    PROVE  Opening(d)'
<1> TypeOK
  BY DEF Inv
<1>a. Opening(c) /\ Opening(d)
  BY DEF Inv
<1> USE Functions DEF setupVars, clientVars, serverVars
<1>1. CASE Dial(c)
  BY <1>a, <1>1 DEF Dial, Goes, Opening, Untouched
<1>2. CASE Open(c)
  BY <1>a, <1>2 DEF Open, Goes, Opening, Untouched
<1>3. CASE OpenFails(c)
  BY <1>a, <1>3 DEF OpenFails, Goes, Opening, Untouched
<1>4. CASE DialConnect(c)
  BY <1>a, <1>4 DEF DialConnect, Connect, Goes, Opening, Untouched
<1>5. CASE SendHello(c)
  BY <1>a, <1>5 DEF SendHello, Goes, Opening, Untouched, Sent
<1>6. CASE SendLogin(c)
  BY <1>a, <1>6 DEF SendLogin, Goes, Opening, Untouched, Sent
<1>7. CASE ReadServerHello(c)
  BY <1>a, <1>7 DEF ReadServerHello, AcceptsHello, Arrived, Read, Goes, Opening, Untouched
<1>8. CASE ReadLoginResp(c)
  BY <1>a, <1>8 DEF ReadLoginResp, AcceptsResp, Arrived, Read, Goes, Established, Opening, Untouched
<1>9. CASE DialFails(c)
  BY <1>a, <1>9 DEF DialFails, Close, Goes, ClosedConnector, Opening, Untouched, MayFail
<1>10. CASE SendNewWorkConn(c)
  BY <1>a, <1>10 DEF SendNewWorkConn, WriteFirst, Goes, Opening, Untouched, Sent
<1>11. CASE SendNewVisitorConn(c)
  BY <1>a, <1>11 DEF SendNewVisitorConn, WriteFirst, Goes, Opening, Untouched, Sent
<1>12. CASE ReadStart(c)
  BY <1>a, <1>12 DEF ReadStart, Arrived, Read, Goes, Opening, Untouched
<1>13. CASE ReadVisitorResp(c)
  BY <1>a, <1>13 DEF ReadVisitorResp, Arrived, Read, Goes, Established, Opening, Untouched
<1>14. CASE ConnFails(c)
  BY <1>a, <1>14 DEF ConnFails, Close, Goes, Opening, Untouched
<1>15. CASE CheckTLS(c)
  BY <1>a, <1>15 DEF CheckTLS, HandlerAt, Receives, Opening, Untouched
<1>16. CASE AcceptStream(c)
  BY <1>a, <1>16 DEF AcceptStream, HandlerAt, Receives, Opening, Untouched
<1>17. CASE CheckMagic(c)
  BY <1>a, <1>17 DEF CheckMagic, HandlerAt, Receives, Opening, Untouched
<1>18. CASE HandleClientHello(c)
  BY <1>a, <1>18 DEF HandleClientHello, HandlerAt, Receives, Take, Write, Opening, Untouched, Sent
<1>19. CASE RefuseClientHello(c)
  BY <1>a, <1>19 DEF RefuseClientHello, HandlerAt, Receives, Take, Write, HangUp, Opening, Untouched, Sent
<1>20. CASE ReadFirst(c)
  BY <1>a, <1>20 DEF ReadFirst, HandlerAt, Receives, Take, Opening, Untouched
<1>21. CASE RegisterControl(c)
  <2>1. control # Nil => handler[control.conn] = "control"
    BY DEF Inv, Controlled
  <2>2. at[d] \in {"none", "dial", "opened"} => d # c
    BY <1>a, <1>21 DEF RegisterControl, Opening, Untouched
  <2>3. \A e \in Conns : handler[e] = "pooled" => control # Nil
    BY DEF Inv, Opening
  <2> QED
    BY <1>21, <1>a, <2>1, <2>2, <2>3 DEF RegisterControl, Write, Sent, Pool, Opening, Untouched
<1>22. CASE RefuseLogin(c)
  BY <1>a, <1>22 DEF RefuseLogin, Write, HangUp, HandlerAt, Opening, Untouched, Sent
<1>23. CASE RegisterWorkConn(c)
  BY <1>a, <1>23 DEF RegisterWorkConn, HandlerAt, CurrentRun, Opening, Untouched
<1>24. CASE RegisterVisitorConn(c)
  BY <1>a, <1>24 DEF RegisterVisitorConn, Write, HandlerAt, Opening, Untouched, Sent
<1>25. CASE RefuseConn(c)
  BY <1>a, <1>25 DEF RefuseConn, Write, HangUp, HandlerAt, Opening, Untouched, Sent
<1>26. CASE AcceptFails(c)
  BY <1>a, <1>26 DEF AcceptFails, HangUp, HandlerAt, Opening, Untouched
<1>27. CASE ControlEnds(c)
  BY <1>a, <1>27 DEF ControlEnds, EndsWith, Opening, Untouched, Pool
<1>28. CASE StartWork(c)
  BY <1>a, <1>28 DEF StartWork, Write, HandlerAt, Opening, Untouched, Sent
<1>29. CASE SessionEnds(c)
  BY <1>a, <1>29 DEF SessionEnds, Goes, ClosedConnector, Opening, Untouched
<1>30. CASE Cut(c)
  BY <1>a, <1>30 DEF Cut, Opening, Untouched
<1>31. CASE ConnectMore(c, "work") \/ ConnectMore(c, "visitor")
  BY <1>a, <1>31 DEF ConnectMore, Connect, Goes, Opening, Untouched
<1> QED
  BY <1>1, <1>2, <1>3, <1>4, <1>5, <1>6, <1>7, <1>8, <1>9, <1>10, <1>11, <1>12, <1>13, <1>14, <1>15, <1>16, <1>17, <1>18, <1>19, <1>20, <1>21, <1>22, <1>23, <1>24, <1>25, <1>26, <1>27, <1>28, <1>29, <1>30, <1>31 DEF Step, ClientStep, ServerStep

\* What depends on the configurations alone.
LEMMA SetupStable ==
    ASSUME NEW c \in Conns, Step(c), NEW d \in Conns
    PROVE  /\ NewClientHello(d)' = NewClientHello(d) /\ HelloOf(d)' = HelloOf(d) /\ CryptoOf(d)' = CryptoOf(d)
           /\ NewAuthSetter' = NewAuthSetter /\ MayLogin' = MayLogin /\ KeysOf(d)' = KeysOf(d)
<1>1. client' = client
  BY SetupKept
<1>2. NewClientHello(d)' = NewClientHello(d)
  BY <1>1 DEF NewClientHello, clientHelloWithCryptoRandom
<1>3. HelloOf(d)' = HelloOf(d)
  BY <1>2 DEF HelloOf, NewServerHello, SelectAEADAlgorithm, Supported, SelectUDPPacketCodec
<1>4. CryptoOf(d)' = CryptoOf(d)
  BY <1>2, <1>3 DEF CryptoOf, NewCryptoContext, HashCryptoTranscript
<1>5. NewAuthSetter' = NewAuthSetter /\ MayLogin' = MayLogin
  BY <1>1 DEF NewAuthSetter, GetAuthKey, generateAccessToken, MayLogin, CanRequestXTCPBinding
<1>6. KeysOf(d)' = KeysOf(d)
  BY <1>1, <1>4 DEF KeysOf, Plain, ClientKeys, V1Keys, Key
<1> QED
  BY <1>2, <1>3, <1>4, <1>5, <1>6

\* Uplink of a connection whose queue is left alone, while the handler stays or is past reading.
LEMMA UplinkKept ==
    ASSUME Inv, NEW c \in Conns, Step(c), NEW d \in Conns,
           up'[d] = up[d], cut'[d] = cut[d], at'[d] = at[d] \/ at'[d] # "greeted",
           handler'[d] = handler[d] \/ handler'[d] \in {"handle", "control", "pooled", "joined", "ended"}
    PROVE  Uplink(d)'
<1>1. /\ NewClientHello(d)' = NewClientHello(d) /\ NewAuthSetter' = NewAuthSetter
      /\ client' = client /\ Uplink(d)
  BY SetupStable, SetupKept DEF Inv
<1>2. ASSUME NEW i \in 1..Len(up[d]) PROVE Ordered(d, i)'
  <2>1. Ordered(d, i)
    BY <1>1 DEF Uplink
  <2> QED
    BY <1>1, <2>1 DEF Ordered, Early, Logins, RunIDs, Credentials
<1> QED
  BY <1>1, <1>2 DEF Uplink, Early

\* What is left of a queue when its first frame is read.
LEMMA TailFacts ==
    ASSUME NEW S, NEW s \in Seq(S), s # <<>>
    PROVE  /\ Tail(s) \in Seq(S) /\ Len(s) \in Nat \ {0} /\ Len(Tail(s)) = Len(s) - 1
           /\ \A i \in 1..(Len(s) - 1) : Tail(s)[i] = s[i + 1]
           /\ Tail(s) = <<>> <=> Len(s) = 1
<1>1. /\ Tail(s) \in Seq(S) /\ Len(s) \in Nat \ {0} /\ Len(Tail(s)) = Len(s) - 1
      /\ \A i \in 1..(Len(s) - 1) : Tail(s)[i] = s[i + 1]
  OBVIOUS
<1>2. \A q \in Seq(S) : q = <<>> <=> Len(q) = 0
  BY EmptySeq
<1> QED
  BY <1>1, <1>2

\* Uplink when the server has read a frame, or found that it is not the one it may skip.
LEMMA UplinkRead ==
    ASSUME Inv, NEW c \in Conns, Step(c),
           up[c] # <<>>, up'[c] = Tail(up[c]), cut'[c] = cut[c], at'[c] = at[c],
           \/ handler[c] = "tls" /\ handler'[c] = "mux" /\ up[c][1].t = "tls"
           \/ handler[c] = "mux" /\ handler'[c] = "magic" /\ up[c][1].t = "mux"
           \/ handler[c] = "magic" /\ handler'[c] = "first" /\ up[c][1].t = "magic"
           \/ handler[c] = "first" /\ handler'[c] = "message" /\ up[c][1].t = "hello"
           \/ handler[c] \in {"first", "message"} /\ handler'[c] \in {"handle", "ended"}
    PROVE  Uplink(c)'
<1>1. /\ NewClientHello(c)' = NewClientHello(c) /\ NewAuthSetter' = NewAuthSetter
      /\ client' = client /\ Uplink(c)
  BY SetupStable, SetupKept DEF Inv
<1>2. up[c] \in Seq(UpFrames)
  BY Functions DEF Inv
<1> DEFINE n == Len(up[c])
<1>3. /\ n \in Nat \ {0} /\ Len(up'[c]) = n - 1 /\ (up'[c] = <<>> <=> n = 1)
      /\ \A i \in 1..(n - 1) : up'[c][i] = up[c][i + 1]
  BY <1>2, TailFacts
<1>4. ASSUME NEW i \in 1..(n - 1) PROVE Ordered(c, i)'
  <2>1. Ordered(c, i + 1) /\ i + 1 \in 1..n /\ up'[c][i] = up[c][i + 1] /\ i \in Nat
    BY <1>1, <1>3 DEF Uplink
  <2>2. i > 1 => up'[c][i - 1] = up[c][i] /\ (i + 1) - 1 = i
    BY <1>3
  <2>3. i = 2 => up'[c][1] = up[c][2]
    BY <2>2
  <2>4. (i + 1) - 1 = i /\ i + 1 > 1 /\ i + 1 # 1
    BY <2>1
  <2> QED
    BY <1>1, <2>1, <2>2, <2>3, <2>4 DEF Ordered, Early, Logins, RunIDs, Credentials
<1>5. cut'[c] => up'[c] = <<>>
  BY <1>1 DEF Uplink
<1>6. ASSUME at'[c] = "greeted", client.wire = "v2", ~cut'[c]
      PROVE  IF up'[c] = <<>> THEN handler'[c] \notin Early \cup {"first"} ELSE up'[c][Len(up'[c])].t = "hello"
  <2>1. up[c][n].t = "hello"
    BY <1>1, <1>6 DEF Uplink
  <2>2. CASE up'[c] = <<>>
    <3>1. n = 1
      BY <1>3, <2>2
    <3> QED
      BY <2>1, <2>2, <3>1 DEF Early
  <2>3. CASE up'[c] # <<>>
    <3>1. n > 1
      BY <1>3, <2>3
    <3>2. up'[c][Len(up'[c])] = up[c][n]
      BY <1>3, <3>1
    <3> QED
      BY <2>1, <2>3, <3>2
  <2> QED
    BY <2>2, <2>3
<1> QED
  BY <1>1, <1>3, <1>4, <1>5, <1>6 DEF Uplink

\* A layer the client does not speak is passed over: the server goes on with the same frame.
LEMMA UplinkSkipped ==
    ASSUME Inv, NEW c \in Conns, Step(c),
           up'[c] = up[c], cut'[c] = cut[c], at'[c] = at[c],
           \/ handler[c] = "tls" /\ handler'[c] = "mux" /\ (up[c] # <<>> => up[c][1].t # "tls")
           \/ handler[c] = "mux" /\ handler'[c] = "magic" /\ (up[c] # <<>> => up[c][1].t # "mux")
           \/ handler[c] = "magic" /\ handler'[c] = "first" /\ up[c] # <<>> /\ up[c][1].t # "magic"
    PROVE  Uplink(c)' /\ (handler[c] = "magic" => client.wire = "v1")
<1>1. /\ NewClientHello(c)' = NewClientHello(c) /\ NewAuthSetter' = NewAuthSetter
      /\ client' = client /\ Uplink(c)
  BY SetupStable, SetupKept DEF Inv
<1>2. up[c] \in Seq(UpFrames) /\ client.wire \in {"v1", "v2"}
  BY Functions, SetupType DEF Inv
<1>3. handler[c] = "magic" => client.wire = "v1"
  <2> SUFFICES ASSUME handler[c] = "magic", client.wire = "v2" PROVE FALSE
    BY <1>2
  <2>1. 1 \in 1..Len(up[c]) /\ up[c][1] \in UpFrames
    BY <1>2
  <2>2. Ordered(c, 1) /\ up[c][1].t \in {"tls", "mux", "magic", "hello", "Login", "NewWorkConn", "NewVisitorConn"}
    BY <1>1, <2>1 DEF Uplink, UpFrames
  <2> QED
    BY <2>2 DEF Ordered, Early
<1>4. ASSUME NEW i \in 1..Len(up[c]) PROVE Ordered(c, i)'
  <2>1. Ordered(c, i) /\ i \in Nat /\ up[c] # <<>>
    BY <1>1, <1>2 DEF Uplink
  <2> QED
    BY <1>1, <1>3, <2>1 DEF Ordered, Early, Logins, RunIDs, Credentials
<1>5. at[c] = "greeted" /\ client.wire = "v2" /\ ~cut[c] =>
          IF up[c] = <<>> THEN handler'[c] \notin Early \cup {"first"} ELSE up[c][Len(up[c])].t = "hello"
  BY <1>1 DEF Uplink, Early
<1> QED
  BY <1>1, <1>3, <1>4, <1>5 DEF Uplink

\* Uplink of a connection whose queue is empty.
LEMMA UplinkEmpty ==
    ASSUME NEW c \in Conns, up'[c] = <<>>, cut'[c] \/ at'[c] # "greeted"
    PROVE  Uplink(c)'
  BY DEF Uplink

\* A frame whose place in the queue is the same, with the same frames before it, stays in order.
LEMMA OrderedKept ==
    ASSUME NEW c \in Conns, NEW i \in Nat, Ordered(c, i), client' = client,
           NewClientHello(c)' = NewClientHello(c), NewAuthSetter' = NewAuthSetter, handler'[c] = handler[c],
           up'[c][i] = up[c][i], i > 1 => up'[c][i - 1] = up[c][i - 1], i = 2 => up'[c][1] = up[c][1]
    PROVE  Ordered(c, i)'
  BY DEF Ordered, Early, Logins, RunIDs, Credentials

\* Short sequences, and what is appended to a queue.
LEMMA ShortFacts ==
    ASSUME NEW S, NEW a \in S, NEW b \in S
    PROVE  /\ <<a>> \in Seq(S) /\ Len(<<a>>) = 1 /\ <<a>>[1] = a
           /\ <<a, b>> \in Seq(S) /\ Len(<<a, b>>) = 2 /\ <<a, b>>[1] = a /\ <<a, b>>[2] = b
           /\ <<>> \o <<>> = <<>> /\ Len(<<>>) = 0
           /\ <<>> \o <<a>> = <<a>> /\ <<a>> \o <<>> = <<a>> /\ <<a>> \o <<b>> = <<a, b>>
<1>1. <<a>> \in Seq(S) /\ Len(<<a>>) = 1 /\ <<a>>[1] = a
  OBVIOUS
<1>2. <<a, b>> \in Seq(S) /\ Len(<<a, b>>) = 2 /\ <<a, b>>[1] = a /\ <<a, b>>[2] = b
  OBVIOUS
<1>3. <<>> \in Seq(S) /\ Len(<<>>) = 0
  OBVIOUS
<1>4. <<>> \o <<>> = <<>> /\ <<>> \o <<a>> = <<a>> /\ <<a>> \o <<>> = <<a>>
  BY <1>1, <1>3, ConcatEmptySeq
<1>5. <<a>> \o <<b>> = <<a, b>>
  <2>1. <<b>> \in Seq(S) /\ Len(<<b>>) = 1 /\ <<b>>[1] = b
    OBVIOUS
  <2>2. /\ <<a>> \o <<b>> \in Seq(S) /\ Len(<<a>> \o <<b>>) = 2
        /\ (<<a>> \o <<b>>)[1] = a /\ (<<a>> \o <<b>>)[2] = b
    BY <1>1, <2>1, ConcatProperties
  <2>3. \A i \in 1..Len(<<a, b>>) : (<<a>> \o <<b>>)[i] = <<a, b>>[i]
    BY <1>2, <2>2
  <2> QED
    BY <1>2, <2>2, <2>3, SeqEqual
<1> QED
  BY <1>1, <1>2, <1>3, <1>4, <1>5

\* What is appended follows what was there.
LEMMA ConcatFacts ==
    ASSUME NEW S, NEW s \in Seq(S), NEW q \in Seq(S), NEW r, r = s \o q, NEW n \in Nat, n = Len(s)
    PROVE  /\ Len(r) = n + Len(q)
           /\ \A i \in 1..n : r[i] = s[i]
           /\ Len(q) >= 1 => r[n + 1] = q[1]
           /\ Len(q) >= 2 => r[n + 2] = q[2]
<1>1. Len(q) \in Nat /\ Len(r) = n + Len(q) /\ \A i \in 1..n : r[i] = s[i]
  OBVIOUS
<1>2. \A i \in 1..Len(q) : r[n + i] = q[i]
  OBVIOUS
<1> QED
  BY <1>1, <1>2

\* What was in a queue stays in order when frames are appended to it.
LEMMA UplinkSent ==
    ASSUME Inv, NEW c \in Conns, Step(c), NEW n \in Nat, n = Len(up[c]), handler'[c] = handler[c],
           \A i \in 1..n : up'[c][i] = up[c][i]
    PROVE  \A i \in 1..n : Ordered(c, i)'
<1>1. /\ NewClientHello(c)' = NewClientHello(c) /\ NewAuthSetter' = NewAuthSetter
      /\ client' = client /\ Uplink(c)
  BY SetupStable, SetupKept DEF Inv
<1>2. ASSUME NEW i \in 1..n PROVE Ordered(c, i)'
  <2>1. Ordered(c, i) /\ up'[c][i] = up[c][i] /\ i \in Nat
    BY <1>1 DEF Uplink
  <2>2. i > 1 => i - 1 \in 1..n
    OBVIOUS
  <2>3. i = 2 => up'[c][1] = up[c][1]
    OBVIOUS
  <2> QED
    BY <1>1, <2>1, <2>2, <2>3, OrderedKept
<1> QED
  BY <1>2

\* A connection begins with the preamble of TLS and of the multiplexer.
LEMMA UplinkConnect ==
    ASSUME Inv, NEW c \in Conns, Step(c), up'[c] = Preamble, handler'[c] = "tls", at'[c] # "greeted",
           ~cut'[c]
    PROVE  Uplink(c)'
<1>1. /\ NewClientHello(c)' = NewClientHello(c) /\ NewAuthSetter' = NewAuthSetter
      /\ client' = client /\ Uplink(c) /\ client.wire \in {"v1", "v2"}
  BY SetupStable, SetupKept, SetupType DEF Inv
<1>2. up[c] \in Seq(UpFrames) /\ up \in [Conns -> Seq(UpFrames)] /\ cut \in [Conns -> BOOLEAN] /\ TypeOK
  BY Functions DEF Inv
<1>a. Frame("tls", Nil) \in UpFrames /\ Frame("mux", Nil) \in UpFrames
  BY DEF Frame, UpFrames
<1>3. ASSUME NEW i \in 1..Len(Preamble) PROVE Ordered(c, i)'
  <2>1. CASE HeadByte /\ (client.mux /\ client.protocol # "quic")
    <3>1. Preamble = <<Frame("tls", Nil), Frame("mux", Nil)>>
      BY <1>a, <2>1, ShortFacts DEF Preamble
    <3>2. i \in 1..2 /\ up'[c][1].t = "tls" /\ up'[c][2].t = "mux"
      BY <3>1 DEF Frame
    <3> QED
      BY <3>2 DEF Ordered
  <2>2. CASE HeadByte /\ ~(client.mux /\ client.protocol # "quic")
    <3>1. Preamble = <<Frame("tls", Nil)>>
      BY <1>a, <2>2, ShortFacts DEF Preamble
    <3>2. i \in 1..1 /\ up'[c][1].t = "tls"
      BY <3>1 DEF Frame
    <3> QED
      BY <3>2 DEF Ordered
  <2>3. CASE ~HeadByte /\ (client.mux /\ client.protocol # "quic")
    <3>1. Preamble = <<Frame("mux", Nil)>>
      BY <1>a, <2>3, ShortFacts DEF Preamble
    <3>2. i \in 1..1 /\ up'[c][1].t = "mux"
      BY <3>1 DEF Frame
    <3> QED
      BY <3>2 DEF Ordered
  <2>4. CASE ~HeadByte /\ ~(client.mux /\ client.protocol # "quic")
    <3>1. Preamble = <<>>
      BY <1>a, <2>4, ShortFacts DEF Preamble
    <3> QED
      BY <3>1
  <2> QED
    BY <2>1, <2>2, <2>3, <2>4
<1> QED
  BY <1>3 DEF Uplink

\* The hello follows the magic.
LEMMA UplinkHello ==
    ASSUME Inv, NEW c \in Conns, Step(c), SendHello(c)
    PROVE  Uplink(c)'
<1>1. /\ NewClientHello(c)' = NewClientHello(c) /\ NewAuthSetter' = NewAuthSetter
      /\ client' = client /\ Uplink(c) /\ client.wire \in {"v1", "v2"}
  BY SetupStable, SetupKept, SetupType DEF Inv
<1>2. up[c] \in Seq(UpFrames) /\ up \in [Conns -> Seq(UpFrames)] /\ cut \in [Conns -> BOOLEAN] /\ TypeOK
  BY Functions DEF Inv
<1>3. CASE client.wire = "v1"
  <2>1. up'[c] = up[c] /\ cut'[c] = cut[c] /\ handler'[c] = handler[c] /\ at'[c] = "greeted"
    BY <1>3, Functions, <1>2 DEF SendHello, Goes, serverVars
  <2>2. ASSUME NEW i \in 1..Len(up[c]) PROVE Ordered(c, i)'
    <3>1. Ordered(c, i)
      BY <1>1 DEF Uplink
    <3> QED
      BY <1>1, <2>1, <3>1 DEF Ordered, Early, Logins, RunIDs, Credentials
  <2> QED
    BY <1>1, <1>3, <2>1, <2>2 DEF Uplink
<1>4. CASE client.wire = "v2" /\ cut[c]
  <2>1. up'[c] = up[c] /\ cut'[c]
    BY <1>2, <1>4 DEF SendHello, Sent, serverVars
  <2> QED
    BY <1>1, <1>4, <2>1, UplinkEmpty DEF Uplink
<1>5. CASE client.wire = "v2" /\ ~cut[c]
  <2> DEFINE frames == <<Frame("magic", Nil), Frame("hello", NewClientHello(c))>>
  <2>0. PICK n \in Nat : n = Len(up[c])
    BY <1>2
  <2>1. up'[c] = up[c] \o frames /\ handler' = handler /\ cut' = cut
    BY <1>2, <1>5 DEF SendHello, Sent, serverVars
  <2>2. /\ frames \in Seq(UpFrames) /\ Len(frames) = 2
        /\ frames[1].t = "magic" /\ frames[2].t = "hello" /\ frames[2].v = NewClientHello(c)
    <3>1. Frame("magic", Nil) \in UpFrames /\ Frame("hello", NewClientHello(c)) \in UpFrames
      BY <1>2, FrameType
    <3> QED
      BY <3>1, ShortFacts DEF Frame
  <2> HIDE DEF frames
  <2>c. /\ Len(up'[c]) = n + 2 /\ \A i \in 1..n : up'[c][i] = up[c][i]
        /\ up'[c][n + 1] = frames[1] /\ up'[c][n + 2] = frames[2]
    <3>1. up[c] \in Seq(UpFrames) /\ frames \in Seq(UpFrames) /\ up'[c] = up[c] \o frames /\ n = Len(up[c])
      BY <1>2, <2>0, <2>1, <2>2
    <3>2. /\ Len(up'[c]) = n + Len(frames) /\ (\A i \in 1..n : up'[c][i] = up[c][i])
          /\ Len(frames) >= 1 => up'[c][n + 1] = frames[1]
          /\ Len(frames) >= 2 => up'[c][n + 2] = frames[2]
      BY ONLY <3>1, n \in Nat, ConcatFacts
    <3> QED
      BY <2>2, <3>2
  <2>3. /\ n \in Nat /\ Len(up'[c]) = n + 2
        /\ \A i \in 1..n : Ordered(c, i)'
        /\ up'[c][n + 1] = frames[1] /\ up'[c][n + 2] = frames[2]
    BY <2>0, <2>1, <2>c, UplinkSent
  <2>4. Ordered(c, n + 1)'
    BY <1>1, <1>5, <2>2, <2>3 DEF Ordered
  <2>5. Ordered(c, n + 2)'
    <3>1. (n + 2) - 1 = n + 1 /\ n + 2 # 1
      BY <2>3
    <3> QED
      BY <1>1, <1>5, <2>2, <2>3, <3>1 DEF Ordered
  <2>6. \A i \in 1..(n + 2) : i \in 1..n \/ i = n + 1 \/ i = n + 2
    BY <2>3
  <2>7. up'[c] # <<>>
    BY <2>3
  <2> QED
    BY <1>5, <2>1, <2>2, <2>3, <2>4, <2>5, <2>6, <2>7 DEF Uplink
<1> QED
  BY <1>1, <1>3, <1>4, <1>5

\* The login follows the hello, if there is one.
LEMMA UplinkLogin ==
    ASSUME Inv, NEW c \in Conns, Step(c), SendLogin(c)
    PROVE  Uplink(c)'
<1>1. /\ NewClientHello(c)' = NewClientHello(c) /\ NewAuthSetter' = NewAuthSetter
      /\ client' = client /\ Uplink(c) /\ client.wire \in {"v1", "v2"}
  BY SetupStable, SetupKept, SetupType DEF Inv
<1>2. up[c] \in Seq(UpFrames) /\ up \in [Conns -> Seq(UpFrames)] /\ cut \in [Conns -> BOOLEAN] /\ TypeOK
  BY Functions DEF Inv
<1>3. at' [c] # "greeted" /\ at[c] = "greeted" /\ handler' = handler /\ cut' = cut
  BY Functions, <1>2 DEF SendLogin, Goes, serverVars
<1>4. CASE cut[c]
  <2>1. up'[c] = up[c] /\ cut'[c]
    BY <1>2, <1>4 DEF SendLogin, Sent, serverVars
  <2> QED
    BY <1>1, <1>4, <2>1, UplinkEmpty DEF Uplink
<1>5. CASE ~cut[c]
  <2> DEFINE frames == <<Frame("Login", LoginMsg)>>
  <2>0. PICK n \in Nat : n = Len(up[c])
    BY <1>2
  <2>1. up'[c] = up[c] \o frames
    BY <1>2, <1>5 DEF SendLogin, Sent
  <2>2. /\ frames \in Seq(UpFrames) /\ Len(frames) = 1
        /\ frames[1].t = "Login" /\ frames[1].v = LoginMsg
    <3>1. Frame("Login", LoginMsg) \in UpFrames
      BY <1>2, FrameType
    <3> QED
      BY <3>1, ShortFacts DEF Frame
  <2> HIDE DEF frames
  <2>c. /\ Len(up'[c]) = n + 1 /\ \A i \in 1..n : up'[c][i] = up[c][i]
        /\ up'[c][n + 1] = frames[1]
    <3>1. up[c] \in Seq(UpFrames) /\ frames \in Seq(UpFrames) /\ up'[c] = up[c] \o frames /\ n = Len(up[c])
      BY <1>2, <2>0, <2>1, <2>2
    <3>2. /\ Len(up'[c]) = n + Len(frames) /\ (\A i \in 1..n : up'[c][i] = up[c][i])
          /\ Len(frames) >= 1 => up'[c][n + 1] = frames[1]
          /\ Len(frames) >= 2 => up'[c][n + 2] = frames[2]
      BY ONLY <3>1, n \in Nat, ConcatFacts
    <3> QED
      BY <2>2, <3>2
  <2>3. /\ n \in Nat /\ Len(up'[c]) = n + 1
        /\ \A i \in 1..n : Ordered(c, i)' /\ up'[c][i] = up[c][i]
        /\ up'[c][n + 1] = frames[1]
    BY <1>3, <2>0, <2>c, UplinkSent
  <2>4. client.wire = "v2" => IF n = 0 THEN handler[c] \notin Early \cup {"first"} ELSE up'[c][n].t = "hello"
    <3>1. up[c] = <<>> <=> n = 0
      BY <1>2, <2>0, EmptySeq
    <3> QED
      BY <1>1, <1>3, <1>5, <2>0, <2>3, <3>1 DEF Uplink
  <2>5. Ordered(c, n + 1)'
    <3>1. (n + 1) - 1 = n /\ (n + 1 = 1 <=> n = 0)
      BY <2>3
    <3>2. LoginMsg \in Logins /\ LoginMsg.cred = NewAuthSetter /\ LoginMsg.xtcp = client.xtcp /\ LoginMsg.ssh = client.ssh
      BY <1>2, FrameType DEF LoginMsg
    <3>3. up'[c][n + 1].t = "Login" /\ up'[c][n + 1].v = LoginMsg
      BY <2>2, <2>3
    <3>4. Logins' = Logins
      BY DEF Logins, RunIDs, Credentials
    <3> QED
      BY <1>1, <1>3, <2>3, <2>4, <3>1, <3>2, <3>3, <3>4 DEF Ordered, Early
  <2>6. \A i \in 1..(n + 1) : i \in 1..n \/ i = n + 1
    BY <2>3
  <2> QED
    BY <1>3, <1>5, <2>3, <2>5, <2>6 DEF Uplink
<1> QED
  BY <1>4, <1>5

\* The first message of a further connection follows the magic, if there is one.
LEMMA UplinkFirst ==
    ASSUME Inv, NEW c \in Conns, Step(c), NEW t \in {"NewWorkConn", "NewVisitorConn"},
           NEW where \in {"started", "visiting"}, WriteFirst(c, t, where)
    PROVE  Uplink(c)'
<1>1. /\ NewClientHello(c)' = NewClientHello(c) /\ NewAuthSetter' = NewAuthSetter
      /\ client' = client /\ Uplink(c) /\ client.wire \in {"v1", "v2"}
  BY SetupStable, SetupKept, SetupType DEF Inv
<1>2. up[c] \in Seq(UpFrames) /\ up \in [Conns -> Seq(UpFrames)] /\ cut \in [Conns -> BOOLEAN] /\ TypeOK
  BY Functions DEF Inv
<1>3. at'[c] # "greeted" /\ handler' = handler /\ cut' = cut
  BY Functions, <1>2 DEF WriteFirst, Goes, serverVars
<1> DEFINE message == Frame(t, [run |-> run, cred |-> SetNewWorkConn])
<1>0. PICK n \in Nat : n = Len(up[c])
  BY <1>2
<1>4. message \in UpFrames /\ message.t = t /\ Frame("magic", Nil) \in UpFrames /\ Frame("magic", Nil).t = "magic"
  BY <1>2, FrameType DEF Frame
<1> HIDE DEF message
<1>5. CASE cut[c]
  <2>1. up'[c] = up[c] /\ cut'[c]
    BY <1>2, <1>5, <1>3 DEF WriteFirst, Sent
  <2> QED
    BY <1>1, <1>5, <2>1, UplinkEmpty DEF Uplink
<1>6. CASE ~cut[c] /\ client.wire = "v1"
  <2>1. up'[c] = up[c] \o <<message>> /\ <<message>> \in Seq(UpFrames) /\ Len(<<message>>) = 1 /\ <<message>>[1] = message
    <3>1. <<>> \o <<message>> = <<message>>
      BY <1>4, ShortFacts
    <3>2. up'[c] = up[c] \o (<<>> \o <<message>>)
      BY <1>2, <1>6 DEF WriteFirst, Sent, message
    <3> QED
      BY <1>4, <3>1, <3>2, ShortFacts
  <2>2. /\ n \in Nat /\ Len(up'[c]) = n + 1
        /\ \A i \in 1..n : Ordered(c, i)'
        /\ up'[c][n + 1] = message
    <3>1. /\ Len(up'[c]) = n + 1 /\ \A i \in 1..n : up'[c][i] = up[c][i]
          /\ up'[c][n + 1] = message
      BY <1>0, <1>2, <2>1, ConcatFacts
    <3> QED
      BY <1>0, <1>3, <3>1, UplinkSent
  <2>3. Ordered(c, n + 1)'
    BY <1>1, <1>4, <1>6, <2>2 DEF Ordered
  <2>4. \A i \in 1..(n + 1) : i \in 1..n \/ i = n + 1
    BY <2>2
  <2> QED
    BY <1>3, <1>6, <2>2, <2>3, <2>4 DEF Uplink
<1>7. CASE ~cut[c] /\ client.wire = "v2"
  <2> DEFINE frames == <<Frame("magic", Nil), message>>
  <2>1. up'[c] = up[c] \o frames /\ frames \in Seq(UpFrames) /\ Len(frames) = 2 /\ frames[1].t = "magic" /\ frames[2] = message
    <3>1. <<Frame("magic", Nil)>> \o <<message>> = frames
      BY <1>4, ShortFacts
    <3>2. up'[c] = up[c] \o (<<Frame("magic", Nil)>> \o <<message>>)
      BY <1>2, <1>7 DEF WriteFirst, Sent, message
    <3> QED
      BY <1>4, <3>1, <3>2, ShortFacts
  <2> HIDE DEF frames
  <2>2. /\ n \in Nat /\ Len(up'[c]) = n + 2
        /\ \A i \in 1..n : Ordered(c, i)'
        /\ up'[c][n + 1] = frames[1] /\ up'[c][n + 2] = message
    <3>1. /\ Len(up'[c]) = n + 2 /\ \A i \in 1..n : up'[c][i] = up[c][i]
          /\ up'[c][n + 1] = frames[1] /\ up'[c][n + 2] = frames[2]
      <4>1. up[c] \in Seq(UpFrames) /\ frames \in Seq(UpFrames) /\ up'[c] = up[c] \o frames /\ n = Len(up[c])
        BY <1>0, <1>2, <2>1
      <4>2. /\ Len(up'[c]) = n + Len(frames) /\ (\A i \in 1..n : up'[c][i] = up[c][i])
            /\ Len(frames) >= 1 => up'[c][n + 1] = frames[1]
            /\ Len(frames) >= 2 => up'[c][n + 2] = frames[2]
        BY ONLY <4>1, n \in Nat, ConcatFacts
      <4>3. Len(frames) = 2
        BY <2>1
      <4> QED
        BY <4>2, <4>3
    <3> QED
      BY <1>0, <1>3, <2>1, <3>1, UplinkSent
  <2>3. Ordered(c, n + 1)'
    BY <1>1, <1>7, <2>1, <2>2 DEF Ordered
  <2>4. Ordered(c, n + 2)'
    <3>1. (n + 2) - 1 = n + 1 /\ n + 2 # 1
      BY <2>2
    <3>2. up'[c][n + 1].t = "magic" /\ up'[c][n + 2].t \in {"NewWorkConn", "NewVisitorConn"}
      BY <1>4, <2>1, <2>2
    <3> QED
      BY <1>1, <3>1, <3>2 DEF Ordered
  <2>5. \A i \in 1..(n + 2) : i \in 1..n \/ i = n + 1 \/ i = n + 2
    BY <2>2
  <2> QED
    BY <1>3, <1>7, <2>2, <2>3, <2>4, <2>5 DEF Uplink
<1> QED
  BY <1>1, <1>5, <1>6, <1>7

\* A step of one connection may end the handlers of others, and changes nothing else of them.
LEMMA OthersKept ==
    ASSUME TypeOK, NEW c \in Conns, Step(c), NEW d \in Conns, d # c
    PROVE  /\ up'[d] = up[d] /\ down'[d] = down[d] /\ cut'[d] = cut[d] /\ at'[d] = at[d]
           /\ accepted'[d] = accepted[d]
           /\ handler'[d] = handler[d] \/ handler'[d] = "ended"
<1> USE Functions DEF setupVars, clientVars, serverVars
<1>1. CASE Dial(c)
  BY <1>1 DEF Dial, Goes, Sent
<1>2. CASE Open(c)
  BY <1>2 DEF Open, Goes, Sent
<1>3. CASE OpenFails(c)
  BY <1>3 DEF OpenFails, Goes, Sent
<1>4. CASE DialConnect(c)
  BY <1>4 DEF DialConnect, Connect, Goes, Sent
<1>5. CASE SendHello(c)
  BY <1>5 DEF SendHello, Goes, Sent
<1>6. CASE SendLogin(c)
  BY <1>6 DEF SendLogin, Goes, Sent
<1>7. CASE ReadServerHello(c)
  BY <1>7 DEF ReadServerHello, AcceptsHello, Arrived, Read, Goes, Sent
<1>8. CASE ReadLoginResp(c)
  BY <1>8 DEF ReadLoginResp, AcceptsResp, Arrived, Read, Goes, Established, Sent
<1>9. CASE DialFails(c)
  BY <1>9 DEF DialFails, Close, Goes, ClosedConnector, Sent
<1>10. CASE SendNewWorkConn(c)
  BY <1>10 DEF SendNewWorkConn, WriteFirst, Goes, Sent
<1>11. CASE SendNewVisitorConn(c)
  BY <1>11 DEF SendNewVisitorConn, WriteFirst, Goes, Sent
<1>12. CASE ReadStart(c)
  BY <1>12 DEF ReadStart, Arrived, Read, Goes, Sent
<1>13. CASE ReadVisitorResp(c)
  BY <1>13 DEF ReadVisitorResp, Arrived, Read, Goes, Established, Sent
<1>14. CASE ConnFails(c)
  BY <1>14 DEF ConnFails, Close, Goes, Sent
<1>15. CASE CheckTLS(c)
  BY <1>15 DEF CheckTLS, HandlerAt, Receives, Sent
<1>16. CASE AcceptStream(c)
  BY <1>16 DEF AcceptStream, HandlerAt, Receives, Sent
<1>17. CASE CheckMagic(c)
  BY <1>17 DEF CheckMagic, HandlerAt, Receives, Sent
<1>18. CASE HandleClientHello(c)
  BY <1>18 DEF HandleClientHello, HandlerAt, Receives, Take, Write, Sent
<1>19. CASE RefuseClientHello(c)
  BY <1>19 DEF RefuseClientHello, HandlerAt, Receives, Take, Write, HangUp, Sent
<1>20. CASE ReadFirst(c)
  BY <1>20 DEF ReadFirst, HandlerAt, Receives, Take, Sent
<1>21. CASE RegisterControl(c)
  BY <1>21 DEF RegisterControl, Write, Sent
<1>22. CASE RefuseLogin(c)
  BY <1>22 DEF RefuseLogin, Write, HangUp, HandlerAt, Sent
<1>23. CASE RegisterWorkConn(c)
  BY <1>23 DEF RegisterWorkConn, HandlerAt, CurrentRun, Sent
<1>24. CASE RegisterVisitorConn(c)
  BY <1>24 DEF RegisterVisitorConn, Write, HandlerAt, Sent
<1>25. CASE RefuseConn(c)
  BY <1>25 DEF RefuseConn, Write, HangUp, HandlerAt, Sent
<1>26. CASE AcceptFails(c)
  BY <1>26 DEF AcceptFails, HangUp, HandlerAt, Sent
<1>27. CASE ControlEnds(c)
  BY <1>27 DEF ControlEnds, EndsWith, Sent
<1>28. CASE StartWork(c)
  BY <1>28 DEF StartWork, Write, HandlerAt, Sent
<1>29. CASE SessionEnds(c)
  BY <1>29 DEF SessionEnds, Goes, ClosedConnector, Sent
<1>30. CASE Cut(c)
  BY <1>30 DEF Cut, Sent
<1>31. CASE ConnectMore(c, "work") \/ ConnectMore(c, "visitor")
  BY <1>31 DEF ConnectMore, Connect, Goes, Sent
<1> QED
  BY <1>1, <1>2, <1>3, <1>4, <1>5, <1>6, <1>7, <1>8, <1>9, <1>10, <1>11, <1>12, <1>13, <1>14, <1>15, <1>16, <1>17, <1>18, <1>19, <1>20, <1>21, <1>22, <1>23, <1>24, <1>25, <1>26, <1>27, <1>28, <1>29, <1>30, <1>31 DEF Step, ClientStep, ServerStep

\* Uplink: the frames for the server keep their order.
LEMMA UplinkStep ==
    ASSUME Inv, NEW c \in Conns, Step(c), NEW d \in Conns
    PROVE  Uplink(d)'
<1> TypeOK
  BY DEF Inv
<1>0. CASE d # c
  BY <1>0, OthersKept, UplinkKept
<1> SUFFICES Uplink(c)'
  BY <1>0
<1>a. up[c] \in Seq(UpFrames) /\ Opening(c)
  BY Functions DEF Inv
<1>b. up[c] # <<>> => Head(up[c]) = up[c][1]
  BY <1>a
<1> USE Functions DEF setupVars, clientVars, serverVars
<1>1. CASE Dial(c)
  <2>1. /\ up'[c] = up[c] /\ cut'[c] = cut[c] /\ (at'[c] = at[c] \/ at'[c] # "greeted")
        /\ handler'[c] = handler[c] \/ handler'[c] \in {"handle", "control", "pooled", "joined", "ended"}
    BY <1>1 DEF Dial, Goes
  <2> QED
    BY <2>1, UplinkKept
<1>2. CASE Open(c)
  <2>1. /\ up'[c] = up[c] /\ cut'[c] = cut[c] /\ (at'[c] = at[c] \/ at'[c] # "greeted")
        /\ handler'[c] = handler[c] \/ handler'[c] \in {"handle", "control", "pooled", "joined", "ended"}
    BY <1>2 DEF Open, Goes
  <2> QED
    BY <2>1, UplinkKept
<1>3. CASE OpenFails(c)
  <2>1. /\ up'[c] = up[c] /\ cut'[c] = cut[c] /\ (at'[c] = at[c] \/ at'[c] # "greeted")
        /\ handler'[c] = handler[c] \/ handler'[c] \in {"handle", "control", "pooled", "joined", "ended"}
    BY <1>3 DEF OpenFails, Goes
  <2> QED
    BY <2>1, UplinkKept
<1>4. CASE DialConnect(c)
  <2>1. up'[c] = Preamble /\ handler'[c] = "tls" /\ at'[c] # "greeted" /\ ~cut'[c]
    BY <1>a, <1>4 DEF DialConnect, Connect, Goes, Opening, Untouched
  <2> QED
    BY <2>1, UplinkConnect
<1>5. CASE SendHello(c)
  BY <1>5, UplinkHello
<1>6. CASE SendLogin(c)
  BY <1>6, UplinkLogin
<1>7. CASE ReadServerHello(c)
  <2>1. /\ up'[c] = up[c] /\ cut'[c] = cut[c] /\ (at'[c] = at[c] \/ at'[c] # "greeted")
        /\ handler'[c] = handler[c] \/ handler'[c] \in {"handle", "control", "pooled", "joined", "ended"}
    BY <1>7 DEF ReadServerHello, AcceptsHello, Arrived, Read, Goes
  <2> QED
    BY <2>1, UplinkKept
<1>8. CASE ReadLoginResp(c)
  <2>1. /\ up'[c] = up[c] /\ cut'[c] = cut[c] /\ (at'[c] = at[c] \/ at'[c] # "greeted")
        /\ handler'[c] = handler[c] \/ handler'[c] \in {"handle", "control", "pooled", "joined", "ended"}
    BY <1>8 DEF ReadLoginResp, AcceptsResp, Arrived, Read, Goes, Established
  <2> QED
    BY <2>1, UplinkKept
<1>9. CASE DialFails(c)
  <2>1. /\ up'[c] = up[c] /\ cut'[c] = cut[c] /\ (at'[c] = at[c] \/ at'[c] # "greeted")
        /\ handler'[c] = handler[c] \/ handler'[c] \in {"handle", "control", "pooled", "joined", "ended"}
    BY <1>9 DEF DialFails, Close, Goes, ClosedConnector
  <2> QED
    BY <2>1, UplinkKept
<1>10. CASE SendNewWorkConn(c)
  BY <1>10, UplinkFirst DEF SendNewWorkConn
<1>11. CASE SendNewVisitorConn(c)
  BY <1>11, UplinkFirst DEF SendNewVisitorConn
<1>12. CASE ReadStart(c)
  <2>1. /\ up'[c] = up[c] /\ cut'[c] = cut[c] /\ (at'[c] = at[c] \/ at'[c] # "greeted")
        /\ handler'[c] = handler[c] \/ handler'[c] \in {"handle", "control", "pooled", "joined", "ended"}
    BY <1>12 DEF ReadStart, Arrived, Read, Goes
  <2> QED
    BY <2>1, UplinkKept
<1>13. CASE ReadVisitorResp(c)
  <2>1. /\ up'[c] = up[c] /\ cut'[c] = cut[c] /\ (at'[c] = at[c] \/ at'[c] # "greeted")
        /\ handler'[c] = handler[c] \/ handler'[c] \in {"handle", "control", "pooled", "joined", "ended"}
    BY <1>13 DEF ReadVisitorResp, Arrived, Read, Goes, Established
  <2> QED
    BY <2>1, UplinkKept
<1>14. CASE ConnFails(c)
  <2>1. /\ up'[c] = up[c] /\ cut'[c] = cut[c] /\ (at'[c] = at[c] \/ at'[c] # "greeted")
        /\ handler'[c] = handler[c] \/ handler'[c] \in {"handle", "control", "pooled", "joined", "ended"}
    BY <1>14 DEF ConnFails, Close, Goes
  <2> QED
    BY <2>1, UplinkKept
<1>15. CASE CheckTLS(c)
  <2>1. CASE Receives(c, "tls")
    <3>1. /\ up[c] # <<>> /\ up'[c] = Tail(up[c]) /\ cut'[c] = cut[c] /\ at'[c] = at[c]
          /\ handler[c] = "tls" /\ handler'[c] = "mux" /\ up[c][1].t = "tls"
      BY <1>a, <1>b, <1>15, <2>1 DEF CheckTLS, Receives, HandlerAt
    <3> QED
      BY <3>1, UplinkRead
  <2>2. CASE ~Receives(c, "tls")
    <3>1. /\ up'[c] = up[c] /\ cut'[c] = cut[c] /\ at'[c] = at[c]
          /\ handler[c] = "tls" /\ handler'[c] = "mux" /\ (up[c] # <<>> => up[c][1].t # "tls")
      BY <1>a, <1>b, <1>15, <2>2 DEF CheckTLS, Receives, HandlerAt
    <3> QED
      BY <3>1, UplinkSkipped
  <2> QED
    BY <2>1, <2>2
<1>16. CASE AcceptStream(c)
  <2>1. CASE Receives(c, "mux")
    <3>1. /\ up[c] # <<>> /\ up'[c] = Tail(up[c]) /\ cut'[c] = cut[c] /\ at'[c] = at[c]
          /\ handler[c] = "mux" /\ handler'[c] = "magic" /\ up[c][1].t = "mux"
      BY <1>a, <1>b, <1>16, <2>1 DEF AcceptStream, Receives, HandlerAt
    <3> QED
      BY <3>1, UplinkRead
  <2>2. CASE ~Receives(c, "mux")
    <3>1. /\ up'[c] = up[c] /\ cut'[c] = cut[c] /\ at'[c] = at[c]
          /\ handler[c] = "mux" /\ handler'[c] = "magic" /\ (up[c] # <<>> => up[c][1].t # "mux")
      BY <1>a, <1>b, <1>16, <2>2 DEF AcceptStream, Receives, HandlerAt
    <3> QED
      BY <3>1, UplinkSkipped
  <2> QED
    BY <2>1, <2>2
<1>17. CASE CheckMagic(c)
  <2>1. CASE Receives(c, "magic")
    <3>1. /\ up[c] # <<>> /\ up'[c] = Tail(up[c]) /\ cut'[c] = cut[c] /\ at'[c] = at[c]
          /\ handler[c] = "magic" /\ handler'[c] = "first" /\ up[c][1].t = "magic"
      BY <1>a, <1>b, <1>17, <2>1 DEF CheckMagic, Receives, HandlerAt
    <3> QED
      BY <3>1, UplinkRead
  <2>2. CASE ~Receives(c, "magic")
    <3>1. /\ up'[c] = up[c] /\ cut'[c] = cut[c] /\ at'[c] = at[c]
          /\ handler[c] = "magic" /\ handler'[c] = "first" /\ (up[c] # <<>> => up[c][1].t # "magic") /\ up[c] # <<>>
      BY <1>a, <1>b, <1>17, <2>2 DEF CheckMagic, Receives, HandlerAt
    <3> QED
      BY <3>1, UplinkSkipped
  <2> QED
    BY <2>1, <2>2
<1>18. CASE HandleClientHello(c)
  <2>1. /\ up[c] # <<>> /\ up'[c] = Tail(up[c]) /\ cut'[c] = cut[c] /\ at'[c] = at[c]
        /\ handler[c] \in {"first", "message"} /\ handler'[c] = "message" /\ handler[c] = "first" /\ up[c][1].t = "hello"
    BY <1>a, <1>b, <1>18 DEF HandleClientHello, HandlerAt, Receives, Take, Write
  <2> QED
    BY <2>1, UplinkRead
<1>19. CASE RefuseClientHello(c)
  <2>1. /\ up[c] # <<>> /\ up'[c] = Tail(up[c]) /\ cut'[c] = cut[c] /\ at'[c] = at[c]
        /\ handler[c] \in {"first", "message"} /\ handler'[c] \in {"handle", "ended"}
    BY <1>a, <1>b, <1>19 DEF RefuseClientHello, HandlerAt, Receives, Take, Write, HangUp
  <2> QED
    BY <2>1, UplinkRead
<1>20. CASE ReadFirst(c)
  <2>1. /\ up[c] # <<>> /\ up'[c] = Tail(up[c]) /\ cut'[c] = cut[c] /\ at'[c] = at[c]
        /\ handler[c] \in {"first", "message"} /\ handler'[c] \in {"handle", "ended"}
    BY <1>a, <1>b, <1>20 DEF ReadFirst, HandlerAt, Receives, Take
  <2> QED
    BY <2>1, UplinkRead
<1>21. CASE RegisterControl(c)
  <2>1. /\ up'[c] = up[c] /\ cut'[c] = cut[c] /\ (at'[c] = at[c] \/ at'[c] # "greeted")
        /\ handler'[c] = handler[c] \/ handler'[c] \in {"handle", "control", "pooled", "joined", "ended"}
    BY <1>21 DEF RegisterControl, Write
  <2> QED
    BY <2>1, UplinkKept
<1>22. CASE RefuseLogin(c)
  <2>1. /\ up'[c] = up[c] /\ cut'[c] = cut[c] /\ (at'[c] = at[c] \/ at'[c] # "greeted")
        /\ handler'[c] = handler[c] \/ handler'[c] \in {"handle", "control", "pooled", "joined", "ended"}
    BY <1>22 DEF RefuseLogin, Write, HangUp, HandlerAt
  <2> QED
    BY <2>1, UplinkKept
<1>23. CASE RegisterWorkConn(c)
  <2>1. /\ up'[c] = up[c] /\ cut'[c] = cut[c] /\ (at'[c] = at[c] \/ at'[c] # "greeted")
        /\ handler'[c] = handler[c] \/ handler'[c] \in {"handle", "control", "pooled", "joined", "ended"}
    BY <1>23 DEF RegisterWorkConn, HandlerAt, CurrentRun
  <2> QED
    BY <2>1, UplinkKept
<1>24. CASE RegisterVisitorConn(c)
  <2>1. /\ up'[c] = up[c] /\ cut'[c] = cut[c] /\ (at'[c] = at[c] \/ at'[c] # "greeted")
        /\ handler'[c] = handler[c] \/ handler'[c] \in {"handle", "control", "pooled", "joined", "ended"}
    BY <1>24 DEF RegisterVisitorConn, Write, HandlerAt
  <2> QED
    BY <2>1, UplinkKept
<1>25. CASE RefuseConn(c)
  <2>1. /\ up'[c] = up[c] /\ cut'[c] = cut[c] /\ (at'[c] = at[c] \/ at'[c] # "greeted")
        /\ handler'[c] = handler[c] \/ handler'[c] \in {"handle", "control", "pooled", "joined", "ended"}
    BY <1>25 DEF RefuseConn, Write, HangUp, HandlerAt
  <2> QED
    BY <2>1, UplinkKept
<1>26. CASE AcceptFails(c)
  <2>1. /\ up'[c] = up[c] /\ cut'[c] = cut[c] /\ (at'[c] = at[c] \/ at'[c] # "greeted")
        /\ handler'[c] = handler[c] \/ handler'[c] \in {"handle", "control", "pooled", "joined", "ended"}
    BY <1>26 DEF AcceptFails, HangUp, HandlerAt
  <2> QED
    BY <2>1, UplinkKept
<1>27. CASE ControlEnds(c)
  <2>1. /\ up'[c] = up[c] /\ cut'[c] = cut[c] /\ (at'[c] = at[c] \/ at'[c] # "greeted")
        /\ handler'[c] = handler[c] \/ handler'[c] \in {"handle", "control", "pooled", "joined", "ended"}
    BY <1>27 DEF ControlEnds, EndsWith
  <2> QED
    BY <2>1, UplinkKept
<1>28. CASE StartWork(c)
  <2>1. /\ up'[c] = up[c] /\ cut'[c] = cut[c] /\ (at'[c] = at[c] \/ at'[c] # "greeted")
        /\ handler'[c] = handler[c] \/ handler'[c] \in {"handle", "control", "pooled", "joined", "ended"}
    BY <1>28 DEF StartWork, Write, HandlerAt
  <2> QED
    BY <2>1, UplinkKept
<1>29. CASE SessionEnds(c)
  <2>1. /\ up'[c] = up[c] /\ cut'[c] = cut[c] /\ (at'[c] = at[c] \/ at'[c] # "greeted")
        /\ handler'[c] = handler[c] \/ handler'[c] \in {"handle", "control", "pooled", "joined", "ended"}
    BY <1>29 DEF SessionEnds, Goes, ClosedConnector
  <2> QED
    BY <2>1, UplinkKept
<1>30. CASE Cut(c)
  <2>1. up'[c] = <<>> /\ cut'[c]
    BY <1>30 DEF Cut
  <2> QED
    BY <2>1, UplinkEmpty
<1>31. CASE ConnectMore(c, "work") \/ ConnectMore(c, "visitor")
  <2>1. up'[c] = Preamble /\ handler'[c] = "tls" /\ at'[c] # "greeted" /\ ~cut'[c]
    BY <1>a, <1>31 DEF ConnectMore, Connect, Goes, Opening, Untouched
  <2> QED
    BY <2>1, UplinkConnect
<1> QED
  BY <1>1, <1>2, <1>3, <1>4, <1>5, <1>6, <1>7, <1>8, <1>9, <1>10, <1>11, <1>12, <1>13, <1>14, <1>15, <1>16, <1>17, <1>18, <1>19, <1>20, <1>21, <1>22, <1>23, <1>24, <1>25, <1>26, <1>27, <1>28, <1>29, <1>30, <1>31 DEF Step, ClientStep, ServerStep

\* A connection of which nothing was read.
LEMMA FreshFacts ==
    /\ NoConn.wire = "v1" /\ ~NoConn.hello /\ NoConn.first = Nil /\ NoConn.crypto = Nil /\ NoConn.codec = ""
  BY DEF NoConn

\* Acceptance of a connection of which nothing was read, while the handler stays or has finished.
LEMMA AcceptanceKept ==
    ASSUME Inv, NEW c \in Conns, Step(c), NEW d \in Conns, accepted'[d] = accepted[d],
           handler'[d] = handler[d] \/ handler'[d] \in {"pooled", "joined", "ended"}
    PROVE  Acceptance(d)'
<1>1. /\ Acceptance(d) /\ client' = client /\ Logins' = Logins
      /\ HelloOf(d)' = HelloOf(d) /\ CryptoOf(d)' = CryptoOf(d) /\ NewAuthSetter' = NewAuthSetter
  BY SetupStable, SetupKept DEF Inv, Logins, RunIDs, Credentials
<1> QED
  BY <1>1 DEF Acceptance, Early

\* Acceptance: what the server holds of a connection is what the client meant.
LEMMA AcceptanceStep ==
    ASSUME Inv, NEW c \in Conns, Step(c), NEW d \in Conns
    PROVE  Acceptance(d)'
<1> TypeOK
  BY DEF Inv
<1>0. CASE d # c
  BY <1>0, OthersKept, AcceptanceKept
<1> SUFFICES Acceptance(c)'
  BY <1>0
<1>a. up[c] \in Seq(UpFrames) /\ Opening(c) /\ Acceptance(c) /\ Uplink(c) /\ accepted[c] \in Acceptances /\ client.wire \in {"v1", "v2"}
  BY Functions, SetupType DEF Inv
<1>b. up[c] # <<>> => Head(up[c]) = up[c][1] /\ Ordered(c, 1) /\ up[c][1] \in UpFrames
  BY <1>a DEF Uplink
<1>c. /\ client' = client /\ Logins' = Logins
      /\ HelloOf(c)' = HelloOf(c) /\ CryptoOf(c)' = CryptoOf(c) /\ NewAuthSetter' = NewAuthSetter
  BY SetupStable, SetupKept DEF Logins, RunIDs, Credentials
<1> USE Functions DEF setupVars, clientVars, serverVars
<1>1. CASE Dial(c)
  <2>1. accepted'[c] = accepted[c] /\ (handler'[c] = handler[c] \/ handler'[c] \in {"pooled", "joined", "ended"})
    BY <1>1 DEF Dial, Goes
  <2> QED
    BY <2>1, AcceptanceKept
<1>2. CASE Open(c)
  <2>1. accepted'[c] = accepted[c] /\ (handler'[c] = handler[c] \/ handler'[c] \in {"pooled", "joined", "ended"})
    BY <1>2 DEF Open, Goes
  <2> QED
    BY <2>1, AcceptanceKept
<1>3. CASE OpenFails(c)
  <2>1. accepted'[c] = accepted[c] /\ (handler'[c] = handler[c] \/ handler'[c] \in {"pooled", "joined", "ended"})
    BY <1>3 DEF OpenFails, Goes
  <2> QED
    BY <2>1, AcceptanceKept
<1>4. CASE DialConnect(c)
  <2>1. accepted'[c] = NoConn /\ handler'[c] = "tls"
    BY <1>a, <1>4 DEF DialConnect, Connect, Goes, Opening, Untouched
  <2> QED
    BY <2>1, FreshFacts DEF Acceptance, Early
<1>5. CASE SendHello(c)
  <2>1. accepted'[c] = accepted[c] /\ (handler'[c] = handler[c] \/ handler'[c] \in {"pooled", "joined", "ended"})
    BY <1>5 DEF SendHello, Goes
  <2> QED
    BY <2>1, AcceptanceKept
<1>6. CASE SendLogin(c)
  <2>1. accepted'[c] = accepted[c] /\ (handler'[c] = handler[c] \/ handler'[c] \in {"pooled", "joined", "ended"})
    BY <1>6 DEF SendLogin, Goes
  <2> QED
    BY <2>1, AcceptanceKept
<1>7. CASE ReadServerHello(c)
  <2>1. accepted'[c] = accepted[c] /\ (handler'[c] = handler[c] \/ handler'[c] \in {"pooled", "joined", "ended"})
    BY <1>7 DEF ReadServerHello, AcceptsHello, Arrived, Read, Goes
  <2> QED
    BY <2>1, AcceptanceKept
<1>8. CASE ReadLoginResp(c)
  <2>1. accepted'[c] = accepted[c] /\ (handler'[c] = handler[c] \/ handler'[c] \in {"pooled", "joined", "ended"})
    BY <1>8 DEF ReadLoginResp, AcceptsResp, Arrived, Read, Goes, Established
  <2> QED
    BY <2>1, AcceptanceKept
<1>9. CASE DialFails(c)
  <2>1. accepted'[c] = accepted[c] /\ (handler'[c] = handler[c] \/ handler'[c] \in {"pooled", "joined", "ended"})
    BY <1>9 DEF DialFails, Close, Goes, ClosedConnector
  <2> QED
    BY <2>1, AcceptanceKept
<1>10. CASE SendNewWorkConn(c)
  <2>1. accepted'[c] = accepted[c] /\ (handler'[c] = handler[c] \/ handler'[c] \in {"pooled", "joined", "ended"})
    BY <1>10 DEF SendNewWorkConn, WriteFirst, Goes
  <2> QED
    BY <2>1, AcceptanceKept
<1>11. CASE SendNewVisitorConn(c)
  <2>1. accepted'[c] = accepted[c] /\ (handler'[c] = handler[c] \/ handler'[c] \in {"pooled", "joined", "ended"})
    BY <1>11 DEF SendNewVisitorConn, WriteFirst, Goes
  <2> QED
    BY <2>1, AcceptanceKept
<1>12. CASE ReadStart(c)
  <2>1. accepted'[c] = accepted[c] /\ (handler'[c] = handler[c] \/ handler'[c] \in {"pooled", "joined", "ended"})
    BY <1>12 DEF ReadStart, Arrived, Read, Goes
  <2> QED
    BY <2>1, AcceptanceKept
<1>13. CASE ReadVisitorResp(c)
  <2>1. accepted'[c] = accepted[c] /\ (handler'[c] = handler[c] \/ handler'[c] \in {"pooled", "joined", "ended"})
    BY <1>13 DEF ReadVisitorResp, Arrived, Read, Goes, Established
  <2> QED
    BY <2>1, AcceptanceKept
<1>14. CASE ConnFails(c)
  <2>1. accepted'[c] = accepted[c] /\ (handler'[c] = handler[c] \/ handler'[c] \in {"pooled", "joined", "ended"})
    BY <1>14 DEF ConnFails, Close, Goes
  <2> QED
    BY <2>1, AcceptanceKept
<1>15. CASE CheckTLS(c)
  <2>1. /\ handler[c] = "tls" /\ handler'[c] = "mux"
        /\ accepted' = [accepted EXCEPT ![c].tls = client.protocol = "quic" \/ Receives(c, "tls")]
    BY <1>15 DEF CheckTLS, HandlerAt
  <2>2. /\ accepted'[c].wire = accepted[c].wire /\ accepted'[c].hello = accepted[c].hello /\ accepted'[c].first = accepted[c].first
        /\ accepted'[c].crypto = accepted[c].crypto /\ accepted'[c].codec = accepted[c].codec
    BY <1>a, <2>1 DEF Acceptances
  <2> QED
    BY <1>a, <1>c, <2>1, <2>2 DEF Acceptance, Early
<1>16. CASE AcceptStream(c)
  <2>1. handler[c] = "mux" /\ handler'[c] = "magic" /\ accepted'[c] = accepted[c]
    BY <1>16 DEF AcceptStream, HandlerAt
  <2> QED
    BY <1>a, <1>c, <2>1 DEF Acceptance, Early
<1>17. CASE CheckMagic(c)
  <2>1. /\ handler[c] = "magic" /\ handler'[c] = "first" /\ up[c] # <<>> /\ cut' = cut /\ at' = at
        /\ accepted' = [accepted EXCEPT ![c].wire = IF Receives(c, "magic") THEN "v2" ELSE "v1"]
        /\ up' = IF Receives(c, "magic") THEN [up EXCEPT ![c] = Tail(@)] ELSE up
    BY <1>17 DEF CheckMagic, HandlerAt
  <2>2. /\ accepted'[c].hello = accepted[c].hello /\ accepted'[c].first = accepted[c].first
        /\ accepted'[c].crypto = accepted[c].crypto /\ accepted'[c].codec = accepted[c].codec
        /\ accepted'[c].wire = IF Receives(c, "magic") THEN "v2" ELSE "v1"
    BY <1>a, <2>1 DEF Acceptances
  <2>3. accepted'[c].wire = client.wire
    <3>1. CASE Receives(c, "magic")
      BY <1>a, <1>b, <2>1, <2>2, <3>1 DEF Ordered, Receives
    <3>2. CASE ~Receives(c, "magic")
      <4>1. up'[c] = up[c] /\ up[c][1].t # "magic"
        BY <1>a, <1>b, <2>1, <3>2 DEF Receives
      <4>2. client.wire = "v1"
        BY <2>1, <4>1, UplinkSkipped
      <4> QED
        BY <2>2, <3>2, <4>2
    <3> QED
      BY <3>1, <3>2
  <2> QED
    BY <1>a, <1>c, <2>1, <2>2, <2>3 DEF Acceptance, Early
<1>18. CASE HandleClientHello(c)
  <2>1. up[c] # <<>> /\ Head(up[c]).t = "hello" /\ handler[c] = "first" /\ handler'[c] = "message"
    BY <1>18 DEF HandleClientHello, Receives, HandlerAt
  <2>2. Head(up[c]).v = NewClientHello(c) /\ client.wire = "v2"
    BY <1>b, <2>1 DEF Ordered
  <2>3. accepted' = [accepted EXCEPT ![c].hello = TRUE, ![c].codec = HelloOf(c).codec, ![c].crypto = CryptoOf(c)]
    BY <1>18, <2>2 DEF HandleClientHello, HelloOf, CryptoOf
  <2>4. /\ accepted'[c].hello /\ accepted'[c].codec = HelloOf(c).codec /\ accepted'[c].crypto = CryptoOf(c)
        /\ accepted'[c].wire = accepted[c].wire
    BY <1>a, <2>3 DEF Acceptances
  <2> QED
    BY <1>a, <1>c, <2>1, <2>2, <2>4 DEF Acceptance, Early
<1>19. CASE RefuseClientHello(c)
  <2>1. accepted'[c] = accepted[c] /\ (handler'[c] = handler[c] \/ handler'[c] \in {"pooled", "joined", "ended"})
    BY <1>19 DEF RefuseClientHello, HandlerAt, Receives, Take, Write, HangUp
  <2> QED
    BY <2>1, AcceptanceKept
<1>20. CASE ReadFirst(c)
  <2>1. /\ up[c] # <<>> /\ Head(up[c]).t # "hello" /\ handler[c] \in {"first", "message"} /\ handler'[c] = "handle"
        /\ accepted' = [accepted EXCEPT ![c].first = Head(up[c])]
    BY <1>20 DEF ReadFirst, Receives, HandlerAt
  <2>2. /\ accepted'[c].hello = accepted[c].hello /\ accepted'[c].wire = accepted[c].wire
        /\ accepted'[c].crypto = accepted[c].crypto /\ accepted'[c].codec = accepted[c].codec
        /\ accepted'[c].first = up[c][1]
    BY <1>a, <1>b, <2>1 DEF Acceptances
  <2>4. up[c][1].t = "Login" /\ client.wire = "v2" => accepted[c].hello
    BY <1>a, <1>b, <2>1 DEF Ordered, Acceptance
  <2>5. up[c][1].t = "Login" => LET m == up[c][1].v IN
            m \in Logins /\ m.cred = NewAuthSetter /\ m.xtcp = client.xtcp /\ m.ssh = client.ssh
    BY <1>b, <2>1 DEF Ordered
  <2> QED
    BY <1>a, <1>c, <2>1, <2>2, <2>4, <2>5 DEF Acceptance, Early
<1>21. CASE RegisterControl(c)
  <2>0. handler[c] = "handle" /\ (control # Nil => handler[control.conn] = "control")
    BY <1>21 DEF RegisterControl, Inv, Controlled
  <2>1. handler[c] = "handle" /\ handler'[c] = "control" /\ accepted'[c] = accepted[c] /\ accepted[c].first.t = "Login"
    BY <1>21, <2>0 DEF RegisterControl, Pool
  <2> QED
    BY <1>a, <1>c, <2>1 DEF Acceptance, Early
<1>22. CASE RefuseLogin(c)
  <2>1. accepted'[c] = accepted[c] /\ (handler'[c] = handler[c] \/ handler'[c] \in {"pooled", "joined", "ended"})
    BY <1>22 DEF RefuseLogin, Write, HangUp, HandlerAt
  <2> QED
    BY <2>1, AcceptanceKept
<1>23. CASE RegisterWorkConn(c)
  <2>1. accepted'[c] = accepted[c] /\ (handler'[c] = handler[c] \/ handler'[c] \in {"pooled", "joined", "ended"})
    BY <1>23 DEF RegisterWorkConn, HandlerAt, CurrentRun
  <2> QED
    BY <2>1, AcceptanceKept
<1>24. CASE RegisterVisitorConn(c)
  <2>1. accepted'[c] = accepted[c] /\ (handler'[c] = handler[c] \/ handler'[c] \in {"pooled", "joined", "ended"})
    BY <1>24 DEF RegisterVisitorConn, Write, HandlerAt
  <2> QED
    BY <2>1, AcceptanceKept
<1>25. CASE RefuseConn(c)
  <2>1. accepted'[c] = accepted[c] /\ (handler'[c] = handler[c] \/ handler'[c] \in {"pooled", "joined", "ended"})
    BY <1>25 DEF RefuseConn, Write, HangUp, HandlerAt
  <2> QED
    BY <2>1, AcceptanceKept
<1>26. CASE AcceptFails(c)
  <2>1. accepted'[c] = accepted[c] /\ (handler'[c] = handler[c] \/ handler'[c] \in {"pooled", "joined", "ended"})
    BY <1>26 DEF AcceptFails, HangUp, HandlerAt
  <2> QED
    BY <2>1, AcceptanceKept
<1>27. CASE ControlEnds(c)
  <2>1. accepted'[c] = accepted[c] /\ (handler'[c] = handler[c] \/ handler'[c] \in {"pooled", "joined", "ended"})
    BY <1>27 DEF ControlEnds, EndsWith
  <2> QED
    BY <2>1, AcceptanceKept
<1>28. CASE StartWork(c)
  <2>1. accepted'[c] = accepted[c] /\ (handler'[c] = handler[c] \/ handler'[c] \in {"pooled", "joined", "ended"})
    BY <1>28 DEF StartWork, Write, HandlerAt
  <2> QED
    BY <2>1, AcceptanceKept
<1>29. CASE SessionEnds(c)
  <2>1. accepted'[c] = accepted[c] /\ (handler'[c] = handler[c] \/ handler'[c] \in {"pooled", "joined", "ended"})
    BY <1>29 DEF SessionEnds, Goes, ClosedConnector
  <2> QED
    BY <2>1, AcceptanceKept
<1>30. CASE Cut(c)
  <2>1. accepted'[c] = accepted[c] /\ (handler'[c] = handler[c] \/ handler'[c] \in {"pooled", "joined", "ended"})
    BY <1>30 DEF Cut
  <2> QED
    BY <2>1, AcceptanceKept
<1>31. CASE ConnectMore(c, "work") \/ ConnectMore(c, "visitor")
  <2>1. accepted'[c] = NoConn /\ handler'[c] = "tls"
    BY <1>a, <1>31 DEF ConnectMore, Connect, Goes, Opening, Untouched
  <2> QED
    BY <2>1, FreshFacts DEF Acceptance, Early
<1> QED
  BY <1>1, <1>2, <1>3, <1>4, <1>5, <1>6, <1>7, <1>8, <1>9, <1>10, <1>11, <1>12, <1>13, <1>14, <1>15, <1>16, <1>17, <1>18, <1>19, <1>20, <1>21, <1>22, <1>23, <1>24, <1>25, <1>26, <1>27, <1>28, <1>29, <1>30, <1>31 DEF Step, ClientStep, ServerStep

\* Downlink when answers are only read, and what they were computed from stays.
LEMMA DownlinkKept ==
    ASSUME Inv, NEW c \in Conns, Step(c), NEW d \in Conns,
           down'[d] = down[d] \/ (down[d] # <<>> /\ down'[d] = Tail(down[d])) \/ down'[d] = <<>>,
           accepted[d].hello => accepted'[d].hello,
           handler[d] \in {"control", "ended"} => handler'[d] \in {"control", "ended"} /\ accepted'[d].first = accepted[d].first
    PROVE  Downlink(d)'
<1>1. Downlink(d) /\ HelloOf(d)' = HelloOf(d) /\ RunIDs' = RunIDs /\ down[d] \in Seq(DownFrames)
  BY SetupStable, Functions DEF Inv, RunIDs
<1>2. ASSUME NEW i \in 1..Len(down'[d]) PROVE \E j \in 1..Len(down[d]) : down'[d][i] = down[d][j]
  <2>1. CASE down'[d] = down[d]
    BY <1>1, <2>1
  <2>2. CASE down[d] # <<>> /\ down'[d] = Tail(down[d])
    <3>1. /\ Len(down[d]) \in Nat \ {0} /\ Len(down'[d]) = Len(down[d]) - 1
          /\ \A k \in 1..(Len(down[d]) - 1) : down'[d][k] = down[d][k + 1]
      BY <1>1, <2>2, TailFacts
    <3>2. i + 1 \in 1..Len(down[d]) /\ down'[d][i] = down[d][i + 1]
      BY <3>1
    <3> QED
      BY <3>2
  <2>3. CASE down'[d] = <<>>
    BY <2>3
  <2> QED
    BY <2>1, <2>2, <2>3
<1>3. ASSUME NEW j \in 1..Len(down[d]), NEW f, f = down[d][j]
      PROVE  /\ f.t = "serverHello" /\ ~f.v.error => accepted'[d].hello /\ f.v = HelloOf(d)'
             /\ f.t = "LoginResp" /\ ~f.v.error =>
                    handler'[d] \in {"control", "ended"} /\ f.v.run = RunOf(d)' /\ f.v.run \in RunIDs'
  BY <1>1, <1>3 DEF Downlink, RunOf
<1> QED
  BY <1>2, <1>3 DEF Downlink

\* Downlink when the server has answered.
LEMMA DownlinkSent ==
    ASSUME Inv, NEW c \in Conns, Step(c), NEW f \in DownFrames, down' = Sent(down, c, <<f>>),
           accepted[c].hello => accepted'[c].hello,
           handler[c] \in {"control", "ended"} => handler'[c] \in {"control", "ended"} /\ accepted'[c].first = accepted[c].first,
           f.t = "serverHello" /\ ~f.v.error => accepted'[c].hello /\ f.v = HelloOf(c),
           f.t = "LoginResp" /\ ~f.v.error =>
               handler'[c] \in {"control", "ended"} /\ f.v.run = RunOf(c)' /\ f.v.run \in RunIDs
    PROVE  Downlink(c)'
<1>1. Downlink(c) /\ HelloOf(c)' = HelloOf(c) /\ RunIDs' = RunIDs /\ down[c] \in Seq(DownFrames) /\ TypeOK
  BY SetupStable, Functions DEF Inv, RunIDs
<1>2. ASSUME NEW i \in 1..Len(down'[c]) PROVE down'[c][i] = f \/ \E j \in 1..Len(down[c]) : down'[c][i] = down[c][j]
  <2>1. CASE cut[c]
    <3>1. down'[c] = down[c]
      BY <1>1, <2>1, Functions DEF Sent
    <3> QED
      BY <1>1, <3>1
  <2>2. CASE ~cut[c]
    <3>1. PICK n \in Nat : n = Len(down[c])
      BY <1>1
    <3>2. <<f>> \in Seq(DownFrames) /\ Len(<<f>>) = 1 /\ <<f>>[1] = f
      BY ShortFacts
    <3>3. down'[c] = down[c] \o <<f>>
      BY <1>1, <2>2, Functions DEF Sent
    <3>4. /\ Len(down'[c]) = n + Len(<<f>>) /\ (\A k \in 1..n : down'[c][k] = down[c][k])
          /\ Len(<<f>>) >= 1 => down'[c][n + 1] = <<f>>[1]
      BY ONLY <1>1, <3>1, <3>2, <3>3, n \in Nat, ConcatFacts
    <3>5. Len(down'[c]) = n + 1 /\ down'[c][n + 1] = f
      BY <3>2, <3>4
    <3>6. i \in 1..n \/ i = n + 1
      BY <3>5
    <3> QED
      BY <3>1, <3>4, <3>5, <3>6
  <2> QED
    BY <2>1, <2>2
<1>3. ASSUME NEW j \in 1..Len(down[c]), NEW g, g = down[c][j]
      PROVE  /\ g.t = "serverHello" /\ ~g.v.error => accepted'[c].hello /\ g.v = HelloOf(c)'
             /\ g.t = "LoginResp" /\ ~g.v.error =>
                    handler'[c] \in {"control", "ended"} /\ g.v.run = RunOf(c)' /\ g.v.run \in RunIDs'
  BY <1>1, <1>3 DEF Downlink, RunOf
<1> QED
  BY <1>1, <1>2, <1>3 DEF Downlink

\* Downlink: an answer that is on its way says what the server holds.
LEMMA DownlinkStep ==
    ASSUME Inv, NEW c \in Conns, Step(c), NEW d \in Conns
    PROVE  Downlink(d)'
<1> TypeOK
  BY DEF Inv
<1>0. CASE d # c
  BY <1>0, OthersKept, DownlinkKept
<1> SUFFICES Downlink(c)'
  BY <1>0
<1>a. /\ up[c] \in Seq(UpFrames) /\ down[c] \in Seq(DownFrames) /\ Opening(c) /\ Acceptance(c) /\ Uplink(c)
      /\ accepted[c] \in Acceptances
  BY Functions DEF Inv
<1> USE Functions DEF setupVars, clientVars, serverVars
<1>1. CASE Dial(c)
  <2>1. /\ down'[c] = down[c] \/ (down[c] # <<>> /\ down'[c] = Tail(down[c])) \/ down'[c] = <<>>
        /\ accepted'[c] = accepted[c]
        /\ handler[c] \in {"control", "ended"} => handler'[c] \in {"control", "ended"}
    BY <1>a, <1>1 DEF Dial, Goes, Opening, Untouched
  <2> QED
    BY <2>1, DownlinkKept
<1>2. CASE Open(c)
  <2>1. /\ down'[c] = down[c] \/ (down[c] # <<>> /\ down'[c] = Tail(down[c])) \/ down'[c] = <<>>
        /\ accepted'[c] = accepted[c]
        /\ handler[c] \in {"control", "ended"} => handler'[c] \in {"control", "ended"}
    BY <1>a, <1>2 DEF Open, Goes, Opening, Untouched
  <2> QED
    BY <2>1, DownlinkKept
<1>3. CASE OpenFails(c)
  <2>1. /\ down'[c] = down[c] \/ (down[c] # <<>> /\ down'[c] = Tail(down[c])) \/ down'[c] = <<>>
        /\ accepted'[c] = accepted[c]
        /\ handler[c] \in {"control", "ended"} => handler'[c] \in {"control", "ended"}
    BY <1>a, <1>3 DEF OpenFails, Goes, Opening, Untouched
  <2> QED
    BY <2>1, DownlinkKept
<1>4. CASE DialConnect(c)
  <2>1. /\ down'[c] = down[c] \/ (down[c] # <<>> /\ down'[c] = Tail(down[c])) \/ down'[c] = <<>>
        /\ accepted'[c] = accepted[c]
        /\ handler[c] \in {"control", "ended"} => handler'[c] \in {"control", "ended"}
    BY <1>a, <1>4 DEF DialConnect, Connect, Goes, Opening, Untouched
  <2> QED
    BY <2>1, DownlinkKept
<1>5. CASE SendHello(c)
  <2>1. /\ down'[c] = down[c] \/ (down[c] # <<>> /\ down'[c] = Tail(down[c])) \/ down'[c] = <<>>
        /\ accepted'[c] = accepted[c]
        /\ handler[c] \in {"control", "ended"} => handler'[c] \in {"control", "ended"}
    BY <1>a, <1>5 DEF SendHello, Goes, Opening, Untouched
  <2> QED
    BY <2>1, DownlinkKept
<1>6. CASE SendLogin(c)
  <2>1. /\ down'[c] = down[c] \/ (down[c] # <<>> /\ down'[c] = Tail(down[c])) \/ down'[c] = <<>>
        /\ accepted'[c] = accepted[c]
        /\ handler[c] \in {"control", "ended"} => handler'[c] \in {"control", "ended"}
    BY <1>a, <1>6 DEF SendLogin, Goes, Opening, Untouched
  <2> QED
    BY <2>1, DownlinkKept
<1>7. CASE ReadServerHello(c)
  <2>1. /\ down'[c] = down[c] \/ (down[c] # <<>> /\ down'[c] = Tail(down[c])) \/ down'[c] = <<>>
        /\ accepted'[c] = accepted[c]
        /\ handler[c] \in {"control", "ended"} => handler'[c] \in {"control", "ended"}
    BY <1>a, <1>7 DEF ReadServerHello, AcceptsHello, Arrived, Read, Goes, Opening, Untouched
  <2> QED
    BY <2>1, DownlinkKept
<1>8. CASE ReadLoginResp(c)
  <2>1. /\ down'[c] = down[c] \/ (down[c] # <<>> /\ down'[c] = Tail(down[c])) \/ down'[c] = <<>>
        /\ accepted'[c] = accepted[c]
        /\ handler[c] \in {"control", "ended"} => handler'[c] \in {"control", "ended"}
    BY <1>a, <1>8 DEF ReadLoginResp, AcceptsResp, Arrived, Read, Goes, Established, Opening, Untouched
  <2> QED
    BY <2>1, DownlinkKept
<1>9. CASE DialFails(c)
  <2>1. /\ down'[c] = down[c] \/ (down[c] # <<>> /\ down'[c] = Tail(down[c])) \/ down'[c] = <<>>
        /\ accepted'[c] = accepted[c]
        /\ handler[c] \in {"control", "ended"} => handler'[c] \in {"control", "ended"}
    BY <1>a, <1>9 DEF DialFails, Close, Goes, ClosedConnector, Opening, Untouched
  <2> QED
    BY <2>1, DownlinkKept
<1>10. CASE SendNewWorkConn(c)
  <2>1. /\ down'[c] = down[c] \/ (down[c] # <<>> /\ down'[c] = Tail(down[c])) \/ down'[c] = <<>>
        /\ accepted'[c] = accepted[c]
        /\ handler[c] \in {"control", "ended"} => handler'[c] \in {"control", "ended"}
    BY <1>a, <1>10 DEF SendNewWorkConn, WriteFirst, Goes, Opening, Untouched
  <2> QED
    BY <2>1, DownlinkKept
<1>11. CASE SendNewVisitorConn(c)
  <2>1. /\ down'[c] = down[c] \/ (down[c] # <<>> /\ down'[c] = Tail(down[c])) \/ down'[c] = <<>>
        /\ accepted'[c] = accepted[c]
        /\ handler[c] \in {"control", "ended"} => handler'[c] \in {"control", "ended"}
    BY <1>a, <1>11 DEF SendNewVisitorConn, WriteFirst, Goes, Opening, Untouched
  <2> QED
    BY <2>1, DownlinkKept
<1>12. CASE ReadStart(c)
  <2>1. /\ down'[c] = down[c] \/ (down[c] # <<>> /\ down'[c] = Tail(down[c])) \/ down'[c] = <<>>
        /\ accepted'[c] = accepted[c]
        /\ handler[c] \in {"control", "ended"} => handler'[c] \in {"control", "ended"}
    BY <1>a, <1>12 DEF ReadStart, Arrived, Read, Goes, Opening, Untouched
  <2> QED
    BY <2>1, DownlinkKept
<1>13. CASE ReadVisitorResp(c)
  <2>1. /\ down'[c] = down[c] \/ (down[c] # <<>> /\ down'[c] = Tail(down[c])) \/ down'[c] = <<>>
        /\ accepted'[c] = accepted[c]
        /\ handler[c] \in {"control", "ended"} => handler'[c] \in {"control", "ended"}
    BY <1>a, <1>13 DEF ReadVisitorResp, Arrived, Read, Goes, Established, Opening, Untouched
  <2> QED
    BY <2>1, DownlinkKept
<1>14. CASE ConnFails(c)
  <2>1. /\ down'[c] = down[c] \/ (down[c] # <<>> /\ down'[c] = Tail(down[c])) \/ down'[c] = <<>>
        /\ accepted'[c] = accepted[c]
        /\ handler[c] \in {"control", "ended"} => handler'[c] \in {"control", "ended"}
    BY <1>a, <1>14 DEF ConnFails, Close, Goes, Opening, Untouched
  <2> QED
    BY <2>1, DownlinkKept
<1>15. CASE CheckTLS(c)
  <2>1. handler[c] = "tls" /\ down' = down
    BY <1>15 DEF CheckTLS
  <2>2. ~accepted[c].hello
    BY <1>a, <2>1 DEF Acceptance, Early
  <2> QED
    BY <2>1, <2>2, DownlinkKept
<1>16. CASE AcceptStream(c)
  <2>1. /\ down'[c] = down[c] \/ (down[c] # <<>> /\ down'[c] = Tail(down[c])) \/ down'[c] = <<>>
        /\ accepted'[c] = accepted[c]
        /\ handler[c] \in {"control", "ended"} => handler'[c] \in {"control", "ended"}
    BY <1>a, <1>16 DEF AcceptStream, HandlerAt, Receives, Opening, Untouched
  <2> QED
    BY <2>1, DownlinkKept
<1>17. CASE CheckMagic(c)
  <2>1. handler[c] = "magic" /\ down' = down
    BY <1>17 DEF CheckMagic
  <2>2. ~accepted[c].hello
    BY <1>a, <2>1 DEF Acceptance, Early
  <2> QED
    BY <2>1, <2>2, DownlinkKept
<1>18. CASE HandleClientHello(c)
  <2> DEFINE f == Frame("serverHello", HelloOf(c))
  <2>1. up[c] # <<>> /\ Head(up[c]).t = "hello" /\ handler[c] = "first"
    BY <1>18 DEF HandleClientHello, Receives
  <2>2. Head(up[c]).v = NewClientHello(c)
    <3>1. 1 \in 1..Len(up[c]) /\ up[c][1] = Head(up[c])
      BY <1>a, <2>1
    <3> QED
      BY <1>a, <2>1, <3>1 DEF Uplink, Ordered
  <2>3. /\ accepted' = [accepted EXCEPT ![c].hello = TRUE, ![c].codec = HelloOf(c).codec, ![c].crypto = CryptoOf(c)]
        /\ down' = Sent(down, c, <<f>>)
    BY <1>18, <2>2 DEF HandleClientHello, Write, HelloOf, CryptoOf
  <2>4. accepted'[c].hello
    BY <1>a, <2>3 DEF Acceptances
  <2>5. f \in DownFrames /\ f.t = "serverHello" /\ f.v = HelloOf(c)
    BY HelloType DEF Frame, DownFrames
  <2> HIDE DEF f
  <2> QED
    BY <2>1, <2>3, <2>4, <2>5, DownlinkSent
<1>19. CASE RefuseClientHello(c)
  <2> DEFINE f == Frame("serverHello", DefaultServerHello)
  <2>1. down' = Sent(down, c, <<f>>) /\ accepted' = accepted /\ handler[c] \notin {"control", "ended"}
    BY <1>19 DEF RefuseClientHello, Write
  <2>2. f \in DownFrames /\ (f.t \notin {"serverHello", "LoginResp"} \/ f.v.error)
    BY <1>19 DEF Frame, DownFrames, DefaultServerHello, ServerHellos, RunIDs, Codecs
  <2> HIDE DEF f
  <2> QED
    BY <2>1, <2>2, DownlinkSent
<1>20. CASE ReadFirst(c)
  <2>1. handler[c] \in {"first", "message"} /\ down' = down /\ accepted' = [accepted EXCEPT ![c].first = Head(up[c])]
    BY <1>20 DEF ReadFirst
  <2>2. accepted'[c].hello = accepted[c].hello
    BY <1>a, <2>1 DEF Acceptances
  <2> QED
    BY <2>1, <2>2, DownlinkKept
<1>21. CASE RegisterControl(c)
  <2> DEFINE m == accepted[c].first.v
             f == Frame("LoginResp", [error |-> FALSE, run |-> RunOf(c), xtcp |-> m.xtcp])
  <2>1. handler[c] = "handle" /\ (control # Nil => handler[control.conn] = "control") /\ m \in Logins
    BY <1>a, <1>21 DEF RegisterControl, Inv, Controlled, Acceptance
  <2>2. handler'[c] = "control" /\ accepted' = accepted
    BY <1>21, <2>1 DEF RegisterControl, Pool
  <2>3. down' = Sent(down, c, <<f>>)
    BY <1>21 DEF RegisterControl, Write, RunOf
  <2>4. RunOf(c) \in RunIDs /\ m.xtcp \in BOOLEAN /\ RunOf(c)' = RunOf(c)
    BY <2>1, <2>2 DEF RunOf, Logins, RunIDs
  <2>5. f \in DownFrames /\ f.t = "LoginResp" /\ f.v.run = RunOf(c)
    BY <2>4 DEF Frame, DownFrames
  <2> HIDE DEF f
  <2> QED
    BY <2>1, <2>2, <2>3, <2>4, <2>5, DownlinkSent
<1>22. CASE RefuseLogin(c)
  <2> DEFINE f == Frame("LoginResp", [error |-> TRUE, run |-> Nil, xtcp |-> FALSE])
  <2>1. down' = Sent(down, c, <<f>>) /\ accepted' = accepted /\ handler[c] \notin {"control", "ended"}
    BY <1>22 DEF RefuseLogin, Write
  <2>2. f \in DownFrames /\ (f.t \notin {"serverHello", "LoginResp"} \/ f.v.error)
    BY <1>22 DEF Frame, DownFrames, RunIDs
  <2> HIDE DEF f
  <2> QED
    BY <2>1, <2>2, DownlinkSent
<1>23. CASE RegisterWorkConn(c)
  <2>1. /\ down'[c] = down[c] \/ (down[c] # <<>> /\ down'[c] = Tail(down[c])) \/ down'[c] = <<>>
        /\ accepted'[c] = accepted[c]
        /\ handler[c] \in {"control", "ended"} => handler'[c] \in {"control", "ended"}
    BY <1>a, <1>23 DEF RegisterWorkConn, HandlerAt, CurrentRun, Opening, Untouched
  <2> QED
    BY <2>1, DownlinkKept
<1>24. CASE RegisterVisitorConn(c)
  <2> DEFINE f == Frame("NewVisitorConnResp", [error |-> FALSE])
  <2>1. down' = Sent(down, c, <<f>>) /\ accepted' = accepted /\ handler[c] \notin {"control", "ended"}
    BY <1>24 DEF RegisterVisitorConn, Write
  <2>2. f \in DownFrames /\ (f.t \notin {"serverHello", "LoginResp"} \/ f.v.error)
    BY <1>24 DEF Frame, DownFrames, RunIDs
  <2> HIDE DEF f
  <2> QED
    BY <2>1, <2>2, DownlinkSent
<1>25. CASE RefuseConn(c)
  <2> DEFINE f == Frame(IF accepted[c].first.t = "NewWorkConn" THEN "StartWorkConn" ELSE "NewVisitorConnResp", [error |-> TRUE])
  <2>1. down' = Sent(down, c, <<f>>) /\ accepted' = accepted /\ handler[c] \notin {"control", "ended"}
    BY <1>25 DEF RefuseConn, Write
  <2>2. f \in DownFrames /\ (f.t \notin {"serverHello", "LoginResp"} \/ f.v.error)
    BY <1>25 DEF Frame, DownFrames, RunIDs
  <2> HIDE DEF f
  <2> QED
    BY <2>1, <2>2, DownlinkSent
<1>26. CASE AcceptFails(c)
  <2>1. /\ down'[c] = down[c] \/ (down[c] # <<>> /\ down'[c] = Tail(down[c])) \/ down'[c] = <<>>
        /\ accepted'[c] = accepted[c]
        /\ handler[c] \in {"control", "ended"} => handler'[c] \in {"control", "ended"}
    BY <1>a, <1>26 DEF AcceptFails, HangUp, HandlerAt, Opening, Untouched
  <2> QED
    BY <2>1, DownlinkKept
<1>27. CASE ControlEnds(c)
  <2>1. /\ down'[c] = down[c] \/ (down[c] # <<>> /\ down'[c] = Tail(down[c])) \/ down'[c] = <<>>
        /\ accepted'[c] = accepted[c]
        /\ handler[c] \in {"control", "ended"} => handler'[c] \in {"control", "ended"}
    BY <1>a, <1>27 DEF ControlEnds, EndsWith, Opening, Untouched
  <2> QED
    BY <2>1, DownlinkKept
<1>28. CASE StartWork(c)
  <2> DEFINE f == Frame("StartWorkConn", [error |-> FALSE])
  <2>1. down' = Sent(down, c, <<f>>) /\ accepted' = accepted /\ handler[c] \notin {"control", "ended"}
    BY <1>28 DEF StartWork, Write
  <2>2. f \in DownFrames /\ (f.t \notin {"serverHello", "LoginResp"} \/ f.v.error)
    BY <1>28 DEF Frame, DownFrames, RunIDs
  <2> HIDE DEF f
  <2> QED
    BY <2>1, <2>2, DownlinkSent
<1>29. CASE SessionEnds(c)
  <2>1. /\ down'[c] = down[c] \/ (down[c] # <<>> /\ down'[c] = Tail(down[c])) \/ down'[c] = <<>>
        /\ accepted'[c] = accepted[c]
        /\ handler[c] \in {"control", "ended"} => handler'[c] \in {"control", "ended"}
    BY <1>a, <1>29 DEF SessionEnds, Goes, ClosedConnector, Opening, Untouched
  <2> QED
    BY <2>1, DownlinkKept
<1>30. CASE Cut(c)
  <2>1. /\ down'[c] = down[c] \/ (down[c] # <<>> /\ down'[c] = Tail(down[c])) \/ down'[c] = <<>>
        /\ accepted'[c] = accepted[c]
        /\ handler[c] \in {"control", "ended"} => handler'[c] \in {"control", "ended"}
    BY <1>a, <1>30 DEF Cut, Opening, Untouched
  <2> QED
    BY <2>1, DownlinkKept
<1>31. CASE ConnectMore(c, "work") \/ ConnectMore(c, "visitor")
  <2>1. /\ down'[c] = down[c] \/ (down[c] # <<>> /\ down'[c] = Tail(down[c])) \/ down'[c] = <<>>
        /\ accepted'[c] = accepted[c]
        /\ handler[c] \in {"control", "ended"} => handler'[c] \in {"control", "ended"}
    BY <1>a, <1>31 DEF ConnectMore, Connect, Goes, Opening, Untouched
  <2> QED
    BY <2>1, DownlinkKept
<1> QED
  BY <1>1, <1>2, <1>3, <1>4, <1>5, <1>6, <1>7, <1>8, <1>9, <1>10, <1>11, <1>12, <1>13, <1>14, <1>15, <1>16, <1>17, <1>18, <1>19, <1>20, <1>21, <1>22, <1>23, <1>24, <1>25, <1>26, <1>27, <1>28, <1>29, <1>30, <1>31 DEF Step, ClientStep, ServerStep

\* Client: one Dial at a time, and what it has settled.
LEMMA ClientPart ==
    ASSUME Inv, NEW c \in Conns, Step(c), NEW d \in Conns
    PROVE  Client(d)'
<1> TypeOK
  BY DEF Inv
<1>a. Client(c) /\ Client(d) /\ \A e \in Conns : at[e] \in Dialing => session = Nil /\ \A g \in Conns : at[g] \in Dialing => g = e
  BY DEF Inv, Client
<1>b. HelloOf(d)' = HelloOf(d) /\ CryptoOf(d)' = CryptoOf(d) /\ MayLogin' = MayLogin /\ client' = client
  BY SetupStable, SetupKept
<1>c. client.wire \in {"v1", "v2"}
  BY SetupType
<1> USE Functions DEF setupVars, clientVars, serverVars
<1>1. CASE Dial(c)
  <2>1. \A e \in Conns : at[e] \notin Dialing
    BY <1>1 DEF Dial, NoDial, Dialing
  <2>2. session = Nil /\ session' = session /\ exchange' = exchange /\ connector' = "none" /\ at' = [at EXCEPT ![c] = "dial"]
    BY <1>1 DEF Dial, Goes
  <2> QED
    BY <1>a, <1>b, <2>1, <2>2 DEF Client, Dialing
<1>2. CASE Open(c)
  BY <1>a, <1>b, <1>2 DEF Open, Goes, Client, Dialing
<1>3. CASE OpenFails(c)
  BY <1>a, <1>b, <1>3 DEF OpenFails, Goes, Client, Dialing
<1>4. CASE DialConnect(c)
  BY <1>a, <1>b, <1>4 DEF DialConnect, Connect, Goes, Client, Dialing
<1>5. CASE SendHello(c)
  BY <1>a, <1>b, <1>5 DEF SendHello, Goes, Client, Dialing
<1>6. CASE SendLogin(c)
  <2>1. at[c] = "greeted" /\ at' = [at EXCEPT ![c] = IF client.wire = "v1" THEN "resp" ELSE "hello"]
    BY <1>6 DEF SendLogin, Goes
  <2>2. session' = session /\ exchange' = exchange /\ connector' = connector
    BY <1>6 DEF SendLogin
  <2> QED
    BY <1>a, <1>b, <1>c, <2>1, <2>2 DEF Client, Dialing
<1>7. CASE ReadServerHello(c)
  <2>1. down[c] # <<>> /\ Head(down[c]).t = "serverHello" /\ ~Head(down[c]).v.error /\ at[c] = "hello"
    BY <1>7 DEF ReadServerHello, AcceptsHello, Arrived
  <2>2. Head(down[c]).v = HelloOf(c)
    <3>1. down[c] \in Seq(DownFrames) /\ Downlink(c)
      BY DEF Inv
    <3>2. 1 \in 1..Len(down[c]) /\ down[c][1] = Head(down[c])
      BY <2>1, <3>1
    <3> QED
      BY <2>1, <3>1, <3>2 DEF Downlink
  <2>3. exchange' = [crypto |-> CryptoOf(c), codec |-> HelloOf(c).codec]
    BY <1>7, <2>2 DEF ReadServerHello, NewClientCryptoContext, CryptoOf, NewCryptoContext
  <2>4. at' = [at EXCEPT ![c] = "resp"] /\ session' = session /\ connector' = connector
    BY <1>7 DEF ReadServerHello, Goes
  <2> QED
    BY <1>a, <1>b, <2>1, <2>3, <2>4 DEF Client, Dialing
<1>8. CASE ReadLoginResp(c)
  <2>1. at[c] = "resp" /\ at' = [at EXCEPT ![c] = "session"] /\ session'.conn = c
    BY <1>8 DEF ReadLoginResp, Goes
  <2>2. session' # Nil
    <3>1. session' \in Sessions
      BY <1>8, SessionMade
    <3> QED
      BY <3>1, BootstrapAssumption
  <2> QED
    BY <1>a, <1>b, <2>1, <2>2 DEF Client, Dialing
<1>9. CASE DialFails(c)
  <2>1. at[c] \in Dialing \ {"dial"} /\ at' = [at EXCEPT ![c] = "failed"] /\ session' = session
    BY <1>9 DEF DialFails, MayFail, Goes, Dialing
  <2> QED
    BY <1>a, <1>b, <2>1 DEF Client, Dialing
<1>10. CASE SendNewWorkConn(c)
  BY <1>a, <1>b, <1>10 DEF SendNewWorkConn, WriteFirst, Goes, Client, Dialing
<1>11. CASE SendNewVisitorConn(c)
  BY <1>a, <1>b, <1>11 DEF SendNewVisitorConn, WriteFirst, Goes, Client, Dialing
<1>12. CASE ReadStart(c)
  BY <1>a, <1>b, <1>12 DEF ReadStart, Arrived, Read, Goes, Client, Dialing
<1>13. CASE ReadVisitorResp(c)
  BY <1>a, <1>b, <1>13 DEF ReadVisitorResp, Arrived, Read, Goes, Established, Client, Dialing
<1>14. CASE ConnFails(c)
  BY <1>a, <1>b, <1>14 DEF ConnFails, Close, Goes, Client, Dialing
<1>15. CASE CheckTLS(c)
  <2>1. at' = at /\ session' = session /\ exchange' = exchange /\ connector' = connector
    BY <1>15 DEF CheckTLS, HandlerAt, Receives
  <2> QED
    BY <1>a, <1>b, <2>1 DEF Client, Dialing
<1>16. CASE AcceptStream(c)
  <2>1. at' = at /\ session' = session /\ exchange' = exchange /\ connector' = connector
    BY <1>16 DEF AcceptStream, HandlerAt, Receives
  <2> QED
    BY <1>a, <1>b, <2>1 DEF Client, Dialing
<1>17. CASE CheckMagic(c)
  <2>1. at' = at /\ session' = session /\ exchange' = exchange /\ connector' = connector
    BY <1>17 DEF CheckMagic, HandlerAt, Receives
  <2> QED
    BY <1>a, <1>b, <2>1 DEF Client, Dialing
<1>18. CASE HandleClientHello(c)
  <2>1. at' = at /\ session' = session /\ exchange' = exchange /\ connector' = connector
    BY <1>18 DEF HandleClientHello, HandlerAt, Receives, Take, Write
  <2> QED
    BY <1>a, <1>b, <2>1 DEF Client, Dialing
<1>19. CASE RefuseClientHello(c)
  <2>1. at' = at /\ session' = session /\ exchange' = exchange /\ connector' = connector
    BY <1>19 DEF RefuseClientHello, HandlerAt, Receives, Take, Write, HangUp
  <2> QED
    BY <1>a, <1>b, <2>1 DEF Client, Dialing
<1>20. CASE ReadFirst(c)
  <2>1. at' = at /\ session' = session /\ exchange' = exchange /\ connector' = connector
    BY <1>20 DEF ReadFirst, HandlerAt, Receives, Take
  <2> QED
    BY <1>a, <1>b, <2>1 DEF Client, Dialing
<1>21. CASE RegisterControl(c)
  <2>1. at' = at /\ session' = session /\ exchange' = exchange /\ connector' = connector
    BY <1>21 DEF RegisterControl, Write
  <2> QED
    BY <1>a, <1>b, <2>1 DEF Client, Dialing
<1>22. CASE RefuseLogin(c)
  <2>1. at' = at /\ session' = session /\ exchange' = exchange /\ connector' = connector
    BY <1>22 DEF RefuseLogin, Write, HangUp, HandlerAt
  <2> QED
    BY <1>a, <1>b, <2>1 DEF Client, Dialing
<1>23. CASE RegisterWorkConn(c)
  <2>1. at' = at /\ session' = session /\ exchange' = exchange /\ connector' = connector
    BY <1>23 DEF RegisterWorkConn, HandlerAt, CurrentRun
  <2> QED
    BY <1>a, <1>b, <2>1 DEF Client, Dialing
<1>24. CASE RegisterVisitorConn(c)
  <2>1. at' = at /\ session' = session /\ exchange' = exchange /\ connector' = connector
    BY <1>24 DEF RegisterVisitorConn, Write, HandlerAt
  <2> QED
    BY <1>a, <1>b, <2>1 DEF Client, Dialing
<1>25. CASE RefuseConn(c)
  <2>1. at' = at /\ session' = session /\ exchange' = exchange /\ connector' = connector
    BY <1>25 DEF RefuseConn, Write, HangUp, HandlerAt
  <2> QED
    BY <1>a, <1>b, <2>1 DEF Client, Dialing
<1>26. CASE AcceptFails(c)
  <2>1. at' = at /\ session' = session /\ exchange' = exchange /\ connector' = connector
    BY <1>26 DEF AcceptFails, HangUp, HandlerAt
  <2> QED
    BY <1>a, <1>b, <2>1 DEF Client, Dialing
<1>27. CASE ControlEnds(c)
  <2>1. at' = at /\ session' = session /\ exchange' = exchange /\ connector' = connector
    BY <1>27 DEF ControlEnds, EndsWith
  <2> QED
    BY <1>a, <1>b, <2>1 DEF Client, Dialing
<1>28. CASE StartWork(c)
  <2>1. at' = at /\ session' = session /\ exchange' = exchange /\ connector' = connector
    BY <1>28 DEF StartWork, Write, HandlerAt
  <2> QED
    BY <1>a, <1>b, <2>1 DEF Client, Dialing
<1>29. CASE SessionEnds(c)
  <2>1. at[c] = "session" /\ at' = [at EXCEPT ![c] = "failed"] /\ session' = Nil /\ exchange' = exchange
    BY <1>29 DEF SessionEnds, Goes
  <2>2. \A e \in Conns : at[e] \notin Dialing /\ (at[e] = "session" => e = c)
    BY <1>a, <2>1 DEF Client, Inv
  <2> QED
    BY <1>a, <1>b, <2>1, <2>2 DEF Client, Dialing
<1>30. CASE Cut(c)
  <2>1. at' = at /\ session' = session /\ exchange' = exchange /\ connector' = connector
    BY <1>30 DEF Cut
  <2> QED
    BY <1>a, <1>b, <2>1 DEF Client, Dialing
<1>31. CASE ConnectMore(c, "work") \/ ConnectMore(c, "visitor")
  BY <1>a, <1>b, <1>31 DEF ConnectMore, Connect, Goes, Client, Dialing
<1> QED
  BY <1>1, <1>2, <1>3, <1>4, <1>5, <1>6, <1>7, <1>8, <1>9, <1>10, <1>11, <1>12, <1>13, <1>14, <1>15, <1>16, <1>17, <1>18, <1>19, <1>20, <1>21, <1>22, <1>23, <1>24, <1>25, <1>26, <1>27, <1>28, <1>29, <1>30, <1>31 DEF Step, ClientStep, ServerStep

\* A connection whose login was answered is not read again.
LEMMA AnsweredKept ==
    ASSUME Inv, NEW c \in Conns, Step(c), NEW d \in Conns, handler[d] \in {"control", "ended"}
    PROVE  handler'[d] \in {"control", "ended"} /\ accepted'[d] = accepted[d]
<1> TypeOK
  BY DEF Inv
<1>0. CASE d # c
  BY <1>0, OthersKept
<1> SUFFICES ASSUME d = c PROVE handler'[c] \in {"control", "ended"} /\ accepted'[c] = accepted[c]
  BY <1>0
<1>a. Opening(c)
  BY DEF Inv
<1> USE Functions DEF setupVars, clientVars, serverVars
<1>1. CASE Dial(c)
  BY <1>a, <1>1 DEF Dial, Goes
<1>2. CASE Open(c)
  BY <1>a, <1>2 DEF Open, Goes
<1>3. CASE OpenFails(c)
  BY <1>a, <1>3 DEF OpenFails, Goes
<1>4. CASE DialConnect(c)
  BY <1>a, <1>4 DEF DialConnect, Connect, Goes, Opening, Untouched
<1>5. CASE SendHello(c)
  BY <1>a, <1>5 DEF SendHello, Goes
<1>6. CASE SendLogin(c)
  BY <1>a, <1>6 DEF SendLogin, Goes
<1>7. CASE ReadServerHello(c)
  BY <1>a, <1>7 DEF ReadServerHello, AcceptsHello, Arrived, Read, Goes
<1>8. CASE ReadLoginResp(c)
  BY <1>a, <1>8 DEF ReadLoginResp, AcceptsResp, Arrived, Read, Goes, Established
<1>9. CASE DialFails(c)
  BY <1>a, <1>9 DEF DialFails, Close, Goes, ClosedConnector
<1>10. CASE SendNewWorkConn(c)
  BY <1>a, <1>10 DEF SendNewWorkConn, WriteFirst, Goes
<1>11. CASE SendNewVisitorConn(c)
  BY <1>a, <1>11 DEF SendNewVisitorConn, WriteFirst, Goes
<1>12. CASE ReadStart(c)
  BY <1>a, <1>12 DEF ReadStart, Arrived, Read, Goes
<1>13. CASE ReadVisitorResp(c)
  BY <1>a, <1>13 DEF ReadVisitorResp, Arrived, Read, Goes, Established
<1>14. CASE ConnFails(c)
  BY <1>a, <1>14 DEF ConnFails, Close, Goes
<1>15. CASE CheckTLS(c)
  BY <1>a, <1>15 DEF CheckTLS, HandlerAt, Receives
<1>16. CASE AcceptStream(c)
  BY <1>a, <1>16 DEF AcceptStream, HandlerAt, Receives
<1>17. CASE CheckMagic(c)
  BY <1>a, <1>17 DEF CheckMagic, HandlerAt, Receives
<1>18. CASE HandleClientHello(c)
  BY <1>a, <1>18 DEF HandleClientHello, HandlerAt, Receives, Take, Write
<1>19. CASE RefuseClientHello(c)
  BY <1>a, <1>19 DEF RefuseClientHello, HandlerAt, Receives, Take, Write, HangUp
<1>20. CASE ReadFirst(c)
  BY <1>a, <1>20 DEF ReadFirst, HandlerAt, Receives, Take
<1>21. CASE RegisterControl(c)
  BY <1>a, <1>21 DEF RegisterControl, Write
<1>22. CASE RefuseLogin(c)
  BY <1>a, <1>22 DEF RefuseLogin, Write, HangUp, HandlerAt
<1>23. CASE RegisterWorkConn(c)
  BY <1>a, <1>23 DEF RegisterWorkConn, HandlerAt, CurrentRun
<1>24. CASE RegisterVisitorConn(c)
  BY <1>a, <1>24 DEF RegisterVisitorConn, Write, HandlerAt
<1>25. CASE RefuseConn(c)
  BY <1>a, <1>25 DEF RefuseConn, Write, HangUp, HandlerAt
<1>26. CASE AcceptFails(c)
  BY <1>a, <1>26 DEF AcceptFails, HangUp, HandlerAt
<1>27. CASE ControlEnds(c)
  BY <1>a, <1>27 DEF ControlEnds, EndsWith
<1>28. CASE StartWork(c)
  BY <1>a, <1>28 DEF StartWork, Write, HandlerAt
<1>29. CASE SessionEnds(c)
  BY <1>a, <1>29 DEF SessionEnds, Goes, ClosedConnector
<1>30. CASE Cut(c)
  BY <1>a, <1>30 DEF Cut
<1>31. CASE ConnectMore(c, "work") \/ ConnectMore(c, "visitor")
  BY <1>a, <1>31 DEF ConnectMore, Connect, Goes, Opening, Untouched
<1> QED
  BY <1>1, <1>2, <1>3, <1>4, <1>5, <1>6, <1>7, <1>8, <1>9, <1>10, <1>11, <1>12, <1>13, <1>14, <1>15, <1>16, <1>17, <1>18, <1>19, <1>20, <1>21, <1>22, <1>23, <1>24, <1>25, <1>26, <1>27, <1>28, <1>29, <1>30, <1>31 DEF Step, ClientStep, ServerStep

\* The control keeps its connection until it is replaced or ends.
LEMMA ControlKept ==
    ASSUME Inv, NEW c \in Conns, Step(c), control # Nil, control' = control
    PROVE  \/ RegisterControl(c)
           \/ handler'[control.conn] = "control" /\ accepted'[control.conn] = accepted[control.conn]
<1> TypeOK
  BY DEF Inv
<1>a. control.conn \in Conns /\ handler[control.conn] = "control"
  BY Functions DEF Inv, Controlled, Sessions
<1>b. Opening(c)
  BY DEF Inv
<1> USE Functions DEF setupVars, clientVars, serverVars
<1>1. CASE Dial(c)
  BY <1>a, <1>b, <1>1 DEF Dial, Goes
<1>2. CASE Open(c)
  BY <1>a, <1>b, <1>2 DEF Open, Goes
<1>3. CASE OpenFails(c)
  BY <1>a, <1>b, <1>3 DEF OpenFails, Goes
<1>4. CASE DialConnect(c)
  BY <1>a, <1>b, <1>4 DEF DialConnect, Connect, Goes, Opening, Untouched
<1>5. CASE SendHello(c)
  BY <1>a, <1>b, <1>5 DEF SendHello, Goes
<1>6. CASE SendLogin(c)
  BY <1>a, <1>b, <1>6 DEF SendLogin, Goes
<1>7. CASE ReadServerHello(c)
  BY <1>a, <1>b, <1>7 DEF ReadServerHello, AcceptsHello, Arrived, Read, Goes
<1>8. CASE ReadLoginResp(c)
  BY <1>a, <1>b, <1>8 DEF ReadLoginResp, AcceptsResp, Arrived, Read, Goes, Established
<1>9. CASE DialFails(c)
  BY <1>a, <1>b, <1>9 DEF DialFails, Close, Goes, ClosedConnector
<1>10. CASE SendNewWorkConn(c)
  BY <1>a, <1>b, <1>10 DEF SendNewWorkConn, WriteFirst, Goes
<1>11. CASE SendNewVisitorConn(c)
  BY <1>a, <1>b, <1>11 DEF SendNewVisitorConn, WriteFirst, Goes
<1>12. CASE ReadStart(c)
  BY <1>a, <1>b, <1>12 DEF ReadStart, Arrived, Read, Goes
<1>13. CASE ReadVisitorResp(c)
  BY <1>a, <1>b, <1>13 DEF ReadVisitorResp, Arrived, Read, Goes, Established
<1>14. CASE ConnFails(c)
  BY <1>a, <1>b, <1>14 DEF ConnFails, Close, Goes
<1>15. CASE CheckTLS(c)
  BY <1>a, <1>b, <1>15 DEF CheckTLS, HandlerAt, Receives
<1>16. CASE AcceptStream(c)
  BY <1>a, <1>b, <1>16 DEF AcceptStream, HandlerAt, Receives
<1>17. CASE CheckMagic(c)
  BY <1>a, <1>b, <1>17 DEF CheckMagic, HandlerAt, Receives
<1>18. CASE HandleClientHello(c)
  BY <1>a, <1>b, <1>18 DEF HandleClientHello, HandlerAt, Receives, Take, Write
<1>19. CASE RefuseClientHello(c)
  BY <1>a, <1>b, <1>19 DEF RefuseClientHello, HandlerAt, Receives, Take, Write, HangUp
<1>20. CASE ReadFirst(c)
  BY <1>a, <1>b, <1>20 DEF ReadFirst, HandlerAt, Receives, Take
<1>21. CASE RegisterControl(c)
  BY <1>21
<1>22. CASE RefuseLogin(c)
  BY <1>a, <1>b, <1>22 DEF RefuseLogin, Write, HangUp, HandlerAt
<1>23. CASE RegisterWorkConn(c)
  BY <1>a, <1>b, <1>23 DEF RegisterWorkConn, HandlerAt, CurrentRun
<1>24. CASE RegisterVisitorConn(c)
  BY <1>a, <1>b, <1>24 DEF RegisterVisitorConn, Write, HandlerAt
<1>25. CASE RefuseConn(c)
  BY <1>a, <1>b, <1>25 DEF RefuseConn, Write, HangUp, HandlerAt
<1>26. CASE AcceptFails(c)
  BY <1>a, <1>b, <1>26 DEF AcceptFails, HangUp, HandlerAt
<1>27. CASE ControlEnds(c)
  BY <1>a, <1>b, <1>27 DEF ControlEnds, EndsWith
<1>28. CASE StartWork(c)
  BY <1>a, <1>b, <1>28 DEF StartWork, Write, HandlerAt
<1>29. CASE SessionEnds(c)
  BY <1>a, <1>b, <1>29 DEF SessionEnds, Goes, ClosedConnector
<1>30. CASE Cut(c)
  BY <1>a, <1>b, <1>30 DEF Cut
<1>31. CASE ConnectMore(c, "work") \/ ConnectMore(c, "visitor")
  BY <1>a, <1>b, <1>31 DEF ConnectMore, Connect, Goes, Opening, Untouched
<1> QED
  BY <1>1, <1>2, <1>3, <1>4, <1>5, <1>6, <1>7, <1>8, <1>9, <1>10, <1>11, <1>12, <1>13, <1>14, <1>15, <1>16, <1>17, <1>18, <1>19, <1>20, <1>21, <1>22, <1>23, <1>24, <1>25, <1>26, <1>27, <1>28, <1>29, <1>30, <1>31 DEF Step, ClientStep, ServerStep

\* Who changes the session, and when its connection leaves it.
LEMMA SessionChanges ==
    ASSUME NEW c \in Conns, Step(c)
    PROVE  ReadLoginResp(c) \/ session' = session \/ session' = Nil
<1> USE DEF setupVars, clientVars, serverVars
<1>1. CASE Dial(c)
  BY <1>1 DEF Dial, Goes
<1>2. CASE Open(c)
  BY <1>2 DEF Open, Goes
<1>3. CASE OpenFails(c)
  BY <1>3 DEF OpenFails, Goes
<1>4. CASE DialConnect(c)
  BY <1>4 DEF DialConnect, Connect, Goes
<1>5. CASE SendHello(c)
  BY <1>5 DEF SendHello, Goes
<1>6. CASE SendLogin(c)
  BY <1>6 DEF SendLogin, Goes
<1>7. CASE ReadServerHello(c)
  BY <1>7 DEF ReadServerHello, AcceptsHello, Arrived, Read, Goes
<1>8. CASE ReadLoginResp(c)
  BY <1>8 DEF ReadLoginResp, AcceptsResp, Arrived, Read, Goes, Established
<1>9. CASE DialFails(c)
  BY <1>9 DEF DialFails, Close, Goes, ClosedConnector
<1>10. CASE SendNewWorkConn(c)
  BY <1>10 DEF SendNewWorkConn, WriteFirst, Goes
<1>11. CASE SendNewVisitorConn(c)
  BY <1>11 DEF SendNewVisitorConn, WriteFirst, Goes
<1>12. CASE ReadStart(c)
  BY <1>12 DEF ReadStart, Arrived, Read, Goes
<1>13. CASE ReadVisitorResp(c)
  BY <1>13 DEF ReadVisitorResp, Arrived, Read, Goes, Established
<1>14. CASE ConnFails(c)
  BY <1>14 DEF ConnFails, Close, Goes
<1>15. CASE CheckTLS(c)
  BY <1>15 DEF CheckTLS, HandlerAt, Receives
<1>16. CASE AcceptStream(c)
  BY <1>16 DEF AcceptStream, HandlerAt, Receives
<1>17. CASE CheckMagic(c)
  BY <1>17 DEF CheckMagic, HandlerAt, Receives
<1>18. CASE HandleClientHello(c)
  BY <1>18 DEF HandleClientHello, HandlerAt, Receives, Take, Write
<1>19. CASE RefuseClientHello(c)
  BY <1>19 DEF RefuseClientHello, HandlerAt, Receives, Take, Write, HangUp
<1>20. CASE ReadFirst(c)
  BY <1>20 DEF ReadFirst, HandlerAt, Receives, Take
<1>21. CASE RegisterControl(c)
  BY <1>21 DEF RegisterControl, Write
<1>22. CASE RefuseLogin(c)
  BY <1>22 DEF RefuseLogin, Write, HangUp, HandlerAt
<1>23. CASE RegisterWorkConn(c)
  BY <1>23 DEF RegisterWorkConn, HandlerAt, CurrentRun
<1>24. CASE RegisterVisitorConn(c)
  BY <1>24 DEF RegisterVisitorConn, Write, HandlerAt
<1>25. CASE RefuseConn(c)
  BY <1>25 DEF RefuseConn, Write, HangUp, HandlerAt
<1>26. CASE AcceptFails(c)
  BY <1>26 DEF AcceptFails, HangUp, HandlerAt
<1>27. CASE ControlEnds(c)
  BY <1>27 DEF ControlEnds, EndsWith
<1>28. CASE StartWork(c)
  BY <1>28 DEF StartWork, Write, HandlerAt
<1>29. CASE SessionEnds(c)
  BY <1>29 DEF SessionEnds, Goes, ClosedConnector
<1>30. CASE Cut(c)
  BY <1>30 DEF Cut
<1>31. CASE ConnectMore(c, "work") \/ ConnectMore(c, "visitor")
  BY <1>31 DEF ConnectMore, Connect, Goes
<1> QED
  BY <1>1, <1>2, <1>3, <1>4, <1>5, <1>6, <1>7, <1>8, <1>9, <1>10, <1>11, <1>12, <1>13, <1>14, <1>15, <1>16, <1>17, <1>18, <1>19, <1>20, <1>21, <1>22, <1>23, <1>24, <1>25, <1>26, <1>27, <1>28, <1>29, <1>30, <1>31 DEF Step, ClientStep, ServerStep

\* The connection of the session stays in it while the session is the same.
LEMMA SessionStays ==
    ASSUME TypeOK, NEW c \in Conns, Step(c), session # Nil, session' = session, at[c] = "session"
    PROVE  at'[c] = "session"
<1> USE Functions DEF setupVars, clientVars, serverVars
<1>1. CASE Dial(c)
  BY <1>1 DEF Dial, Goes
<1>2. CASE Open(c)
  BY <1>2 DEF Open, Goes
<1>3. CASE OpenFails(c)
  BY <1>3 DEF OpenFails, Goes
<1>4. CASE DialConnect(c)
  BY <1>4 DEF DialConnect, Connect, Goes
<1>5. CASE SendHello(c)
  BY <1>5 DEF SendHello, Goes
<1>6. CASE SendLogin(c)
  BY <1>6 DEF SendLogin, Goes
<1>7. CASE ReadServerHello(c)
  BY <1>7 DEF ReadServerHello, AcceptsHello, Arrived, Read, Goes
<1>8. CASE ReadLoginResp(c)
  BY <1>8 DEF ReadLoginResp, AcceptsResp, Arrived, Read, Goes, Established
<1>9. CASE DialFails(c)
  BY <1>9 DEF DialFails, Close, Goes, ClosedConnector, MayFail
<1>10. CASE SendNewWorkConn(c)
  BY <1>10 DEF SendNewWorkConn, WriteFirst, Goes
<1>11. CASE SendNewVisitorConn(c)
  BY <1>11 DEF SendNewVisitorConn, WriteFirst, Goes
<1>12. CASE ReadStart(c)
  BY <1>12 DEF ReadStart, Arrived, Read, Goes
<1>13. CASE ReadVisitorResp(c)
  BY <1>13 DEF ReadVisitorResp, Arrived, Read, Goes, Established
<1>14. CASE ConnFails(c)
  BY <1>14 DEF ConnFails, Close, Goes
<1>15. CASE CheckTLS(c)
  BY <1>15 DEF CheckTLS, HandlerAt, Receives
<1>16. CASE AcceptStream(c)
  BY <1>16 DEF AcceptStream, HandlerAt, Receives
<1>17. CASE CheckMagic(c)
  BY <1>17 DEF CheckMagic, HandlerAt, Receives
<1>18. CASE HandleClientHello(c)
  BY <1>18 DEF HandleClientHello, HandlerAt, Receives, Take, Write
<1>19. CASE RefuseClientHello(c)
  BY <1>19 DEF RefuseClientHello, HandlerAt, Receives, Take, Write, HangUp
<1>20. CASE ReadFirst(c)
  BY <1>20 DEF ReadFirst, HandlerAt, Receives, Take
<1>21. CASE RegisterControl(c)
  BY <1>21 DEF RegisterControl, Write
<1>22. CASE RefuseLogin(c)
  BY <1>22 DEF RefuseLogin, Write, HangUp, HandlerAt
<1>23. CASE RegisterWorkConn(c)
  BY <1>23 DEF RegisterWorkConn, HandlerAt, CurrentRun
<1>24. CASE RegisterVisitorConn(c)
  BY <1>24 DEF RegisterVisitorConn, Write, HandlerAt
<1>25. CASE RefuseConn(c)
  BY <1>25 DEF RefuseConn, Write, HangUp, HandlerAt
<1>26. CASE AcceptFails(c)
  BY <1>26 DEF AcceptFails, HangUp, HandlerAt
<1>27. CASE ControlEnds(c)
  BY <1>27 DEF ControlEnds, EndsWith
<1>28. CASE StartWork(c)
  BY <1>28 DEF StartWork, Write, HandlerAt
<1>29. CASE SessionEnds(c)
  BY <1>29 DEF SessionEnds, Goes, ClosedConnector
<1>30. CASE Cut(c)
  BY <1>30 DEF Cut
<1>31. CASE ConnectMore(c, "work") \/ ConnectMore(c, "visitor")
  BY <1>31 DEF ConnectMore, Connect, Goes
<1> QED
  BY <1>1, <1>2, <1>3, <1>4, <1>5, <1>6, <1>7, <1>8, <1>9, <1>10, <1>11, <1>12, <1>13, <1>14, <1>15, <1>16, <1>17, <1>18, <1>19, <1>20, <1>21, <1>22, <1>23, <1>24, <1>25, <1>26, <1>27, <1>28, <1>29, <1>30, <1>31 DEF Step, ClientStep, ServerStep

\* A session and the run it was given.
LEMMA SessionedStep ==
    ASSUME Inv, NEW c \in Conns, Step(c)
    PROVE  Sessioned'
<1> TypeOK
  BY DEF Inv
<1>1. CASE ReadLoginResp(c)
  <2>1. handler[c] \in {"control", "ended"} /\ session'.conn = c
    BY <1>1, SessionMade
  <2>2. handler'[c] \in {"control", "ended"} /\ accepted'[c] = accepted[c]
    BY <2>1, AnsweredKept
  <2>3. at'[c] = "session"
    BY <1>1, Functions DEF ReadLoginResp, Goes
  <2>4. client' = client /\ KeysOf(c)' = KeysOf(c) /\ HelloOf(c)' = HelloOf(c) /\ RunOf(c)' = RunOf(c)
    BY <2>2, SetupStable, SetupKept DEF RunOf
  <2> QED
    BY <1>1, <2>1, <2>2, <2>3, <2>4, SessionMade DEF Sessioned
<1>2. CASE session' = session
  <2> SUFFICES ASSUME session # Nil PROVE Sessioned'
    BY <1>2 DEF Sessioned
  <2>1. PICK k \in Conns : k = session.conn
    BY Functions DEF Sessions
  <2>2. /\ at[k] = "session" /\ handler[k] \in {"control", "ended"}
        /\ session.run = RunOf(k) /\ session.wire = client.wire /\ session.xtcp = client.xtcp
        /\ session.keys = KeysOf(k)
        /\ session.codec = (IF client.wire = "v2" THEN HelloOf(k).codec ELSE "")
    BY <2>1 DEF Inv, Sessioned
  <2>3. handler'[k] \in {"control", "ended"} /\ accepted'[k] = accepted[k]
    BY <2>2, AnsweredKept
  <2>4. at'[k] = "session"
    <3>1. CASE k # c
      BY <2>2, <3>1, OthersKept
    <3>2. CASE k = c
      BY <1>2, <2>2, <3>2, SessionStays
    <3> QED
      BY <3>1, <3>2
  <2>5. client' = client /\ KeysOf(k)' = KeysOf(k) /\ HelloOf(k)' = HelloOf(k) /\ RunOf(k)' = RunOf(k)
    BY <2>3, SetupStable, SetupKept DEF RunOf
  <2> QED
    BY <1>2, <2>1, <2>2, <2>3, <2>4, <2>5 DEF Sessioned
<1>3. CASE session' = Nil
  BY <1>3 DEF Sessioned
<1>4. ReadLoginResp(c) \/ session' = session \/ session' = Nil
  BY SessionChanges
<1> QED
  BY <1>1, <1>2, <1>3, <1>4

\* A login that the server has verified was made with the server's own secret.
LEMMA VerifiedSecret ==
    ASSUME TypeOK, NEW m, m.cred = NewAuthSetter, m.ssh = client.ssh, VerifyLogin(m),
           ~client.ssh, server.method = "token"
    PROVE  client.secret = server.secret
<1>1. NewAuthSetter = [method |-> "token", secret |-> server.secret]
  BY SetupType DEF VerifyLogin, TokenVerifies, GetAuthKey
<1>2. NewAuthSetter.method = "token" /\ NewAuthSetter.secret = server.secret
  BY <1>1
<1>3. client.method = "token"
  BY <1>2, SetupType DEF NewAuthSetter, generateAccessToken
<1> QED
  BY <1>2, <1>3 DEF NewAuthSetter, GetAuthKey

\* Who changes the control.
LEMMA ControlChanges ==
    ASSUME NEW c \in Conns, Step(c)
    PROVE  RegisterControl(c) \/ control' = control \/ control' = Nil
<1> USE DEF setupVars, clientVars, serverVars
<1>1. CASE Dial(c)
  BY <1>1 DEF Dial, Goes
<1>2. CASE Open(c)
  BY <1>2 DEF Open, Goes
<1>3. CASE OpenFails(c)
  BY <1>3 DEF OpenFails, Goes
<1>4. CASE DialConnect(c)
  BY <1>4 DEF DialConnect, Connect, Goes
<1>5. CASE SendHello(c)
  BY <1>5 DEF SendHello, Goes
<1>6. CASE SendLogin(c)
  BY <1>6 DEF SendLogin, Goes
<1>7. CASE ReadServerHello(c)
  BY <1>7 DEF ReadServerHello, AcceptsHello, Arrived, Read, Goes
<1>8. CASE ReadLoginResp(c)
  BY <1>8 DEF ReadLoginResp, AcceptsResp, Arrived, Read, Goes, Established
<1>9. CASE DialFails(c)
  BY <1>9 DEF DialFails, Close, Goes, ClosedConnector
<1>10. CASE SendNewWorkConn(c)
  BY <1>10 DEF SendNewWorkConn, WriteFirst, Goes
<1>11. CASE SendNewVisitorConn(c)
  BY <1>11 DEF SendNewVisitorConn, WriteFirst, Goes
<1>12. CASE ReadStart(c)
  BY <1>12 DEF ReadStart, Arrived, Read, Goes
<1>13. CASE ReadVisitorResp(c)
  BY <1>13 DEF ReadVisitorResp, Arrived, Read, Goes, Established
<1>14. CASE ConnFails(c)
  BY <1>14 DEF ConnFails, Close, Goes
<1>15. CASE CheckTLS(c)
  BY <1>15 DEF CheckTLS, HandlerAt, Receives
<1>16. CASE AcceptStream(c)
  BY <1>16 DEF AcceptStream, HandlerAt, Receives
<1>17. CASE CheckMagic(c)
  BY <1>17 DEF CheckMagic, HandlerAt, Receives
<1>18. CASE HandleClientHello(c)
  BY <1>18 DEF HandleClientHello, HandlerAt, Receives, Take, Write
<1>19. CASE RefuseClientHello(c)
  BY <1>19 DEF RefuseClientHello, HandlerAt, Receives, Take, Write, HangUp
<1>20. CASE ReadFirst(c)
  BY <1>20 DEF ReadFirst, HandlerAt, Receives, Take
<1>21. CASE RegisterControl(c)
  BY <1>21 DEF RegisterControl, Write
<1>22. CASE RefuseLogin(c)
  BY <1>22 DEF RefuseLogin, Write, HangUp, HandlerAt
<1>23. CASE RegisterWorkConn(c)
  BY <1>23 DEF RegisterWorkConn, HandlerAt, CurrentRun
<1>24. CASE RegisterVisitorConn(c)
  BY <1>24 DEF RegisterVisitorConn, Write, HandlerAt
<1>25. CASE RefuseConn(c)
  BY <1>25 DEF RefuseConn, Write, HangUp, HandlerAt
<1>26. CASE AcceptFails(c)
  BY <1>26 DEF AcceptFails, HangUp, HandlerAt
<1>27. CASE ControlEnds(c)
  BY <1>27 DEF ControlEnds, EndsWith
<1>28. CASE StartWork(c)
  BY <1>28 DEF StartWork, Write, HandlerAt
<1>29. CASE SessionEnds(c)
  BY <1>29 DEF SessionEnds, Goes, ClosedConnector
<1>30. CASE Cut(c)
  BY <1>30 DEF Cut
<1>31. CASE ConnectMore(c, "work") \/ ConnectMore(c, "visitor")
  BY <1>31 DEF ConnectMore, Connect, Goes
<1> QED
  BY <1>1, <1>2, <1>3, <1>4, <1>5, <1>6, <1>7, <1>8, <1>9, <1>10, <1>11, <1>12, <1>13, <1>14, <1>15, <1>16, <1>17, <1>18, <1>19, <1>20, <1>21, <1>22, <1>23, <1>24, <1>25, <1>26, <1>27, <1>28, <1>29, <1>30, <1>31 DEF Step, ClientStep, ServerStep

\* The control and the login it was registered for.
LEMMA ControlledStep ==
    ASSUME Inv, NEW c \in Conns, Step(c)
    PROVE  Controlled'
<1> TypeOK
  BY DEF Inv
<1>1. client' = client /\ server' = server
  BY SetupKept
<1>2. CASE RegisterControl(c)
  <2> DEFINE m == accepted[c].first.v
  <2>1. /\ handler[c] = "handle" /\ accepted[c].first.t = "Login" /\ MayRegister(c, m)
        /\ (control # Nil => handler[control.conn] = "control")
    BY <1>2 DEF RegisterControl, Inv, Controlled
  <2>2. handler'[c] = "control" /\ accepted' = accepted
    BY <1>2, <2>1 DEF RegisterControl, Pool
  <2>3. m.cred = NewAuthSetter /\ m.xtcp = client.xtcp /\ m.ssh = client.ssh
    BY <2>1 DEF Inv, Acceptance
  <2>4. control' = [conn |-> c, run |-> RunOf(c), wire |-> accepted[c].wire, codec |-> accepted[c].codec,
                    keys |-> NewControlReadWriter(c), xtcp |-> m.xtcp]
    BY <1>2 DEF RegisterControl, RunOf
  <2>5. /\ control'.conn = c /\ control'.run = RunOf(c) /\ control'.wire = accepted[c].wire /\ control'.codec = accepted[c].codec
        /\ control'.keys = NewControlReadWriter(c) /\ control'.xtcp = m.xtcp
    BY <2>4
  <2>6. m.xtcp => accepted[c].tls
    BY <2>1 DEF MayRegister, BindingAllowed
  <2>7. ~client.ssh /\ server.method = "token" => client.secret = server.secret
    BY <2>1, <2>3, VerifiedSecret DEF MayRegister
  <2>8. RunOf(c)' = RunOf(c) /\ NewControlReadWriter(c)' = NewControlReadWriter(c)
    BY <1>1, <2>2 DEF RunOf, NewControlReadWriter, Plain, ServerKeys, V1Keys, Key
  <2> HIDE DEF m
  <2> QED
    BY <1>1, <2>2, <2>3, <2>5, <2>6, <2>7, <2>8 DEF Controlled
<1>3. CASE control' = control /\ ~RegisterControl(c)
  <2> SUFFICES ASSUME control # Nil PROVE Controlled'
    BY <1>3 DEF Controlled
  <2>1. PICK k \in Conns : k = control.conn
    BY Functions DEF Sessions
  <2>2. /\ control.run = RunOf(k) /\ control.wire = accepted[k].wire /\ control.codec = accepted[k].codec
        /\ control.keys = NewControlReadWriter(k) /\ control.xtcp = client.xtcp
        /\ control.xtcp => accepted[k].tls
        /\ ~client.ssh /\ server.method = "token" => client.secret = server.secret
    BY <2>1 DEF Inv, Controlled
  <2>3. handler'[k] = "control" /\ accepted'[k] = accepted[k]
    BY <1>3, <2>1, ControlKept
  <2>4. RunOf(k)' = RunOf(k) /\ NewControlReadWriter(k)' = NewControlReadWriter(k)
    BY <1>1, <2>3 DEF RunOf, NewControlReadWriter, Plain, ServerKeys, V1Keys, Key
  <2> QED
    BY <1>1, <1>3, <2>1, <2>2, <2>3, <2>4 DEF Controlled
<1>4. CASE control' = Nil
  BY <1>4 DEF Controlled
<1> QED
  BY <1>2, <1>3, <1>4, ControlChanges

\* An open connector has a user.
LEMMA ConnectorStep ==
    ASSUME Inv, NEW c \in Conns, Step(c)
    PROVE  Connector'
<1> TypeOK
  BY DEF Inv
<1>a. Connector /\ Client(c) /\ \A e \in Conns : at[e] \in Dialing => \A g \in Conns : at[g] \in Dialing => g = e
  BY DEF Inv, Client
<1>b. client.wire \in {"v1", "v2"}
  BY SetupType
<1> USE Functions DEF setupVars, clientVars, serverVars
<1>1. CASE Dial(c)
  BY <1>a, <1>b, <1>1 DEF Dial, Goes, Connector, Client, NoDial, Dialing
<1>2. CASE Open(c)
  BY <1>a, <1>b, <1>2 DEF Open, Goes, Connector, Client, NoDial, Dialing
<1>3. CASE OpenFails(c)
  BY <1>a, <1>b, <1>3 DEF OpenFails, Goes, Connector, Client, NoDial, Dialing
<1>4. CASE DialConnect(c)
  BY <1>a, <1>b, <1>4 DEF DialConnect, Connect, Goes, Connector, Client, NoDial, Dialing
<1>5. CASE SendHello(c)
  BY <1>a, <1>b, <1>5 DEF SendHello, Goes, Connector, Client, NoDial, Dialing
<1>6. CASE SendLogin(c)
  BY <1>a, <1>b, <1>6 DEF SendLogin, Goes, Connector, Client, NoDial, Dialing
<1>7. CASE ReadServerHello(c)
  BY <1>a, <1>b, <1>7 DEF ReadServerHello, AcceptsHello, Arrived, Read, Goes, Connector, Client, NoDial, Dialing
<1>8. CASE ReadLoginResp(c)
  <2>1. session' # Nil
    BY <1>8, SessionMade, BootstrapAssumption
  <2> QED
    BY <2>1 DEF Connector
<1>9. CASE DialFails(c)
  BY <1>a, <1>b, <1>9 DEF DialFails, Close, Goes, ClosedConnector, Connector, Client, NoDial, Dialing
<1>10. CASE SendNewWorkConn(c)
  BY <1>a, <1>b, <1>10 DEF SendNewWorkConn, WriteFirst, Goes, Connector, Client, NoDial, Dialing
<1>11. CASE SendNewVisitorConn(c)
  BY <1>a, <1>b, <1>11 DEF SendNewVisitorConn, WriteFirst, Goes, Connector, Client, NoDial, Dialing
<1>12. CASE ReadStart(c)
  BY <1>a, <1>b, <1>12 DEF ReadStart, Arrived, Read, Goes, Connector, Client, NoDial, Dialing
<1>13. CASE ReadVisitorResp(c)
  BY <1>a, <1>b, <1>13 DEF ReadVisitorResp, Arrived, Read, Goes, Established, Connector, Client, NoDial, Dialing
<1>14. CASE ConnFails(c)
  BY <1>a, <1>b, <1>14 DEF ConnFails, Close, Goes, Connector, Client, NoDial, Dialing
<1>15. CASE CheckTLS(c)
  <2>1. at' = at /\ session' = session /\ connector' = connector
    BY <1>15 DEF CheckTLS, HandlerAt, Receives
  <2> QED
    BY <1>a, <2>1 DEF Connector, NoDial
<1>16. CASE AcceptStream(c)
  <2>1. at' = at /\ session' = session /\ connector' = connector
    BY <1>16 DEF AcceptStream, HandlerAt, Receives
  <2> QED
    BY <1>a, <2>1 DEF Connector, NoDial
<1>17. CASE CheckMagic(c)
  <2>1. at' = at /\ session' = session /\ connector' = connector
    BY <1>17 DEF CheckMagic, HandlerAt, Receives
  <2> QED
    BY <1>a, <2>1 DEF Connector, NoDial
<1>18. CASE HandleClientHello(c)
  <2>1. at' = at /\ session' = session /\ connector' = connector
    BY <1>18 DEF HandleClientHello, HandlerAt, Receives, Take, Write
  <2> QED
    BY <1>a, <2>1 DEF Connector, NoDial
<1>19. CASE RefuseClientHello(c)
  <2>1. at' = at /\ session' = session /\ connector' = connector
    BY <1>19 DEF RefuseClientHello, HandlerAt, Receives, Take, Write, HangUp
  <2> QED
    BY <1>a, <2>1 DEF Connector, NoDial
<1>20. CASE ReadFirst(c)
  <2>1. at' = at /\ session' = session /\ connector' = connector
    BY <1>20 DEF ReadFirst, HandlerAt, Receives, Take
  <2> QED
    BY <1>a, <2>1 DEF Connector, NoDial
<1>21. CASE RegisterControl(c)
  <2>1. at' = at /\ session' = session /\ connector' = connector
    BY <1>21 DEF RegisterControl, Write
  <2> QED
    BY <1>a, <2>1 DEF Connector, NoDial
<1>22. CASE RefuseLogin(c)
  <2>1. at' = at /\ session' = session /\ connector' = connector
    BY <1>22 DEF RefuseLogin, Write, HangUp, HandlerAt
  <2> QED
    BY <1>a, <2>1 DEF Connector, NoDial
<1>23. CASE RegisterWorkConn(c)
  <2>1. at' = at /\ session' = session /\ connector' = connector
    BY <1>23 DEF RegisterWorkConn, HandlerAt, CurrentRun
  <2> QED
    BY <1>a, <2>1 DEF Connector, NoDial
<1>24. CASE RegisterVisitorConn(c)
  <2>1. at' = at /\ session' = session /\ connector' = connector
    BY <1>24 DEF RegisterVisitorConn, Write, HandlerAt
  <2> QED
    BY <1>a, <2>1 DEF Connector, NoDial
<1>25. CASE RefuseConn(c)
  <2>1. at' = at /\ session' = session /\ connector' = connector
    BY <1>25 DEF RefuseConn, Write, HangUp, HandlerAt
  <2> QED
    BY <1>a, <2>1 DEF Connector, NoDial
<1>26. CASE AcceptFails(c)
  <2>1. at' = at /\ session' = session /\ connector' = connector
    BY <1>26 DEF AcceptFails, HangUp, HandlerAt
  <2> QED
    BY <1>a, <2>1 DEF Connector, NoDial
<1>27. CASE ControlEnds(c)
  <2>1. at' = at /\ session' = session /\ connector' = connector
    BY <1>27 DEF ControlEnds, EndsWith
  <2> QED
    BY <1>a, <2>1 DEF Connector, NoDial
<1>28. CASE StartWork(c)
  <2>1. at' = at /\ session' = session /\ connector' = connector
    BY <1>28 DEF StartWork, Write, HandlerAt
  <2> QED
    BY <1>a, <2>1 DEF Connector, NoDial
<1>29. CASE SessionEnds(c)
  BY <1>a, <1>b, <1>29 DEF SessionEnds, Goes, ClosedConnector, Connector, Client, NoDial, Dialing
<1>30. CASE Cut(c)
  <2>1. at' = at /\ session' = session /\ connector' = connector
    BY <1>30 DEF Cut
  <2> QED
    BY <1>a, <2>1 DEF Connector, NoDial
<1>31. CASE ConnectMore(c, "work") \/ ConnectMore(c, "visitor")
  BY <1>a, <1>b, <1>31 DEF ConnectMore, Connect, Goes, Connector, Client, NoDial, Dialing
<1> QED
  BY <1>1, <1>2, <1>3, <1>4, <1>5, <1>6, <1>7, <1>8, <1>9, <1>10, <1>11, <1>12, <1>13, <1>14, <1>15, <1>16, <1>17, <1>18, <1>19, <1>20, <1>21, <1>22, <1>23, <1>24, <1>25, <1>26, <1>27, <1>28, <1>29, <1>30, <1>31 DEF Step, ClientStep, ServerStep

-----------------------------------------------------------------------------
(* The theorems. *)

\* Nothing has been opened at the start.
LEMMA InitInv == Init => Inv
<1> SUFFICES ASSUME Init PROVE Inv
  OBVIOUS
<1>1. TypeOK
  <2>1. NoConn \in Acceptances
    BY DEF NoConn, Acceptances, Codecs
  <2> QED
    BY <2>1 DEF Init, TypeOK, RunIDs
<1>2. ASSUME NEW c \in Conns PROVE Opening(c) /\ Uplink(c) /\ Acceptance(c) /\ Downlink(c) /\ Client(c)
  <2>1. accepted[c] = NoConn /\ handler[c] = "none" /\ at[c] = "none" /\ up[c] = <<>> /\ down[c] = <<>>
    BY DEF Init
  <2>2. Opening(c)
    BY DEF Init, Opening, Untouched
  <2>3. Uplink(c) /\ Downlink(c)
    BY <2>1 DEF Uplink, Downlink
  <2>4. Acceptance(c)
    BY <2>1, FreshFacts DEF Acceptance, Early
  <2>5. Client(c)
    BY <2>1 DEF Client, Dialing
  <2> QED
    BY <2>2, <2>3, <2>4, <2>5
<1>3. Sessioned /\ Controlled /\ Connector
  BY DEF Init, Sessioned, Controlled, Connector
<1> QED
  BY <1>1, <1>2, <1>3 DEF Inv

\* A step keeps the invariant.
LEMMA NextInv == Inv /\ [Next]_vars => Inv'
<1> SUFFICES ASSUME Inv, [Next]_vars PROVE Inv'
  OBVIOUS
<1>1. CASE Next
  <2>1. PICK c \in Conns : Step(c)
    BY <1>1 DEF Next, Step
  <2> QED
    BY <2>1, TypeStep, OpeningStep, UplinkStep, AcceptanceStep, DownlinkStep, ClientPart, SessionedStep,
       ControlledStep, ConnectorStep DEF Inv
<1>2. CASE UNCHANGED vars
  <2>1. /\ client' = client /\ server' = server /\ connector' = connector /\ at' = at /\ run' = run /\ exchange' = exchange
        /\ session' = session /\ copen' = copen /\ cwait' = cwait /\ up' = up /\ down' = down /\ cut' = cut /\ sopen' = sopen
        /\ swait' = swait /\ handler' = handler /\ accepted' = accepted /\ control' = control /\ subjects' = subjects
    BY <1>2 DEF vars, setupVars, clientVars, serverVars
  <2>2. TypeOK' /\ Connector' /\ (\A c \in Conns : Opening(c)')
    BY <2>1 DEF Inv, TypeOK, Connector, NoDial, Opening, Untouched
  <2>3. /\ NewAuthSetter' = NewAuthSetter /\ MayLogin' = MayLogin
        /\ \A c \in Conns : NewClientHello(c)' = NewClientHello(c)
    BY <2>1 DEF NewAuthSetter, generateAccessToken, MayLogin, CanRequestXTCPBinding, NewClientHello, clientHelloWithCryptoRandom
  <2>4. \A c \in Conns : HelloOf(c)' = HelloOf(c) /\ CryptoOf(c)' = CryptoOf(c) /\ KeysOf(c)' = KeysOf(c)
    BY <2>1, <2>3 DEF HelloOf, CryptoOf, KeysOf
  <2>5. \A c \in Conns : RunOf(c)' = RunOf(c) /\ NewControlReadWriter(c)' = NewControlReadWriter(c)
    BY <2>1 DEF RunOf, NewControlReadWriter
  <2>6. ASSUME NEW c \in Conns PROVE Uplink(c)'
    <3>1. ASSUME NEW i \in 1..Len(up[c]) PROVE Ordered(c, i)'
      <4>1. Ordered(c, i)
        BY DEF Inv, Uplink
      <4> QED
        BY <2>1, <2>3, <4>1 DEF Ordered
    <3>2. Uplink(c)
      BY DEF Inv
    <3> QED
      BY <2>1, <3>1, <3>2 DEF Uplink
  <2>7. ASSUME NEW c \in Conns PROVE Acceptance(c)'
    <3>1. Acceptance(c)
      BY DEF Inv
    <3> QED
      BY <2>1, <2>3, <2>4, <3>1 DEF Acceptance
  <2>8. ASSUME NEW c \in Conns PROVE Downlink(c)' /\ Client(c)'
    <3>1. Downlink(c) /\ Client(c)
      BY DEF Inv
    <3> QED
      BY <2>1, <2>3, <2>4, <2>5, <3>1 DEF Downlink, Client
  <2>9. Sessioned' /\ Controlled'
    <3>1. TypeOK /\ Sessioned /\ Controlled
      BY DEF Inv
    <3>2. (session # Nil => session.conn \in Conns) /\ (control # Nil => control.conn \in Conns)
      BY <3>1 DEF TypeOK, Sessions
    <3>3. Sessioned'
      <4> SUFFICES ASSUME session # Nil PROVE Sessioned'
        BY <2>1 DEF Sessioned
      <4>1. PICK k \in Conns : k = session.conn
        BY <3>2
      <4> QED
        BY <2>1, <2>4, <2>5, <3>1, <4>1 DEF Sessioned
    <3>4. Controlled'
      <4> SUFFICES ASSUME control # Nil PROVE Controlled'
        BY <2>1 DEF Controlled
      <4>1. PICK k \in Conns : k = control.conn
        BY <3>2
      <4> QED
        BY <2>1, <2>5, <3>1, <4>1 DEF Controlled
    <3> QED
      BY <3>3, <3>4
  <2> QED
    BY <2>2, <2>6, <2>7, <2>8, <2>9 DEF Inv
<1> QED
  BY <1>1, <1>2

\* The invariant holds in every reachable state, whatever is cut, refused or timed out.
THEOREM BootstrapInvariant == Spec => []Inv
  BY InitInv, NextInv, PTL DEF Spec

\* What a failed bootstrap leaves is closed, what a successful one leaves has no deadline, and the
\* pool is empty when no control owns it (controlSessionDialer.Dial, handleConnection, RegisterWorkConn).
THEOREM BootstrapIsSettled == Spec => []BootstrapSettled
<1>1. Inv => BootstrapSettled
  BY DEF Inv, Connector, Opening, BootstrapSettled
<1> QED
  BY <1>1, BootstrapInvariant, PTL

\* A session and the control that answered it agree on run, wire protocol, codec and binding, and
\* each reads with the key the other writes with, for every pair of configurations: the hello that
\* is hashed at one end is the one that is hashed at the other (exchangeLogin, handleClientHello,
\* NewCryptoContext, RegisterControl).
THEOREM SessionIsAgreed == Spec => []SessionAgrees
<1>1. Inv => SessionAgrees
  <2> SUFFICES ASSUME Inv, session # Nil, control # Nil, control.conn = session.conn PROVE SessionAgrees
    BY DEF SessionAgrees
  <2> TypeOK
    BY DEF Inv
  <2>1. PICK k \in Conns : k = session.conn
    BY DEF TypeOK, Sessions
  <2>2. /\ at[k] = "session" /\ session.run = RunOf(k) /\ session.wire = client.wire /\ session.xtcp = client.xtcp
        /\ session.keys = KeysOf(k)
        /\ session.codec = (IF client.wire = "v2" THEN HelloOf(k).codec ELSE "")
    BY <2>1 DEF Inv, Sessioned
  <2>3. /\ handler[k] = "control"
        /\ control.run = RunOf(k) /\ control.wire = accepted[k].wire /\ control.codec = accepted[k].codec
        /\ control.keys = NewControlReadWriter(k) /\ control.xtcp = client.xtcp
        /\ control.xtcp => accepted[k].tls
        /\ ~client.ssh /\ server.method = "token" => client.secret = server.secret
    BY <2>1 DEF Inv, Controlled
  <2>4. /\ accepted[k].wire = client.wire
        /\ client.wire = "v2" => accepted[k].crypto = CryptoOf(k) /\ accepted[k].codec = HelloOf(k).codec
        /\ client.wire = "v1" => accepted[k].codec = ""
    BY <2>3 DEF Inv, Acceptance
  <2>5. session.codec = control.codec
    BY <2>2, <2>3, <2>4, SetupType
  <2>6. session.xtcp => accepted[k].tls /\ client.ca
    BY <2>2, <2>3 DEF Inv, Client, MayLogin, CanRequestXTCPBinding
  <2>7. ASSUME client.ssh \/ server.method = "token" \/ client.secret = server.secret
        PROVE  Mirrored(session.keys, control.keys)
    <3>1. CASE client.ssh
      <4>1. session.keys = Plain /\ control.keys = Plain
        BY <2>2, <2>3, <3>1 DEF KeysOf, NewControlReadWriter
      <4> QED
        BY <4>1 DEF Plain, Mirrored
    <3>2. CASE ~client.ssh /\ client.wire = "v2"
      <4>1. session.keys = ClientKeys(client.secret, CryptoOf(k)) /\ control.keys = ServerKeys(client.secret, CryptoOf(k))
        BY <2>2, <2>3, <2>4, <2>7, <3>2 DEF KeysOf, NewControlReadWriter
      <4> QED
        BY <4>1 DEF ClientKeys, ServerKeys, Mirrored
    <3>3. CASE ~client.ssh /\ client.wire = "v1"
      <4>1. session.keys = V1Keys(client.secret) /\ control.keys = V1Keys(client.secret)
        BY <2>2, <2>3, <2>4, <2>7, <3>3 DEF KeysOf, NewControlReadWriter
      <4>2. V1Keys(client.secret).read = V1Keys(client.secret).write
        BY DEF V1Keys
      <4> QED
        BY <4>1, <4>2 DEF Mirrored
    <3> QED
      BY <3>1, <3>2, <3>3, SetupType
  <2> QED
    BY <2>1, <2>2, <2>3, <2>4, <2>5, <2>6, <2>7 DEF SessionAgrees
<1> QED
  BY <1>1, BootstrapInvariant, PTL
==============================================================================
