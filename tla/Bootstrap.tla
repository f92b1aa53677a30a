----------------------------- MODULE Bootstrap ------------------------------
(***************************************************************************)
(* How a connection between frpc and frps begins: the client's connector   *)
(* and session dialer (peer/frp/client), the server's accept path          *)
(* (peer/frp/server/service.go), the v2 hello exchange and the keys of the *)
(* control channel (peer/frp/pkg/proto/wire, pkg/msg, pkg/util/net), and   *)
(* the authentication of logins and work connections (pkg/auth).           *)
(*                                                                         *)
(* A connection is a pair of frame queues.  Client and server take turns   *)
(* in any order; either may give up, and the network may cut a connection  *)
(* at any time.  With tcpMux a connection is a stream; what TLS and yamux  *)
(* do for all streams at once is done for each one here.                   *)
(***************************************************************************)
EXTENDS Naturals, Sequences, FiniteSets

CONSTANTS
    Conns,          \* connections that the client may open, each once
    Clients,        \* client configurations
    Servers,        \* server configurations
    Nil

\* A client configuration; hello is what the client advertises, algorithms first.
ClientSet == [wire : {"v1", "v2"}, protocol : {"tcp", "wss", "quic"}, tls : BOOLEAN, ca : BOOLEAN,
              mux : BOOLEAN, method : {"token", "oidc"}, secret : STRING, scope : BOOLEAN,
              ssh : BOOLEAN, xtcp : BOOLEAN, hello : [algs : Seq(STRING), codecs : SUBSET STRING]]
ServerSet == [force : BOOLEAN, mux : BOOLEAN, method : {"token", "oidc"}, secret : STRING, scope : BOOLEAN]

\* The two hellos, what they settle, and the session or control that uses it.
RunIDs == Conns \cup {Nil}
Hellos == [algs : Seq(STRING), codecs : SUBSET STRING, random : Conns]
Codecs == {"binary-v1", ""}
ServerHellos == [alg : STRING \cup {Nil}, codec : Codecs, random : RunIDs, error : BOOLEAN]
Cryptos == [alg : STRING \cup {Nil}, transcript : Hellos \X ServerHellos]
Keys == [secret : STRING, crypto : Cryptos \cup {Nil},
         direction : {"client-to-server", "server-to-client", ""}] \cup {Nil}
Sessions == [conn : Conns, run : RunIDs, wire : {"v1", "v2"}, keys : [read : Keys, write : Keys],
             codec : Codecs, xtcp : BOOLEAN]

\* The frames of the two directions, and acceptedConnection.
Credentials == [method : {"token", "oidc"}, secret : STRING] \cup {Nil}
Logins == [run : RunIDs, cred : Credentials, xtcp : BOOLEAN, ssh : BOOLEAN]
UpFrames == [t : {"tls", "mux", "magic", "hello", "Login", "NewWorkConn", "NewVisitorConn"},
             v : {Nil} \cup Hellos \cup Logins \cup [run : RunIDs, cred : Credentials]]
DownFrames == [t : {"serverHello", "LoginResp", "StartWorkConn", "NewVisitorConnResp"},
               v : ServerHellos \cup [error : BOOLEAN, run : RunIDs, xtcp : BOOLEAN] \cup [error : BOOLEAN]]
Acceptances == [wire : {"v1", "v2"}, tls : BOOLEAN, hello : BOOLEAN, codec : Codecs,
                crypto : Cryptos \cup {Nil}, first : UpFrames \cup {Nil}]

ASSUME BootstrapAssumption ==
    /\ Clients \subseteq ClientSet /\ Servers \subseteq ServerSet
    /\ Nil \notin Conns \cup Sessions

VARIABLES
    client, server, \* the configurations
    connector,      \* the client's connector: "none", "open" or "closed"
    at,             \* [Conns -> where the client is with the connection]
    run,            \* the run id that the client logs in with
    exchange,       \* loginExchangeResult: what the server's hello has settled
    session,        \* the client's SessionContext
    up, down,       \* [Conns -> frames on their way to the server, to the client]
    cut,            \* [Conns -> the network has lost the connection, nobody knows]
    copen, sopen,   \* [Conns -> the client's, the server's end is open]
    cwait, swait,   \* [Conns -> a read deadline is armed at the client, at the server]
    handler,        \* [Conns -> where the server's handleConnection is]
    accepted,       \* [Conns -> acceptedConnection]
    control,        \* the server's current running control
    subjects        \* OidcAuthConsumer.subjectsFromLogin

clientVars == <<connector, at, run, exchange, session, copen, cwait>>
serverVars == <<cut, sopen, swait, handler, accepted, control, subjects>>
setupVars == <<client, server>>
vars == <<setupVars, clientVars, up, down, serverVars>>

Frame(t, v) == [t |-> t, v |-> v]
\* What is written to a connection that the network has lost goes nowhere.
Sent(queue, c, frames) == [queue EXCEPT ![c] = IF cut[c] THEN @ ELSE @ \o frames]
NoConn == [wire |-> "v1", tls |-> FALSE, hello |-> FALSE, codec |-> "", crypto |-> Nil, first |-> Nil]

Init ==
    /\ client \in Clients /\ server \in Servers
    /\ connector = "none" /\ at = [c \in Conns |-> "none"] /\ run = Nil
    /\ exchange = Nil /\ session = Nil /\ cut = [c \in Conns |-> FALSE]
    /\ up = [c \in Conns |-> <<>>] /\ down = [c \in Conns |-> <<>>]
    /\ copen = [c \in Conns |-> FALSE] /\ sopen = [c \in Conns |-> FALSE]
    /\ cwait = [c \in Conns |-> FALSE] /\ swait = [c \in Conns |-> FALSE]
    /\ handler = [c \in Conns |-> "none"] /\ accepted = [c \in Conns |-> NoConn]
    /\ control = Nil /\ subjects = {}

-----------------------------------------------------------------------------
(* The hello exchange and the keys. *)

Supported == {"aes-256-gcm", "xchacha20-poly1305"}
SelectAEADAlgorithm(algs) ==
    LET known == {i \in DOMAIN algs : algs[i] \in Supported} IN
    IF known = {} THEN Nil ELSE algs[CHOOSE i \in known : \A j \in known : i <= j]
SelectUDPPacketCodec(codecs) == IF "binary-v1" \in codecs THEN "binary-v1" ELSE ""

clientHelloWithCryptoRandom(random) ==
    [algs |-> client.hello.algs, codecs |-> client.hello.codecs, random |-> random]
NewClientHello(c) == clientHelloWithCryptoRandom(c)
ValidateCryptoCapabilities(h) == SelectAEADAlgorithm(h.algs) # Nil
ValidateClientHello(h) == ValidateCryptoCapabilities(h)
NewServerHello(c, h) ==
    [alg |-> SelectAEADAlgorithm(h.algs), codec |-> SelectUDPPacketCodec(h.codecs), random |-> c, error |-> FALSE]
DefaultServerHello == [alg |-> Nil, codec |-> "", random |-> Nil, error |-> TRUE]
ValidateServerHello(h, s) ==
    /\ s.codec # "" => s.codec = "binary-v1" /\ s.codec \in h.codecs
    /\ s.alg \in Supported /\ \E i \in DOMAIN h.algs : h.algs[i] = s.alg

\* Both ends hash the two hello payloads as they were sent and received.
HashCryptoTranscript(h, s) == <<h, s>>
Mut_NewCryptoContext(h, s) == [alg |-> s.alg, transcript |-> <<h>>]
NewCryptoContext(h, s) == [alg |-> s.alg, transcript |-> HashCryptoTranscript(h, s)]
NewClientCryptoContext(h, s) == [alg |-> s.alg, transcript |-> HashCryptoTranscript(h, s)]

\* deriveAEADControlKey and the role's choice of the two directions; v1 has one key.
Key(secret, crypto, direction) == [secret |-> secret, crypto |-> crypto, direction |-> direction]
ClientKeys(secret, crypto) ==
    [read |-> Key(secret, crypto, "server-to-client"), write |-> Key(secret, crypto, "client-to-server")]
ServerKeys(secret, crypto) ==
    [read |-> Key(secret, crypto, "client-to-server"), write |-> Key(secret, crypto, "server-to-client")]
V1Keys(secret) == [read |-> Key(secret, Nil, ""), write |-> Key(secret, Nil, "")]
Plain == [read |-> Nil, write |-> Nil]

-----------------------------------------------------------------------------
(* Authentication. *)

\* SetLogin and SetNewWorkConn of the two methods: a digest of the token and the time, or
\* an access token, fetched or cached, whose subject the issuer vouches for.
GetAuthKey(token) == [method |-> "token", secret |-> token]
generateAccessToken == [method |-> "oidc", secret |-> client.secret]
NewAuthSetter == IF client.method = "token" THEN GetAuthKey(client.secret) ELSE generateAccessToken
SetNewWorkConn == IF client.scope THEN NewAuthSetter ELSE Nil
Subject(cred) == "subject"

\* The verifiers. A subject of any login may authenticate a later message.
TokenVerifies(cred) == cred = GetAuthKey(server.secret)
OidcVerifies(cred) == cred # Nil /\ cred.method = "oidc"
verifyPostLoginToken(cred) == OidcVerifies(cred) /\ Subject(cred) \in subjects
\* alwaysPass is for clients of the ssh gateway only.
VerifyLogin(m) ==
    \/ m.ssh
    \/ IF server.method = "token" THEN TokenVerifies(m.cred) ELSE OidcVerifies(m.cred)
VerifyNewWorkConn(m) ==
    \/ client.ssh \/ ~server.scope
    \/ IF server.method = "token" THEN TokenVerifies(m.cred) ELSE verifyPostLoginToken(m.cred)
\* VerifyLogin of OIDC remembers whose login it was.
Remembered(m) == IF server.method = "oidc" /\ ~m.ssh THEN subjects \cup {Subject(m.cred)} ELSE subjects

-----------------------------------------------------------------------------
(* The client: defaultConnectorImpl, pipeConnector and controlSessionDialer. *)

NoDial == \A c \in Conns : at[c] \notin {"dial", "opened", "connected", "greeted", "hello", "resp"}
Close(c) == copen' = [copen EXCEPT ![c] = FALSE] /\ cwait' = [cwait EXCEPT ![c] = FALSE]
Goes(c, where) == at' = [at EXCEPT ![c] = where]

\* Service.loopLoginUntilSuccess calls Dial again and again while there is no session.
Dial(c) ==
    /\ at[c] = "none" /\ session = Nil /\ NoDial
    /\ Goes(c, "dial") /\ connector' = "none"
    /\ UNCHANGED <<setupVars, run, exchange, session, up, down, copen, cwait, serverVars>>

\* Open: one connection for all streams, except without tcpMux.
Open(c) ==
    /\ at[c] = "dial"
    /\ connector' = IF client.mux \/ client.protocol = "quic" THEN "open" ELSE "none"
    /\ Goes(c, "opened")
    /\ UNCHANGED <<setupVars, run, exchange, session, up, down, copen, cwait, serverVars>>
OpenFails(c) ==
    /\ at[c] = "dial" /\ Goes(c, "failed")
    /\ UNCHANGED <<setupVars, connector, run, exchange, session, up, down, copen, cwait, serverVars>>

\* realConnect: the custom first byte precedes TLS, except where TLS is outermost.
HeadByte == client.protocol = "tcp" /\ client.tls /\ ~client.ssh
Preamble ==
    (IF HeadByte THEN <<Frame("tls", Nil)>> ELSE <<>>) \o (IF client.mux /\ client.protocol # "quic" THEN <<Frame("mux", Nil)>> ELSE <<>>)
\* Connect; the server's end appears with it.
Connect(c, where) ==
    /\ copen' = [copen EXCEPT ![c] = TRUE] /\ sopen' = [sopen EXCEPT ![c] = TRUE]
    /\ up' = [up EXCEPT ![c] = Preamble]
    /\ handler' = [handler EXCEPT ![c] = "tls"] /\ swait' = [swait EXCEPT ![c] = TRUE]
    /\ Goes(c, where)
    /\ UNCHANGED <<setupVars, cut, connector, run, exchange, session, down, cwait, accepted, control, subjects>>

CanRequestXTCPBinding ==
    /\ client.wire = "v2" /\ client.method = "token" /\ client.secret # ""
    /\ client.ca /\ (client.tls \/ client.protocol = "wss") /\ ~client.ssh
\* buildLoginMsg: an xtcp configuration needs a binding that this login can have.
MayLogin == client.xtcp => CanRequestXTCPBinding
LoginMsg == [run |-> run, cred |-> NewAuthSetter, xtcp |-> client.xtcp, ssh |-> client.ssh]

DialConnect(c) == at[c] = "opened" /\ Connect(c, "connected")

\* exchangeLogin: everything is written before anything is read.
SendHello(c) ==
    /\ at[c] = "connected" /\ MayLogin
    /\ up' = IF client.wire = "v1" THEN up
             ELSE Sent(up, c, <<Frame("magic", Nil), Frame("hello", NewClientHello(c))>>)
    /\ Goes(c, "greeted")
    /\ UNCHANGED <<setupVars, connector, run, exchange, session, down, copen, cwait, serverVars>>
SendLogin(c) ==
    /\ at[c] = "greeted"
    /\ up' = Sent(up, c, <<Frame("Login", LoginMsg)>>)
    /\ cwait' = [cwait EXCEPT ![c] = TRUE]
    /\ Goes(c, IF client.wire = "v1" THEN "resp" ELSE "hello")
    /\ UNCHANGED <<setupVars, connector, run, exchange, session, down, copen, serverVars>>

\* The next frame for the client.
Arrived(c, t) == down[c] # <<>> /\ Head(down[c]).t = t
Read(c) == down' = [down EXCEPT ![c] = Tail(@)]

AcceptsHello(c) ==
    /\ Arrived(c, "serverHello") /\ ~Head(down[c]).v.error
    /\ ValidateServerHello(NewClientHello(c), Head(down[c]).v)
ReadServerHello(c) ==
    /\ at[c] = "hello" /\ AcceptsHello(c)
    /\ exchange' = [crypto |-> NewClientCryptoContext(NewClientHello(c), Head(down[c]).v), codec |-> Head(down[c]).v.codec]
    /\ Read(c) /\ Goes(c, "resp")
    /\ UNCHANGED <<setupVars, connector, run, session, up, copen, cwait, serverVars>>

\* The answer carries a control id exactly when one was asked for.
AcceptsResp(c) == Arrived(c, "LoginResp") /\ ~Head(down[c]).v.error /\ (Head(down[c]).v.xtcp <=> client.xtcp)
ControlKeys ==
    IF client.ssh THEN Plain
    ELSE IF client.wire = "v2" THEN ClientKeys(client.secret, exchange.crypto)
    ELSE V1Keys(client.secret)
Mut_Established(c) == cwait
Established(c) == [cwait EXCEPT ![c] = FALSE]
ReadLoginResp(c) ==
    /\ at[c] = "resp" /\ AcceptsResp(c)
    /\ session' = [conn |-> c, run |-> Head(down[c]).v.run, wire |-> client.wire, keys |-> ControlKeys,
                   codec |-> (IF client.wire = "v2" THEN exchange.codec ELSE ""), xtcp |-> client.xtcp]
    /\ run' = Head(down[c]).v.run /\ exchange' = Nil
    /\ Read(c) /\ Goes(c, "session") /\ cwait' = Established(c)
    /\ UNCHANGED <<setupVars, connector, up, copen, serverVars>>

\* Whatever fails, the connection and the connector are closed: an impossible binding,
\* an unexpected, refusing or missing answer, a deadline, a credential not to be had.
NoAnswer(c) == down[c] = <<>> /\ (cwait[c] \/ (~sopen[c] /\ ~cut[c]))
MayFail(c) ==
    \/ at[c] \in {"opened", "connected", "greeted"}
    \/ at[c] = "hello" /\ ~AcceptsHello(c) /\ (down[c] # <<>> \/ NoAnswer(c))
    \/ at[c] = "resp" /\ ~AcceptsResp(c) /\ (down[c] # <<>> \/ NoAnswer(c))
ClosedConnector == IF connector = "open" THEN "closed" ELSE connector
DialFails(c) ==
    /\ MayFail(c)
    /\ Close(c) /\ connector' = ClosedConnector /\ exchange' = Nil
    /\ Goes(c, "failed")
    /\ UNCHANGED <<setupVars, run, session, up, down, serverVars>>

\* A control whose connection ends closes its session: the connector with it.
SessionEnds(c) ==
    /\ at[c] = "session"
    /\ copen' = [d \in Conns |-> copen[d] /\ ~(d = c \/ connector = "open")]
    /\ cwait' = [cwait EXCEPT ![c] = FALSE]
    /\ connector' = ClosedConnector /\ session' = Nil /\ Goes(c, "failed")
    /\ UNCHANGED <<setupVars, run, exchange, up, down, serverVars>>

\* handleReqWorkConn and dialRawVisitorConn: messageConnector sends the magic only.
ConnectMore(c, where) == at[c] = "none" /\ session # Nil /\ NoDial /\ Connect(c, where)
WriteFirst(c, t, where) ==
    /\ up' = Sent(up, c, (IF client.wire = "v2" THEN <<Frame("magic", Nil)>> ELSE <<>>)
                            \o <<Frame(t, [run |-> run, cred |-> SetNewWorkConn])>>)
    /\ Goes(c, where)
    /\ UNCHANGED <<setupVars, connector, run, exchange, session, down, copen, serverVars>>
SendNewWorkConn(c) == at[c] = "work" /\ WriteFirst(c, "NewWorkConn", "started") /\ UNCHANGED cwait
SendNewVisitorConn(c) ==
    at[c] = "visitor" /\ WriteFirst(c, "NewVisitorConn", "visiting") /\ cwait' = [cwait EXCEPT ![c] = TRUE]
ReadStart(c) ==
    /\ at[c] = "started" /\ Arrived(c, "StartWorkConn") /\ ~Head(down[c]).v.error
    /\ Read(c) /\ Goes(c, "joined")
    /\ UNCHANGED <<setupVars, connector, run, exchange, session, up, copen, cwait, serverVars>>
ReadVisitorResp(c) ==
    /\ at[c] = "visiting" /\ Arrived(c, "NewVisitorConnResp") /\ ~Head(down[c]).v.error
    /\ Read(c) /\ Goes(c, "joined") /\ cwait' = Established(c)
    /\ UNCHANGED <<setupVars, connector, run, exchange, session, up, copen, serverVars>>
ConnFails(c) ==
    /\ at[c] \in {"started", "visiting"}
    /\ \/ down[c] # <<>> /\ Head(down[c]).v.error
       \/ NoAnswer(c) \/ ~copen[c]
    /\ Close(c) /\ Goes(c, "failed")
    /\ UNCHANGED <<setupVars, connector, run, exchange, session, up, down, serverVars>>

ClientStep(c) ==
    \/ Dial(c) \/ Open(c) \/ OpenFails(c) \/ DialConnect(c) \/ SendHello(c) \/ SendLogin(c) \/ ReadServerHello(c)
    \/ ReadLoginResp(c) \/ DialFails(c)
    \/ SendNewWorkConn(c) \/ SendNewVisitorConn(c) \/ ReadStart(c) \/ ReadVisitorResp(c) \/ ConnFails(c)

-----------------------------------------------------------------------------
(* The server: HandleListener, handleConnection and what it registers. *)

HandlerAt(c, where) == handler' = [handler EXCEPT ![c] = where]
Receives(c, t) == up[c] # <<>> /\ Head(up[c]).t = t
Take(c) == up' = [up EXCEPT ![c] = Tail(@)]
Write(c, t, v) == down' = Sent(down, c, <<Frame(t, v)>>)
HangUp(c) ==
    /\ sopen' = [sopen EXCEPT ![c] = FALSE] /\ swait' = [swait EXCEPT ![c] = FALSE] /\ HandlerAt(c, "ended")

\* CheckAndEnableTLSServerConnWithTimeout looks at the first byte; quic has TLS anyway, and
\* the ssh gateway's listener is internal.
Outer == client.ssh \/ client.protocol = "quic"
CheckTLS(c) ==
    /\ handler[c] = "tls" /\ (Outer \/ up[c] # <<>>)
    /\ Outer \/ Receives(c, "tls") \/ ~server.force
    /\ up' = IF Receives(c, "tls") THEN [up EXCEPT ![c] = Tail(@)] ELSE up
    /\ accepted' = [accepted EXCEPT ![c].tls = client.protocol = "quic" \/ Receives(c, "tls")]
    /\ HandlerAt(c, "mux")
    /\ UNCHANGED <<setupVars, cut, clientVars, down, sopen, swait, control, subjects>>
\* Both ends have to agree on tcpMux; a stream of a quic connection needs none.
MuxAgrees(c) == Outer \/ (server.mux <=> Receives(c, "mux"))
AcceptStream(c) ==
    /\ handler[c] = "mux" /\ (Outer \/ up[c] # <<>>) /\ MuxAgrees(c)
    /\ up' = IF Receives(c, "mux") THEN [up EXCEPT ![c] = Tail(@)] ELSE up
    /\ HandlerAt(c, "magic")
    /\ UNCHANGED <<setupVars, cut, clientVars, down, sopen, swait, accepted, control, subjects>>
CheckMagic(c) ==
    /\ handler[c] = "magic" /\ up[c] # <<>>
    /\ up' = IF Receives(c, "magic") THEN [up EXCEPT ![c] = Tail(@)] ELSE up
    /\ accepted' = [accepted EXCEPT ![c].wire = IF Receives(c, "magic") THEN "v2" ELSE "v1"]
    /\ HandlerAt(c, "first")
    /\ UNCHANGED <<setupVars, cut, clientVars, down, sopen, swait, control, subjects>>

\* handleClientHello answers before the first message is read.
HandleClientHello(c) ==
    LET h == Head(up[c]).v
        s == NewServerHello(c, h) IN
    /\ handler[c] = "first" /\ Receives(c, "hello") /\ ValidateClientHello(h)
    /\ accepted' = [accepted EXCEPT ![c].hello = TRUE, ![c].codec = s.codec, ![c].crypto = NewCryptoContext(h, s)]
    /\ Take(c) /\ Write(c, "serverHello", s) /\ HandlerAt(c, "message")
    /\ UNCHANGED <<setupVars, cut, clientVars, sopen, swait, control, subjects>>
RefuseClientHello(c) ==
    /\ handler[c] = "first" /\ Receives(c, "hello") /\ ~ValidateClientHello(Head(up[c]).v)
    /\ Take(c) /\ Write(c, "serverHello", DefaultServerHello) /\ HangUp(c)
    /\ UNCHANGED <<setupVars, cut, clientVars, accepted, control, subjects>>
\* acceptConnection is done: the deadline is lifted.
ReadFirst(c) ==
    /\ handler[c] \in {"first", "message"} /\ up[c] # <<>> /\ ~Receives(c, "hello")
    /\ accepted' = [accepted EXCEPT ![c].first = Head(up[c])]
    /\ swait' = [swait EXCEPT ![c] = FALSE]
    /\ Take(c) /\ HandlerAt(c, "handle")
    /\ UNCHANGED <<setupVars, cut, clientVars, down, sopen, control, subjects>>

\* newControlReadWriter.
NewControlReadWriter(c) ==
    IF client.ssh THEN Plain
    ELSE IF accepted[c].wire = "v2" THEN ServerKeys(server.secret, accepted[c].crypto)
    ELSE V1Keys(server.secret)
\* RegisterControl: a binding needs what the server itself has seen of the connection.
BindingAllowed(c) ==
    ~client.ssh /\ accepted[c].tls /\ accepted[c].wire = "v2" /\ server.method = "token" /\ server.secret # ""
MayRegister(c, m) ==
    /\ accepted[c].wire = "v2" /\ ~client.ssh => accepted[c].crypto # Nil
    /\ VerifyLogin(m)
    /\ m.xtcp => BindingAllowed(c)
\* The control that is replaced ends with its connection and its pool.
Pool == {d \in Conns : handler[d] = "pooled"}
EndsWith(D) ==
    /\ sopen' = [d \in Conns |-> sopen[d] /\ d \notin D]
    /\ handler' = [d \in Conns |-> IF d \in D THEN "ended" ELSE handler[d]]
RegisterControl(c) ==
    LET m == accepted[c].first.v
        id == IF m.run = Nil THEN c ELSE m.run
        old == IF control = Nil THEN {} ELSE {control.conn} \cup Pool IN
    /\ handler[c] = "handle" /\ accepted[c].first.t = "Login" /\ MayRegister(c, m)
    /\ subjects' = Remembered(m)
    /\ control' = [conn |-> c, run |-> id, wire |-> accepted[c].wire, codec |-> accepted[c].codec,
                   keys |-> NewControlReadWriter(c), xtcp |-> m.xtcp]
    /\ Write(c, "LoginResp", [error |-> FALSE, run |-> id, xtcp |-> m.xtcp])
    /\ sopen' = [d \in Conns |-> sopen[d] /\ d \notin old]
    /\ handler' = [d \in Conns |-> IF d = c THEN "control" ELSE IF d \in old THEN "ended" ELSE handler[d]]
    /\ UNCHANGED <<setupVars, cut, clientVars, up, swait, accepted>>
RefuseLogin(c) ==       \* a plugin may refuse any login
    /\ handler[c] = "handle" /\ accepted[c].first.t = "Login"
    /\ Write(c, "LoginResp", [error |-> TRUE, run |-> Nil, xtcp |-> FALSE]) /\ HangUp(c)
    /\ UNCHANGED <<setupVars, cut, clientVars, up, accepted, control, subjects>>

\* RegisterWorkConn and RegisterVisitorConn.
CurrentRun(c) == control # Nil /\ control.run = accepted[c].first.v.run /\ control.wire = accepted[c].wire
RegisterWorkConn(c) ==
    /\ handler[c] = "handle" /\ accepted[c].first.t = "NewWorkConn"
    /\ ~accepted[c].hello /\ CurrentRun(c) /\ VerifyNewWorkConn(accepted[c].first.v)
    /\ HandlerAt(c, "pooled")
    /\ UNCHANGED <<setupVars, cut, clientVars, up, down, sopen, swait, accepted, control, subjects>>
\* The visitor is admitted under the gate of its control's run.
AdmitVisitorByRunID(c) == CurrentRun(c)
RegisterVisitorConn(c) ==
    /\ handler[c] = "handle" /\ accepted[c].first.t = "NewVisitorConn" /\ AdmitVisitorByRunID(c)
    /\ Write(c, "NewVisitorConnResp", [error |-> FALSE]) /\ HandlerAt(c, "joined")
    /\ UNCHANGED <<setupVars, cut, clientVars, up, sopen, swait, accepted, control, subjects>>
RefuseConn(c) ==
    /\ handler[c] = "handle" /\ accepted[c].first.t \in {"NewWorkConn", "NewVisitorConn"}
    /\ Write(c, IF accepted[c].first.t = "NewWorkConn" THEN "StartWorkConn" ELSE "NewVisitorConnResp", [error |-> TRUE])
    /\ HangUp(c)
    /\ UNCHANGED <<setupVars, cut, clientVars, up, accepted, control, subjects>>
\* A user's connection takes the work connection out of the pool.
StartWork(c) ==
    /\ handler[c] = "pooled"
    /\ Write(c, "StartWorkConn", [error |-> FALSE]) /\ HandlerAt(c, "joined")
    /\ UNCHANGED <<setupVars, cut, clientVars, up, sopen, swait, accepted, control, subjects>>

\* The other end is gone, what was read is not what was expected, or the deadline passed.
Unexpected(c) ==
    \/ handler[c] = "tls" /\ ~Outer /\ server.force /\ up[c] # <<>> /\ ~Receives(c, "tls")
    \/ handler[c] = "mux" /\ up[c] # <<>> /\ ~MuxAgrees(c)
    \/ handler[c] = "magic" /\ Receives(c, "mux")
Mut_Deadline(c) == swait[c] /\ handler[c] # "first"
Deadline(c) == swait[c]
AcceptFails(c) ==
    /\ handler[c] \in {"tls", "mux", "magic", "first", "message"}
    /\ Unexpected(c) \/ (up[c] = <<>> /\ (Deadline(c) \/ (~copen[c] /\ ~cut[c])))
    /\ HangUp(c)
    /\ UNCHANGED <<setupVars, cut, clientVars, up, down, accepted, control, subjects>>
\* The reader fails, or the heartbeat does; the worker closes the pool.
ControlEnds(c) ==
    /\ handler[c] = "control" /\ (~copen[c] \/ cut[c])
    /\ EndsWith({c} \cup Pool) /\ control' = Nil
    /\ UNCHANGED <<setupVars, cut, clientVars, up, down, swait, accepted, subjects>>

ServerStep(c) ==
    \/ CheckTLS(c) \/ AcceptStream(c) \/ CheckMagic(c) \/ HandleClientHello(c) \/ RefuseClientHello(c) \/ ReadFirst(c)
    \/ RegisterControl(c) \/ RefuseLogin(c) \/ RegisterWorkConn(c) \/ RegisterVisitorConn(c) \/ RefuseConn(c)
    \/ AcceptFails(c) \/ ControlEnds(c)

\* The network loses a connection, with what is on its way.
Cut(c) ==
    /\ ~cut[c] /\ (copen[c] \/ sopen[c])
    /\ cut' = [cut EXCEPT ![c] = TRUE]
    /\ up' = [up EXCEPT ![c] = <<>>] /\ down' = [down EXCEPT ![c] = <<>>]
    /\ UNCHANGED <<setupVars, clientVars, sopen, swait, handler, accepted, control, subjects>>

Next ==
    \E c \in Conns :
        \/ ClientStep(c) \/ ServerStep(c) \/ StartWork(c) \/ SessionEnds(c) \/ Cut(c)
        \/ ConnectMore(c, "work") \/ ConnectMore(c, "visitor")

Spec == Init /\ [][Next]_vars /\ \A c \in Conns : WF_vars(ClientStep(c)) /\ WF_vars(ServerStep(c))

-----------------------------------------------------------------------------
(* What a login has to establish. *)

\* The states and messages of both ends.
TypeOK ==
    /\ client \in Clients /\ server \in Servers /\ connector \in {"none", "open", "closed"}
    /\ copen \in [Conns -> BOOLEAN] /\ sopen \in [Conns -> BOOLEAN] /\ cut \in [Conns -> BOOLEAN]
    /\ cwait \in [Conns -> BOOLEAN] /\ swait \in [Conns -> BOOLEAN]
    /\ at \in [Conns -> {"none", "dial", "opened", "connected", "greeted", "hello", "resp", "session",
                          "work", "visitor", "started", "visiting", "joined", "failed"}]
    /\ handler \in [Conns -> {"none", "tls", "mux", "magic", "first", "message", "handle",
                               "control", "pooled", "joined", "ended"}]
    /\ up \in [Conns -> Seq(UpFrames)] /\ down \in [Conns -> Seq(DownFrames)]
    /\ accepted \in [Conns -> Acceptances]
    /\ session \in Sessions \cup {Nil} /\ control \in Sessions \cup {Nil}
    /\ run \in RunIDs /\ subjects \subseteq {"subject"}

\* A session and the control that answered it agree on the run, the wire protocol, the
\* UDP codec and the XTCP binding, and what one end writes is what the other can read,
\* whenever the server checked the token or both have the same one; a binding is only
\* ever had over TLS that both ends have seen (exchangeLogin, handleClientHello,
\* NewCryptoContext, NewAEADCryptoReadWriter, RegisterControl).
Mirrored(a, b) == a.read = b.write /\ a.write = b.read
SessionAgrees ==
    session # Nil /\ control # Nil /\ control.conn = session.conn =>
        /\ session.run = control.run /\ session.wire = control.wire /\ session.codec = control.codec
        /\ session.xtcp = control.xtcp
        /\ client.ssh \/ server.method = "token" \/ client.secret = server.secret => Mirrored(session.keys, control.keys)
        /\ session.xtcp => accepted[session.conn].tls /\ client.ca

\* A bootstrap that has failed has closed its connection, at the client the connector
\* too, and one that has succeeded has no deadline left that could end it later; the
\* pool is empty when no control owns it.
BootstrapSettled ==
    /\ session = Nil /\ NoDial => connector # "open"
    /\ \A c \in Conns :
          /\ at[c] = "failed" => ~copen[c]
          /\ at[c] \in {"session", "joined"} => ~cwait[c]
          /\ handler[c] = "ended" => ~sopen[c]
          /\ handler[c] \in {"control", "pooled", "joined"} => sopen[c] /\ ~swait[c]
          /\ handler[c] = "pooled" => control # Nil

\* Whatever the other end or the network does, a Dial comes to its end and so does the
\* accepting of a connection: nobody waits without a deadline.
BootstrapEnds ==
    \A c \in Conns :
        /\ at[c] \in {"dial", "connected", "hello", "resp"} ~> at[c] \in {"session", "failed"}
        /\ handler[c] \in {"tls", "mux", "magic", "first", "message"} ~> handler[c] \in {"handle", "ended"}

=============================================================================
