------------------------------- MODULE Nathole -------------------------------
(***************************************************************************)
(* The rendezvous of an XTCP visitor with the provider of an XTCP proxy,    *)
(* and the direct tunnel they make (pkg/nathole, pkg/xtcpbinding,           *)
(* client/visitor/xtcp.go, client/proxy/xtcp.go, server/proxy/xtcp.go).     *)
(*                                                                          *)
(* A visitor asks the server; the handler of its message hands a session id *)
(* to the goroutine of the proxy, which sends it to the provider over a     *)
(* work connection; the provider answers on its control; both are told how  *)
(* to find each other and which two certificates to pin, find each other    *)
(* with UDP messages, and prove the binding to each other over QUIC.        *)
(*                                                                          *)
(* Two controls may provide the one proxy of the model, one after the other *)
(* or at once.  What the secret, the timestamps and the certificates say is *)
(* an input: whatever is asked may be refused.  So may every wait time out. *)
(* Messages on a control connection arrive in order, so the model handles   *)
(* them when they are sent; one that comes late is one sent late.           *)
(***************************************************************************)
EXTENDS Integers, Sequences, FiniteSetsExt

CONSTANTS
    Providers,      \* controls of clients that have the proxy
    V,              \* control of the client that has the visitor
    Users,          \* connections of the visitor's users
    Keeper,         \* keepTunnelOpenWorker
    Addrs,          \* control -> what STUN tells of it: <<[ip, port], ...>>
    LocalIPs,       \* control -> its own addresses
    MaxAttempts,    \* bound on the attempts of the visitor
    MaxEnds,        \* bound on the controls, proxies and visitors that are closed
    Instances,      \* who takes part: [providers, callers, attempts, ends], the last two as bounds
    Nil

Controls == Providers \cup {V}
Attempts == 1..MaxAttempts
Sids == 1..MaxAttempts
Callers == Users \cup {Keeper}

ASSUME NatholeAssumption ==
    /\ V \notin Providers /\ Keeper \notin Users /\ MaxAttempts \in Nat \ {0} /\ MaxEnds \in Nat
    /\ \A c \in Controls : Len(Addrs[c]) > 1

VARIABLES
    (* the server *)
    server,         \* [Controls -> up or interrupted]
    owner,          \* whose configuration clientCfgs holds for the proxy
    listed,         \* whose proxy the proxy manager has under the name
    proxy,          \* [Providers -> checked, run, added, closing, closed]
    taker,          \* [Providers -> the goroutine of the proxy: Off, Idle or the session id it delivers]
    sess,           \* [Sids -> the session, or Unused]
    scores,         \* [Providers -> the records of the analyzer for it and the visitor]
    (* the clients *)
    client,         \* [Controls -> its proxy or visitor: up, closing, closed]
    job,            \* [Sids -> InWorkConn of the provider that was sent the id, or NoJob]
    att,            \* the attempt of processTunnelStartEvents
    attempts,
    tunnel,         \* QUICTunnelSession: the session id it holds, or Nil
    sockets,        \* attempts of the visitor whose UDP socket is open
    conns,          \* session ids whose QUIC connection the visitor has open
    left,           \* attempts whose stored tunnel was replaced by another
    caller,         \* [Callers -> first, try, failed, end]
    ends,           \* how many were closed
    (* the network *)
    reports,        \* NatHoleReport with success under way: session ids
    detects         \* UDP messages that were sent: [sid, response]

serverVars == <<server, owner, listed, proxy, taker, sess, scores>>
visitorVars == <<att, attempts, tunnel, sockets, conns, left, caller>>
netVars == <<reports, detects>>
vars == <<serverVars, client, job, visitorVars, ends, netVars>>

-----------------------------------------------------------------------------
(* Analysis of the addresses. *)

\* ClassifyNATFeature
Feature(c) ==
    LET a == Addrs[c]
        ipChanged == \E i \in DOMAIN a : a[i].ip # a[1].ip
        portChanged == \E i \in DOMAIN a : a[i].port # a[1].port
        difference == Max({a[i].port : i \in DOMAIN a}) - Min({a[i].port : i \in DOMAIN a})
    IN  [hard |-> ipChanged \/ portChanged,
         regular |-> ~ipChanged /\ portChanged /\ difference \in 1..5,
         public |-> \E i \in DOMAIN a : a[i].ip \in LocalIPs[c]]

\* The role of the provider in each behaviour of a mode; the visitor has the other one.
Behaviors(mode) ==
    LET S == "sender"
        R == "receiver"
    IN  CASE mode = 0 -> <<S, R, S, R, S, R, S, S, R, R>>
          [] mode = 1 -> <<S, S, S, S, S, S>>
          [] mode = 3 -> <<S, S, S, R, R, R>>
          [] OTHER -> <<S, S, S>>
Other(role) == IF role = "sender" THEN "receiver" ELSE "sender"

\* getBehaviorScoresByMode2, newMakeHoleRecordsWithClock
ByMode(mode, sender, receiver) ==
    [i \in DOMAIN Behaviors(mode) |->
        [mode |-> mode, index |-> i, score |-> IF Behaviors(mode)[i] = "sender" THEN sender ELSE receiver]]
FeatureCount(c) == [hard |-> Cardinality({x \in {c, V} : Feature(x).hard}),
                    regular |-> Cardinality({x \in {c, V} : Feature(x).hard /\ Feature(x).regular})]
NewRecords(c) ==
    LET n == FeatureCount(c)
        mode0 == IF Feature(c).public THEN ByMode(0, 0, 1)
                 ELSE IF Feature(V).public THEN ByMode(0, 1, 0)
                 ELSE ByMode(0, 0, 0)
    IN  CASE n.hard = 0 -> mode0
          [] n.hard = 1 /\ n.regular = 1 -> ByMode(1, 0, 0) \o ByMode(2, 0, 0) \o mode0
          [] n.hard = 1 /\ n.regular = 0 -> ByMode(2, 0, 0) \o ByMode(1, 0, 0) \o mode0
          [] n.hard = 2 /\ n.regular = 2 -> ByMode(3, 0, 0) \o ByMode(4, 0, 0)
          [] n.hard = 2 /\ n.regular = 1 -> ByMode(4, 0, 0)
          [] OTHER -> ByMode(0, 1, 1) \o ByMode(1, 1, 1) \o ByMode(3, 1, 1)

\* recommand takes the first of the best, which is then worth less; reportSuccess
Best(records) ==
    CHOOSE i \in DOMAIN records : /\ \A j \in DOMAIN records : records[j].score <= records[i].score
                                  /\ \A j \in 1..(i - 1) : records[j].score < records[i].score
Recommended(records) == [records EXCEPT ![Best(records)].score = @ - 1]
Succeeded(records, mode, index) ==
    [i \in DOMAIN records |-> IF records[i].mode = mode /\ records[i].index = index
                              THEN [records[i] EXCEPT !.score = IF @ + 2 > 10 THEN 10 ELSE @ + 2] ELSE records[i]]

\* GetRecommandBehaviors: the role of the provider
Swaps(c, mode) ==
    \/ mode = 1 /\ ~Feature(c).hard
    \/ mode = 2 /\ Feature(c).hard
    \/ mode = 4 /\ ~Feature(c).regular
ProviderRole(c, mode, index) ==
    IF Swaps(c, mode) THEN Other(Behaviors(mode)[index]) ELSE Behaviors(mode)[index]

-----------------------------------------------------------------------------
Unused == [at |-> "unused"]
NoJob == [at |-> "none"]
NoAttempt == [at |-> "idle"]
Idle == 0
Off == -1

Registered(s) == sess[s].at \notin {"unused", "end"} /\ ~sess[s].done
Active(c) == server[c] = "up"

TypeOK ==
    /\ server \in [Controls -> {"up", "interrupted"}] /\ ends \in 0..MaxEnds
    /\ owner \in Providers \cup {Nil} /\ listed \in Providers \cup {Nil}
    /\ proxy \in [Providers -> {"checked", "run", "added", "closing", "closed"}]
    /\ taker \in [Providers -> {Off, Idle} \cup Sids]
    /\ \A s \in Sids : /\ sess[s].at \in {"unused", "offer", "notify", "answer", "hold", "end"}
                       /\ job[s].at \in {"none", "exchange", "hole", "listen", "proof", "tunnel", "end"}
    /\ client \in [Controls -> {"up", "closing", "closed"}]
    /\ att.at \in {"idle", "precheck", "exchange", "hole", "dial", "proof", "pace", "end"}
    /\ attempts \in 0..MaxAttempts /\ tunnel \in Sids \cup {Nil}
    /\ sockets \subseteq Attempts /\ conns \subseteq Sids /\ left \subseteq Attempts
    /\ caller \in [Callers -> {"first", "try", "failed", "end"}]
    /\ reports \subseteq Sids

\* RegisterControl has been called for every control, and RegisterProxy has found the name free.
Init ==
  \E i \in Instances :
    /\ server = [c \in Controls |-> "up"] /\ client = [c \in Controls |-> "up"] /\ ends = MaxEnds - i.ends
    /\ owner = Nil /\ listed = Nil /\ proxy = [c \in Providers |-> IF c \in i.providers THEN "checked" ELSE "closed"] /\ taker = [c \in Providers |-> Off]
    /\ sess = [s \in Sids |-> Unused] /\ job = [s \in Sids |-> NoJob] /\ scores = [c \in Providers |-> <<>>]
    /\ att = NoAttempt /\ attempts = MaxAttempts - i.attempts /\ tunnel = Nil /\ sockets = {} /\ conns = {} /\ left = {}
    /\ caller = [u \in Callers |-> IF u \notin i.callers THEN "end" ELSE IF u = Keeper THEN "first" ELSE "try"]
    /\ reports = {} /\ detects = {}

-----------------------------------------------------------------------------
(* Controls and the proxy on the server. *)

\* Whatever ends of its own accord: a control, a proxy, the visitor.
Closes == ends < MaxEnds /\ ends' = ends + 1

\* deletes the sessions that concern it and closes their doneCh
Done(concerned) ==
    sess' = [s \in Sids |-> IF Registered(s) /\ s \in concerned THEN [sess[s] EXCEPT !.done = TRUE] ELSE sess[s]]

\* interruptReadAndClose: CloseControl comes before anything else of the control ends.
CloseControl(c) ==
    /\ Active(c) /\ Closes
    /\ server' = [server EXCEPT ![c] = "interrupted"]
    /\ owner' = IF owner = c THEN Nil ELSE owner
    /\ Done({s \in Sids : Registered(s) /\ (c = V \/ sess[s].provider = c)})
    /\ UNCHANGED <<listed, proxy, taker, scores, client, job, visitorVars, netVars>>

\* RegisterProxy after Exist: two steps of the control's reader, which may find the control closed.
ListenClient(c) ==
    /\ proxy[c] = "checked"
    /\ IF Active(c) /\ owner = Nil
       THEN /\ owner' = c
            /\ taker' = [taker EXCEPT ![c] = Idle]
            /\ proxy' = [proxy EXCEPT ![c] = "run"]
       ELSE /\ proxy' = [proxy EXCEPT ![c] = "closed"]
            /\ UNCHANGED <<owner, taker>>
    /\ UNCHANGED <<ends, server, listed, sess, scores, client, job, visitorVars, netVars>>
ProxyAdded(c) ==
    /\ proxy[c] = "run" /\ listed = Nil
    /\ listed' = c
    /\ proxy' = [proxy EXCEPT ![c] = "added"]
    /\ UNCHANGED <<ends, server, owner, taker, sess, scores, client, job, visitorVars, netVars>>

\* XTCPProxy.Close when Add is refused, for CloseProxy, and when the control's worker ends;
\* CloseClient leaves the proxy of another owner alone.
Mut_Owns(c) == TRUE
Owns(c) == owner = c
CloseClient(c) ==
    /\ \/ proxy[c] = "run" /\ listed # Nil /\ UNCHANGED ends
       \/ proxy[c] = "added" /\ server[c] = "interrupted" /\ UNCHANGED ends
       \/ proxy[c] = "added" /\ Active(c) /\ Closes
    /\ proxy' = [proxy EXCEPT ![c] = "closing"]
    /\ IF Owns(c)
       THEN owner' = Nil /\ Done({s \in Sids : Registered(s) /\ sess[s].provider = c})
       ELSE UNCHANGED <<owner, sess>>
    /\ UNCHANGED <<server, listed, taker, scores, client, job, visitorVars, netVars>>
ProxyClosed(c) ==
    /\ proxy[c] = "closing"
    /\ proxy' = [proxy EXCEPT ![c] = "closed"]
    /\ listed' = IF listed = c THEN Nil ELSE listed
    /\ UNCHANGED <<ends, server, owner, taker, sess, scores, client, job, visitorVars, netVars>>

\* The goroutine of the proxy: an id is written to a work connection, if there is one, and the
\* provider reads it, prepares and tells the controller.
TakeSid(c, s) ==
    /\ taker[c] = Idle /\ sess[s].at = "offer" /\ sess[s].provider = c
    /\ taker' = [taker EXCEPT ![c] = s]
    /\ sess' = [sess EXCEPT ![s].at = "notify"]
    /\ UNCHANGED <<ends, server, owner, listed, proxy, scores, client, job, visitorVars, netVars>>

\* HandleClient; a message that is not believed changes nothing.
HandleClient(c, s) ==
    \/ /\ Active(c) /\ Registered(s) /\ ~sess[s].client /\ sess[s].provider = c /\ owner = c
       /\ sess' = [sess EXCEPT ![s].client = TRUE]
    \/ UNCHANGED sess
InWorkConn(c, s) == job' = [job EXCEPT ![s] = [at |-> "exchange", control |-> c]]
WriteSid(c) ==
    /\ taker[c] \in Sids
    /\ taker' = [taker EXCEPT ![c] = Idle]
    /\ \/ Active(c) /\ client[c] = "up" /\ InWorkConn(c, taker[c]) /\ HandleClient(c, taker[c])
       \/ UNCHANGED <<job, sess>>
    /\ UNCHANGED <<ends, server, owner, listed, proxy, scores, client, visitorVars, netVars>>
TakerEnds(c) ==
    /\ taker[c] = Idle /\ proxy[c] = "closed"
    /\ taker' = [taker EXCEPT ![c] = Off]
    /\ UNCHANGED <<ends, server, owner, listed, proxy, sess, scores, client, job, visitorVars, netVars>>

-----------------------------------------------------------------------------
(* The controller's handlers. *)

\* Every attempt and every job has an identity of its own; a manifest names the two of a session
\* (Encode, Decode), and each side looks for its own in it (CheckLocal).
NewIdentity(role, n) == <<role, n>>
Encode(s, control, provider, visitor) == [sid |-> s, control |-> control, provider |-> provider, visitor |-> visitor]
CheckLocal(m, role, id) == IF role = "provider" THEN m.provider = id ELSE m.visitor = id
Manifest(s) == Encode(s, sess[s].provider, NewIdentity("provider", s), NewIdentity("visitor", sess[s].attempt))
newNatHoleResponse(s, role) == [role |-> role, manifest |-> Manifest(s)]

\* HandleVisitor up to the release of the lock.
MayAdmit == Active(V) /\ owner # Nil
Admit(n) ==
    /\ MayAdmit
    /\ sess' = [sess EXCEPT ![n] = [at |-> "offer", provider |-> owner, attempt |-> n, done |-> FALSE,
                                    client |-> FALSE, plan |-> Nil, owed |-> {"visitor", "provider"}]]

\* HandleReport
HandleReport(s) ==
    /\ s \in reports /\ reports' = reports \ {s}
    /\ scores' = IF Active(job[s].control) /\ Registered(s)
                 THEN [scores EXCEPT ![sess[s].provider] = Succeeded(@, sess[s].plan.mode, sess[s].plan.index)]
                 ELSE scores
    /\ UNCHANGED <<ends, server, owner, listed, proxy, taker, sess, client, job, visitorVars, detects>>

\* HandleVisitor after the lock: the deferred removal ends it, whatever it waits for.
Ends(s) == sess' = [sess EXCEPT ![s].at = "end", ![s].done = TRUE]
Mut_SessionDone(s) == sess[s].at \in {"notify", "hold"} /\ sess[s].done
SessionDone(s) == sess[s].at \in {"offer", "notify", "hold"} /\ sess[s].done
HandlerCancelled(s) ==
    /\ SessionDone(s)
    /\ Ends(s)
    /\ UNCHANGED <<ends, server, owner, listed, proxy, taker, scores, client, job, visitorVars, netVars>>
HandlerTimesOut(s) ==
    /\ sess[s].at \in {"notify", "hold"}
    /\ Ends(s)
    /\ UNCHANGED <<ends, server, owner, listed, proxy, taker, scores, client, job, visitorVars, netVars>>
Analyze(s) ==
    LET c == sess[s].provider
        records == IF scores[c] = <<>> THEN NewRecords(c) ELSE scores[c]
        best == records[Best(records)]
    IN  /\ sess[s].at = "notify" /\ sess[s].client /\ ~sess[s].done
        /\ scores' = [scores EXCEPT ![c] = Recommended(records)]
        /\ sess' = [sess EXCEPT ![s].at = "answer",
                                ![s].plan = [mode |-> best.mode, index |-> best.index, role |-> ProviderRole(c, best.mode, best.index)]]
        /\ UNCHANGED <<ends, server, owner, listed, proxy, taker, client, job, visitorVars, netVars>>

\* Analyzer.Clean: what was not used for long
Clean(c) ==
    /\ scores[c] # <<>> /\ \A s \in Sids : sess[s].at \in {"unused", "end"}
    /\ scores' = [scores EXCEPT ![c] = <<>>]
    /\ UNCHANGED <<ends, server, owner, listed, proxy, taker, sess, client, job, visitorVars, netVars>>

-----------------------------------------------------------------------------
(* The hole: a receiver answers a request and is satisfied, a sender waits for the answer. *)

EncodeMessage(s, response) == [sid |-> s, response |-> response]
DecodeMessage(s) == {m \in detects : m.sid = s}
Searches(s, role) ==
    IF role = "sender" THEN detects' = detects \cup {EncodeMessage(s, FALSE)} ELSE UNCHANGED detects
Finds(s, role) ==
    \E m \in DecodeMessage(s) :
        IF role = "sender" THEN m.response /\ UNCHANGED detects
        ELSE ~m.response /\ detects' = detects \cup {EncodeMessage(s, TRUE)}

-----------------------------------------------------------------------------
(* The provider: InWorkConn and listenByQUIC. *)

Job(s, place) == job' = [job EXCEPT ![s].at = place]

\* Do, Dispatch: an answer is taken if its transaction is still waited for.
Do(waits, c) == Active(c) /\ waits
CheckProvider(m, s) == m.sid = s /\ m.control = job[s].control /\ CheckLocal(m, "provider", NewIdentity("provider", s))
JobAnswered(s, answer) ==
    IF Do(job[s].at = "exchange", sess[s].provider)
    THEN IF CheckProvider(answer.manifest, s)
         THEN /\ job' = [job EXCEPT ![s] = [at |-> "hole", control |-> @.control, role |-> answer.role, manifest |-> answer.manifest]]
              /\ Searches(s, answer.role)
         ELSE Job(s, "end") /\ UNCHANGED detects
    ELSE UNCHANGED <<job, detects>>
JobMakesHole(s) ==
    /\ job[s].at = "hole" /\ Finds(s, job[s].role)
    /\ Job(s, "listen") /\ reports' = reports \cup {s}
    /\ UNCHANGED <<ends, serverVars, client, visitorVars>>

\* A peer whose handshake or proof fails is dropped and another one may come; the proofs are
\* over the manifest and the keys of the connection.
Verify(m, proof) == m = proof
ExchangeProof(s) == s \in conns /\ Verify(job[s].manifest, att.manifest)
JobVerifies(s) ==
    /\ job[s].at = "proof" /\ ExchangeProof(s)
    /\ Job(s, "tunnel")
    /\ UNCHANGED <<ends, serverVars, client, visitorVars, netVars>>
JobRejects(s) ==
    /\ job[s].at = "proof"
    /\ Job(s, "listen")
    /\ UNCHANGED <<ends, serverVars, client, visitorVars, netVars>>

\* Deadlines, the end of the peer's connection and the closing of the proxy close everything.
JobEnds(s) ==
    /\ \/ job[s].at \in {"exchange", "hole", "listen"}
       \/ job[s].at = "tunnel" /\ s \notin conns
       \/ job[s].at \notin {"none", "end"} /\ client[job[s].control] = "closed"
    /\ Job(s, "end")
    /\ UNCHANGED <<ends, serverVars, client, visitorVars, netVars>>
JobStep(s) ==
    \/ JobMakesHole(s) \/ JobVerifies(s) \/ JobRejects(s) \/ JobEnds(s)

\* The provider's client closes its proxy or ends.
ProviderCloses(c) ==
    /\ client[c] = "up" /\ Closes
    /\ client' = [client EXCEPT ![c] = "closed"]
    /\ UNCHANGED <<serverVars, job, visitorVars, netVars>>

-----------------------------------------------------------------------------
(* The visitor: processTunnelStartEvents and makeNatHole. *)

At(place) == att.at = place
Goes(place) == att' = [att EXCEPT !.at = place]
Alive == client[V] = "up"

\* A failure closes the socket; the next attempt is not made too soon.
GivesUp == att' = [at |-> "pace"] /\ sockets' = IF "n" \in DOMAIN att THEN sockets \ {att.n} ELSE sockets

\* PreCheck asks whether there is the proxy, Prepare asks STUN servers and opens the socket;
\* then the controller is asked, whose checks may refuse.
PreCheck == MayAdmit
Prepare(n) == sockets' = sockets \cup {n}
MakeNatHole ==
    LET n == attempts + 1
    IN  /\ At("precheck")
        /\ \/ /\ PreCheck /\ attempts < MaxAttempts /\ attempts' = n
              /\ att' = [at |-> "exchange", n |-> n] /\ Prepare(n)
              /\ Admit(n) \/ UNCHANGED sess
           \/ att' = [at |-> "pace"] /\ UNCHANGED <<attempts, sockets, sess>>
        /\ UNCHANGED <<ends, server, owner, listed, proxy, taker, scores, client, job, tunnel, conns, left, caller, netVars>>

\* ExchangeInfo: an answer nobody waits for is dropped.
CheckVisitor(m, s) == m.sid = s /\ CheckLocal(m, "visitor", NewIdentity("visitor", att.n))
ExchangeInfo(s, answer) ==
    IF Do(At("exchange") /\ att.n = sess[s].attempt, V)
    THEN IF CheckVisitor(answer.manifest, s)
         THEN /\ att' = [at |-> "hole", n |-> att.n, role |-> answer.role, manifest |-> answer.manifest]
              /\ Searches(s, answer.role) /\ UNCHANGED sockets
         ELSE GivesUp /\ UNCHANGED detects
    ELSE UNCHANGED <<att, sockets, detects>>
MakeHole ==
    /\ At("hole") /\ Finds(att.manifest.sid, att.role)
    /\ Goes("dial")
    /\ UNCHANGED <<ends, serverVars, client, job, attempts, tunnel, sockets, conns, left, caller, reports>>

\* QUICTunnelSession.Init: both ends pin the certificate the manifest names.
PeerTLS(s) == CheckLocal(att.manifest, "provider", NewIdentity("provider", s)) /\ CheckLocal(job[s].manifest, "visitor", NewIdentity("visitor", att.n))
Dial(s) ==
    /\ At("dial") /\ job[s].at = "listen" /\ PeerTLS(s)
    /\ att' = [at |-> "proof", n |-> att.n, manifest |-> att.manifest, peer |-> s]
    /\ conns' = conns \cup {s}
    /\ Job(s, "proof")
    /\ UNCHANGED <<ends, serverVars, client, attempts, tunnel, sockets, left, caller, netVars>>
ExchangeFails ==
    /\ att.at \in {"exchange", "hole"}
    /\ GivesUp
    /\ UNCHANGED <<ends, serverVars, client, job, attempts, tunnel, conns, left, caller, netVars>>
InitFails ==
    /\ att.at \in {"dial", "proof"}
    /\ GivesUp
    /\ conns' = IF At("proof") THEN conns \ {att.peer} ELSE conns
    /\ UNCHANGED <<ends, serverVars, client, job, attempts, tunnel, left, caller, netVars>>

\* The proof of the provider has come; under mu, where Close may have come first.
InitDone ==
    /\ At("proof") /\ job[att.peer].at = "tunnel" /\ Alive
    /\ tunnel' = att.peer
    /\ left' = IF tunnel = Nil THEN left ELSE left \cup {sess[tunnel].attempt}
    /\ att' = [at |-> "pace"]
    /\ UNCHANGED <<ends, serverVars, client, job, attempts, sockets, conns, caller, netVars>>
Paced ==
    /\ At("pace") /\ att' = NoAttempt
    /\ UNCHANGED <<ends, serverVars, client, job, attempts, tunnel, sockets, conns, left, caller, netVars>>
LoopEnds ==
    /\ ~Alive /\ att.at \in {"idle", "pace"}
    /\ Goes("end")
    /\ UNCHANGED <<ends, serverVars, client, job, attempts, tunnel, sockets, conns, left, caller, netVars>>
AttemptStep ==
    \/ MakeNatHole \/ MakeHole \/ (\E s \in Sids : Dial(s))
    \/ ExchangeFails \/ InitFails \/ InitDone \/ Paced \/ LoopEnds

\* QUICTunnelSession.Close
CloseTunnel ==
    /\ tunnel' = Nil
    /\ conns' = conns \ {tunnel}
    /\ sockets' = IF tunnel = Nil THEN sockets ELSE sockets \ {sess[tunnel].attempt}

\* XTCPVisitor.Close: cancel, then the tunnel is closed.
VisitorCancels ==
    /\ Alive /\ Closes
    /\ client' = [client EXCEPT ![V] = "closing"]
    /\ UNCHANGED <<serverVars, job, visitorVars, netVars>>
VisitorCloses ==
    /\ client[V] = "closing"
    /\ client' = [client EXCEPT ![V] = "closed"]
    /\ CloseTunnel
    /\ UNCHANGED <<ends, serverVars, job, att, attempts, left, caller, netVars>>

-----------------------------------------------------------------------------
(* Whoever needs the tunnel: handleConn of a user, and keepTunnelOpenWorker. *)

Calls(u, place) == caller' = [caller EXCEPT ![u] = place]
\* The keeper's first event waits until it is taken, the others are dropped unless they are.
KeeperFirst ==
    /\ caller[Keeper] = "first" /\ Alive /\ At("idle")
    /\ Calls(Keeper, "try") /\ Goes("precheck")
    /\ UNCHANGED <<ends, serverVars, client, job, attempts, tunnel, sockets, conns, left, netVars>>

\* getTunnelConn; a user is then joined to the stream.
OpenConn(u) ==
    /\ caller[u] = "try"
    /\ IF tunnel # Nil /\ job[tunnel].at = "tunnel" THEN u \in Users /\ Calls(u, "end") ELSE Calls(u, "failed")
    /\ UNCHANGED <<ends, serverVars, client, job, att, attempts, tunnel, sockets, conns, left, netVars>>
Kick(u) ==
    /\ caller[u] = "failed"
    /\ Calls(u, "try") /\ CloseTunnel
    /\ IF At("idle") THEN Goes("precheck") ELSE UNCHANGED att
    /\ UNCHANGED <<ends, serverVars, client, job, attempts, left, netVars>>

\* openTunnel retries until its deadline, the keeper as long as there is a visitor.
CallEnds(u) ==
    /\ caller[u] = "try" /\ (u \in Users \/ ~Alive)
    /\ Calls(u, "end")
    /\ UNCHANGED <<ends, serverVars, client, job, att, attempts, tunnel, sockets, conns, left, netVars>>

CallerStep(u) == OpenConn(u) \/ Kick(u) \/ CallEnds(u)

-----------------------------------------------------------------------------
\* The two answers are sent by goroutines of their own, the sender's a second later.
Sent(s, to) == sess' = [sess EXCEPT ![s].owed = @ \ {to}, ![s].at = IF sess[s].owed = {to} THEN "hold" ELSE @]
AnswerVisitor(s) ==
    /\ sess[s].at = "answer" /\ "visitor" \in sess[s].owed
    /\ Sent(s, "visitor") /\ ExchangeInfo(s, newNatHoleResponse(s, Other(sess[s].plan.role)))
    /\ UNCHANGED <<ends, server, owner, listed, proxy, taker, scores, client, job, attempts, tunnel, conns, left, caller, reports>>
AnswerProvider(s) ==
    /\ sess[s].at = "answer" /\ "provider" \in sess[s].owed
    /\ Sent(s, "provider") /\ JobAnswered(s, newNatHoleResponse(s, sess[s].plan.role))
    /\ UNCHANGED <<ends, server, owner, listed, proxy, taker, scores, client, visitorVars, reports>>

-----------------------------------------------------------------------------
ReaderStep(c) ==
    \/ ListenClient(c) \/ ProxyAdded(c) \/ ProxyClosed(c)
    \/ CloseClient(c) /\ (proxy[c] = "run" \/ server[c] = "interrupted")
TakerStep(c) == WriteSid(c) \/ TakerEnds(c)
HandlerStep(s) ==
    \/ \E c \in Providers : TakeSid(c, s)
    \/ HandlerCancelled(s) \/ HandlerTimesOut(s) \/ Analyze(s)
    \/ AnswerVisitor(s) \/ AnswerProvider(s)

Next ==
    \/ \E c \in Controls : CloseControl(c)
    \/ \E c \in Providers : CloseClient(c) \/ ReaderStep(c) \/ TakerStep(c) \/ ProviderCloses(c) \/ Clean(c)
    \/ \E s \in Sids : HandlerStep(s) \/ HandleReport(s) \/ JobStep(s)
    \/ AttemptStep \/ VisitorCancels \/ VisitorCloses
    \/ KeeperFirst \/ \E u \in Callers : CallerStep(u)

Fairness ==
    /\ \A c \in Providers : WF_vars(ReaderStep(c)) /\ WF_vars(TakerStep(c))
    /\ \A s \in Sids : WF_vars(HandlerStep(s)) /\ WF_vars(JobStep(s))
    /\ WF_vars(AttemptStep) /\ WF_vars(VisitorCloses)
    /\ \A u \in Callers : WF_vars(CallerStep(u))

Spec == Init /\ [][Next]_vars /\ Fairness

-----------------------------------------------------------------------------
(* Properties. *)

\* A rendezvous joins the right two: a session the controller can still be asked about belongs
\* to controls that are up and to the owner of the proxy; the late Close of a proxy whose control
\* was replaced never takes the proxy from its new owner (CloseClient); a provider proves the
\* binding only to the visitor of its own session, with the manifest both were sent; the side
\* whose NAT decides plays the role that GetRecommandBehaviors promises it; and every socket the
\* visitor has open is that of its attempt, of its tunnel, or of a tunnel that Init replaced.
RendezvousSound ==
    /\ \A s \in Sids : Registered(s) => /\ Active(V) /\ Active(sess[s].provider)
                                       /\ owner = sess[s].provider
    /\ \A c \in Providers : proxy[c] \in {"run", "added"} /\ Active(c) => owner = c
    /\ \A s \in Sids : job[s].at \in {"proof", "tunnel"} /\ s \in conns =>
           /\ sess[s].client /\ job[s].control = sess[s].provider
           /\ At("proof") /\ att.peer = s => att.manifest = job[s].manifest
    /\ \A s \in Sids : sess[s].at \in {"answer", "hold"} =>
           LET c == sess[s].provider
               sender == IF sess[s].plan.role = "sender" THEN c ELSE V
               receiver == IF sender = c THEN V ELSE c
           IN  CASE sess[s].plan.mode = 1 /\ FeatureCount(c).hard = 1 -> Feature(sender).hard
                 [] sess[s].plan.mode = 2 -> Feature(receiver).hard
                 [] sess[s].plan.mode = 4 -> Feature(sender).regular
                 [] OTHER -> TRUE
    /\ \A n \in sockets : \/ "n" \in DOMAIN att /\ att.n = n
                          \/ tunnel # Nil /\ sess[tunnel].attempt = n
                          \/ n \in left

\* Nobody waits for ever: the handler of a visitor's message ends even when the provider or the
\* visitor goes away before the id is taken, so does the provider's work connection unless it is
\* a tunnel whose peer is there, and so does every attempt of the visitor.
RendezvousEnds ==
    /\ \A s \in Sids : /\ []<>(sess[s].at \in {"unused", "end"})
                       /\ []<>(job[s].at \in {"none", "end"} \/ (job[s].at = "tunnel" /\ s \in conns))
    /\ []<>(att.at \in {"idle", "end"})
=============================================================================
