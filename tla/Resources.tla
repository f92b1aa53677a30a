------------------------------ MODULE Resources ------------------------------
(***************************************************************************)
(* What the proxies of the Go peer's server share (peer/frp/server/proxy,   *)
(* ports, group, visitor and pkg/util/vhost): proxy names, ports, routes,   *)
(* load balancing groups and visitor listeners.  A proxy is registered by   *)
(* the handler of its control, serves users and is closed; several controls *)
(* do so at once.  Each access under a manager's, group's or router's lock  *)
(* is one step.  A proxy here is one registration: a client that registers  *)
(* again is another proxy with the same name.                               *)
(***************************************************************************)
EXTENDS Naturals, Sequences, FiniteSets, Routing

CONSTANTS
    Proxies,        \* registrations
    Names,          \* proxy names
    TcpPorts,       \* allowed ports of TCPPortManager
    UdpPorts,       \* allowed ports of UDPPortManager
    Routes,         \* the routes of all three routers
    Queries,        \* the requests of users
    Query,          \* their routers, hosts, paths, users and logins
    Groups,         \* load balancing groups, of all four group controllers
    Objects,        \* group objects
    Setups,         \* the configurations the registrations may have
    AnyPort         \* RemotePort = 0

ASSUME ResourcesAssumption ==
    /\ TcpPorts \cap UdpPorts = {}
    /\ Nil \notin Proxies \cup Names \cup TcpPorts \cup UdpPorts \cup Routes \cup Groups \cup Objects
    /\ Setups \subseteq [Proxies -> [name : Names,
                                     kind : {"tcp", "udp", "http", "https", "tcpmux", "stcp", "sudp", "none"},
                                     group : Groups \cup {Nil}, key : Nat,
                                     port : TcpPorts \cup UdpPorts \cup {AnyPort, Nil}, routes : Seq(Routes),
                                     login : {"", "secret"}]]

VARIABLES
    conf,           \* the configuration of each proxy
    place,          \* where the registration, the service or the closing of a proxy is
    held,           \* routes a proxy has registered: closeFuncs, listeners
    port,           \* realBindPort
    grp,            \* the group object a proxy has looked up or is a member of
    pxys,           \* proxy.Manager.pxys
    used,           \* Manager.usedPorts: the name that acquired the port; free if Nil
    reserved,       \* Manager.reservedPorts
    bound,          \* who listens on a port: a proxy or a group
    routers,        \* the routers: whose route it is
    listeners,      \* visitor.Manager.listeners
    registry,       \* groupRegistry.groups
    groups,         \* the group objects
    udp,            \* the work connection and the goroutines of a udp proxy
    user            \* a user's connection

confVars == <<conf, held, port>>
portVars == <<used, reserved, bound>>
groupVars == <<registry, groups, grp>>
tableVars == <<routers, listeners>>
vars == <<confVars, place, pxys, portVars, groupVars, tableVars, udp, user>>

Ports == TcpPorts \cup UdpPorts
Http == {"http", "https", "tcpmux"}
Visited == {"stcp", "sudp"}
Name(p) == conf[p].name
Kind(p) == conf[p].kind
At(p, l) == place[p] = l
Goes(p, l) == place' = [place EXCEPT ![p] = l]

-----------------------------------------------------------------------------
(* Ports. *)

Manager(p) == IF Kind(p) = "udp" THEN "udp" ELSE "tcp"
PortsOf(p) == IF Kind(p) = "udp" THEN UdpPorts ELSE TcpPorts

\* The probe binds the port and closes it again.
isPortAvailable(k) == bound[k] = Nil

\* A name that wants any port gets the one it had before, if that can be bound, or
\* one of the free ones.
Candidates(p) ==
    LET last == reserved[Manager(p)][Name(p)]
        free == {k \in PortsOf(p) : used[k] = Nil /\ isPortAvailable(k)}
    IN  IF conf[p].port # AnyPort THEN free \cap {conf[p].port}
        ELSE IF last # Nil /\ isPortAvailable(last) THEN {last} ELSE free

Acquire(p, k) ==
    /\ k \in Candidates(p)
    /\ used' = [used EXCEPT ![k] = Name(p)]
    /\ reserved' = [reserved EXCEPT ![Manager(p)][Name(p)] = k]

Release(k) == used' = [used EXCEPT ![k] = Nil]

\* The reservation of a port that its name has released is dropped after a day.
cleanReservedPorts ==
    \E m \in {"tcp", "udp"}, n \in Names :
        /\ reserved[m][n] # Nil /\ used[reserved[m][n]] # n
        /\ reserved' = [reserved EXCEPT ![m][n] = Nil]
        /\ UNCHANGED <<confVars, place, pxys, used, bound, groupVars, tableVars, udp, user>>

-----------------------------------------------------------------------------
(* Registration: the name is looked up, the proxy runs, the name is added. *)

CheckName(p) ==
    /\ At(p, "new")
    /\ Goes(p, IF pxys[Name(p)] = Nil THEN "run" ELSE "gone")
    /\ UNCHANGED <<confVars, pxys, portVars, groupVars, tableVars, udp, user>>

MayAdd(p) == pxys[Name(p)] = Nil

Add(p) ==
    /\ At(p, "add") /\ MayAdd(p)
    /\ pxys' = [pxys EXCEPT ![Name(p)] = p]
    /\ Goes(p, "up")
    /\ UNCHANGED <<confVars, portVars, groupVars, tableVars, udp, user>>

AddFails(p) ==
    /\ At(p, "add") /\ pxys[Name(p)] # Nil
    /\ Goes(p, "close")
    /\ UNCHANGED <<confVars, pxys, portVars, groupVars, tableVars, udp, user>>

CloseProxy(p) ==
    /\ At(p, "up")
    /\ Goes(p, "close")
    /\ UNCHANGED <<confVars, pxys, portVars, groupVars, tableVars, udp, user>>

\* The control forgets the name of a proxy that was added.
DelProxy(p) ==
    /\ At(p, "closed")
    /\ pxys' = [pxys EXCEPT ![Name(p)] = IF @ = p THEN Nil ELSE @]
    /\ Goes(p, "gone")
    /\ UNCHANGED <<confVars, portVars, groupVars, tableVars, udp, user>>

-----------------------------------------------------------------------------
(* TCP and UDP proxies with a port of their own. *)

OwnPort(p) == Kind(p) = "udp" \/ (Kind(p) = "tcp" /\ conf[p].group = Nil)

AcquirePort(p) ==
    /\ At(p, "run") /\ OwnPort(p)
    /\ \E k \in Ports : Acquire(p, k) /\ port' = [port EXCEPT ![p] = k]
    /\ Goes(p, "bind")
    /\ UNCHANGED <<conf, held, pxys, bound, groupVars, tableVars, udp, user>>

\* No port is left, or another program has it.
AcquireFails(p) ==
    /\ At(p, "run") /\ OwnPort(p)
    /\ Goes(p, "gone")
    /\ UNCHANGED <<confVars, pxys, portVars, groupVars, tableVars, udp, user>>

Running ==
    [loop |-> "get", conn |-> "none", late |-> FALSE, reader |-> "none", forward |-> "on", isClosed |-> FALSE]

Bind(p) ==
    /\ At(p, "bind") /\ isPortAvailable(port[p])
    /\ bound' = [bound EXCEPT ![port[p]] = p]
    /\ udp' = IF Kind(p) = "udp" THEN [udp EXCEPT ![p] = Running] ELSE udp
    /\ Goes(p, "add")
    /\ UNCHANGED <<confVars, pxys, used, reserved, groupVars, tableVars, user>>

\* Mutation: a failed bind keeps the port.
Mut_BindFails(p) ==
    /\ At(p, "bind")
    /\ Goes(p, "gone")
    /\ UNCHANGED <<confVars, pxys, portVars, groupVars, tableVars, udp, user>>
BindFails(p) ==
    /\ At(p, "bind")
    /\ Release(port[p])
    /\ Goes(p, "gone")
    /\ UNCHANGED <<confVars, pxys, reserved, bound, groupVars, tableVars, udp, user>>

CloseTCP(p) ==
    /\ At(p, "close") /\ OwnPort(p) /\ Kind(p) = "tcp"
    /\ bound' = [bound EXCEPT ![port[p]] = Nil]
    /\ Goes(p, "release")
    /\ UNCHANGED <<confVars, pxys, used, reserved, groupVars, tableVars, udp, user>>

\* A closed udp connection belongs to the proxy that closed it no more.
Unbound(p) == [bound EXCEPT ![port[p]] = IF @ = p THEN Nil ELSE @]
Shut(p) == [udp EXCEPT ![p].isClosed = TRUE, ![p].conn = "none"]

CloseUDP(p) ==
    /\ At(p, "close") /\ Kind(p) = "udp"
    /\ udp[p].forward # "release"
    /\ IF udp[p].isClosed THEN UNCHANGED <<bound, udp>> ELSE bound' = Unbound(p) /\ udp' = Shut(p)
    /\ Goes(p, "release")
    /\ UNCHANGED <<confVars, pxys, used, reserved, groupVars, tableVars, user>>

ReleasePort(p) ==
    /\ At(p, "release")
    /\ Release(port[p])
    /\ Goes(p, "closed")
    /\ UNCHANGED <<confVars, pxys, reserved, bound, groupVars, tableVars, udp, user>>

-----------------------------------------------------------------------------
(* Routes of HTTP, HTTPS and TCPMUX proxies: one for each domain and location, *)
(* all of them or none.                                                        *)

NextRoute(p) == conf[p].routes[Len(held[p]) + 1]
Registered(p) ==
    /\ held' = [held EXCEPT ![p] = Append(@, NextRoute(p))]
    /\ Goes(p, IF Len(held[p]) + 1 = Len(conf[p].routes) THEN "add" ELSE "run")

Direct(p, kinds) == At(p, "run") /\ conf[p].group = Nil /\ Kind(p) \in kinds

AddRoute(p) ==
    /\ routers[NextRoute(p)] = Nil
    /\ routers' = [routers EXCEPT ![NextRoute(p)] = p]
    /\ Registered(p)
    /\ UNCHANGED <<conf, port, pxys, portVars, groupVars, listeners, udp, user>>

RunHTTP(p) == Direct(p, {"http"}) /\ AddRoute(p)
RunHTTPS(p) == Direct(p, {"https"}) /\ AddRoute(p)
RunTCPMux(p) == Direct(p, {"tcpmux"}) /\ AddRoute(p)

\* A route of another proxy: the deferred Close gives up the ones before it.
RouteConflict(p) ==
    /\ Direct(p, Http)
    /\ routers[NextRoute(p)] # Nil
    /\ Goes(p, "close")
    /\ UNCHANGED <<confVars, pxys, portVars, groupVars, tableVars, udp, user>>

CloseRoute(p) ==
    /\ At(p, "close") /\ Kind(p) \in Http /\ conf[p].group = Nil /\ held[p] # <<>>
    /\ routers' = [routers EXCEPT ![Head(held[p])] = Nil]
    /\ held' = [held EXCEPT ![p] = Tail(@)]
    /\ UNCHANGED <<conf, port, place, pxys, portVars, groupVars, listeners, udp, user>>

RoutesClosed(p) ==
    /\ At(p, "close") /\ Kind(p) \in Http /\ held[p] = <<>>
    /\ Goes(p, "closed")
    /\ UNCHANGED <<confVars, pxys, portVars, groupVars, tableVars, udp, user>>

-----------------------------------------------------------------------------
(* Groups: an object is looked up or created, then locked; it may have been    *)
(* removed in between, and the lookup is repeated.                             *)

NewGroup == [members |-> {}, key |-> Nil, param |-> Nil, port |-> Nil, login |-> "", lock |-> Nil]
Unused(o) ==
    /\ \A g \in Groups : registry[g] # o
    /\ \A p \in Proxies : grp[p] # o
    /\ user.at # o

GetGroup(p) ==
    /\ At(p, "run") /\ conf[p].group # Nil
    /\ LET g == conf[p].group
           o == IF registry[g] # Nil THEN registry[g] ELSE CHOOSE f \in Objects : Unused(f)
       IN  /\ grp' = [grp EXCEPT ![p] = o]
           /\ registry' = [registry EXCEPT ![g] = o]
           /\ groups' = IF registry[g] # Nil THEN groups ELSE [groups EXCEPT ![o] = NewGroup]
    /\ Goes(p, "join")
    /\ UNCHANGED <<confVars, pxys, portVars, tableVars, udp, user>>

Group(p) == groups[grp[p]]
\* Mutation: the object is used without asking whether it is still registered.
Mut_isCurrent(p) == TRUE
isCurrent(p) == registry[conf[p].group] = grp[p]
Param(p) == IF Kind(p) = "tcp" THEN conf[p].port ELSE NextRoute(p)
Joining(p) == At(p, "join") /\ Group(p).lock = Nil

JoinStale(p) ==
    /\ Joining(p) /\ ~isCurrent(p)
    /\ Goes(p, "run")
    /\ grp' = [grp EXCEPT ![p] = Nil]
    /\ UNCHANGED <<confVars, pxys, portVars, registry, groups, tableVars, udp, user>>

\* Whose parameters, for TCPMUX whose login and for HTTP whose name fit the members
\* that are there.
Fits(p) ==
    /\ Group(p).param = Param(p) /\ Group(p).key = conf[p].key
    /\ Kind(p) = "tcpmux" => Group(p).login = conf[p].login
    /\ Kind(p) = "http" => \A m \in Group(p).members : Name(m) # Name(p)

Joined(p) == IF Kind(p) = "tcp" THEN Goes(p, "add") /\ UNCHANGED held ELSE Registered(p)

JoinNext(p) ==
    /\ Joining(p) /\ isCurrent(p) /\ Group(p).members # {} /\ Fits(p)
    /\ groups' = [groups EXCEPT ![grp[p]].members = @ \cup {p}]
    /\ port' = [port EXCEPT ![p] = Group(p).port]
    /\ Joined(p)
    /\ UNCHANGED <<conf, pxys, portVars, registry, grp, tableVars, udp, user>>

\* A group that could not be started stays in the registry without members.
JoinRefused(p) ==
    /\ Joining(p) /\ isCurrent(p)
    /\ \/ Group(p).members # {} /\ ~Fits(p)
       \/ Group(p).members = {} /\ Kind(p) \in Http /\ routers[NextRoute(p)] # Nil
       \/ Group(p).members = {} /\ Kind(p) = "tcp"
    /\ Goes(p, IF Kind(p) = "tcp" THEN "gone" ELSE "close")
    /\ grp' = [grp EXCEPT ![p] = IF held[p] = <<>> THEN Nil ELSE @]
    /\ UNCHANGED <<confVars, pxys, portVars, registry, groups, tableVars, udp, user>>

\* The first member of an HTTP, HTTPS or TCPMUX group registers the route.
JoinFirst(p) ==
    /\ Joining(p) /\ isCurrent(p) /\ Group(p).members = {} /\ Kind(p) \in Http
    /\ routers[NextRoute(p)] = Nil
    /\ routers' = [routers EXCEPT ![NextRoute(p)] = grp[p]]
    /\ groups' = [groups EXCEPT ![grp[p]] =
                    [NewGroup EXCEPT !.members = {p}, !.key = conf[p].key, !.param = NextRoute(p),
                               !.login = conf[p].login]]
    /\ Registered(p)
    /\ UNCHANGED <<conf, port, pxys, portVars, registry, grp, listeners, udp, user>>

\* The first member of a TCP group acquires the port and binds it under the lock.
JoinAcquires(p) ==
    /\ Joining(p) /\ isCurrent(p) /\ Group(p).members = {} /\ Kind(p) = "tcp"
    /\ \E k \in Ports : Acquire(p, k) /\ port' = [port EXCEPT ![p] = k]
    /\ groups' = [groups EXCEPT ![grp[p]].lock = p]
    /\ Goes(p, "joinbind")
    /\ UNCHANGED <<conf, held, pxys, bound, registry, grp, tableVars, udp, user>>

JoinBinds(p) ==
    /\ At(p, "joinbind") /\ isPortAvailable(port[p])
    /\ bound' = [bound EXCEPT ![port[p]] = grp[p]]
    /\ groups' = [groups EXCEPT ![grp[p]] =
                    [NewGroup EXCEPT !.members = {p}, !.key = conf[p].key, !.param = conf[p].port, !.port = port[p]]]
    /\ Goes(p, "add")
    /\ UNCHANGED <<confVars, pxys, used, reserved, registry, grp, tableVars, udp, user>>

JoinBindFails(p) ==
    /\ At(p, "joinbind")
    /\ Release(port[p])
    /\ groups' = [groups EXCEPT ![grp[p]].lock = Nil]
    /\ grp' = [grp EXCEPT ![p] = Nil]
    /\ Goes(p, "gone")
    /\ UNCHANGED <<confVars, pxys, reserved, bound, registry, tableVars, udp, user>>

\* HTTP looks the group up again; a listener keeps its own.
Mine(p) == IF Kind(p) = "http" THEN registry[conf[p].group] ELSE grp[p]
IsLast(p) == groups[Mine(p)].members \subseteq {p}
Leaving(p) == At(p, "close") /\ conf[p].group # Nil /\ groups[Mine(p)].lock = Nil

LeaveGroup(p) ==
    /\ held[p] # <<>> /\ Leaving(p)
    /\ groups' = [groups EXCEPT ![Mine(p)].members = @ \ {p}]
    /\ IF IsLast(p)
       THEN /\ routers' = [routers EXCEPT ![groups[Mine(p)].param] = Nil]
            /\ registry' = [registry EXCEPT ![conf[p].group] = IF @ = Mine(p) THEN Nil ELSE @]
       ELSE UNCHANGED <<routers, registry>>
    /\ held' = [held EXCEPT ![p] = Tail(@)]
    /\ grp' = [grp EXCEPT ![p] = Nil]
    /\ UNCHANGED <<conf, port, place, pxys, portVars, listeners, udp, user>>

LeaveTCPGroup(p) ==
    /\ Kind(p) = "tcp" /\ Leaving(p)
    /\ groups' = [groups EXCEPT ![grp[p]].members = @ \ {p}, ![grp[p]].lock = IF IsLast(p) THEN p ELSE Nil]
    /\ bound' = IF IsLast(p) THEN [bound EXCEPT ![Group(p).port] = Nil] ELSE bound
    /\ Goes(p, IF IsLast(p) THEN "cleanup" ELSE "closed")
    /\ grp' = IF IsLast(p) THEN grp ELSE [grp EXCEPT ![p] = Nil]
    /\ UNCHANGED <<confVars, pxys, used, reserved, registry, tableVars, udp, user>>

CleanupTCPGroup(p) ==
    /\ At(p, "cleanup")
    /\ Release(Group(p).port)
    /\ registry' = [registry EXCEPT ![conf[p].group] = IF @ = grp[p] THEN Nil ELSE @]
    /\ groups' = [groups EXCEPT ![grp[p]].lock = Nil]
    /\ grp' = [grp EXCEPT ![p] = Nil]
    /\ Goes(p, "closed")
    /\ UNCHANGED <<confVars, pxys, reserved, bound, tableVars, udp, user>>

-----------------------------------------------------------------------------
(* Listeners for visitors. *)

Listen(p) == listeners' = IF listeners[Name(p)] = Nil THEN [listeners EXCEPT ![Name(p)] = p] ELSE listeners
startVisitorListener(p) ==
    /\ At(p, "run") /\ Listen(p)
    /\ Goes(p, IF listeners[Name(p)] = Nil THEN "add" ELSE "gone")
    /\ UNCHANGED <<confVars, pxys, portVars, groupVars, routers, udp, user>>
RunSTCP(p) == Kind(p) = "stcp" /\ startVisitorListener(p)
RunSUDP(p) == Kind(p) = "sudp" /\ startVisitorListener(p)

\* The listener is closed first; the manager forgets it by its name.
CloseInternal(p) ==
    /\ At(p, "close") /\ Kind(p) \in Visited
    /\ Goes(p, "unlist")
    /\ UNCHANGED <<confVars, pxys, portVars, groupVars, tableVars, udp, user>>

CloseListener(p) ==
    /\ At(p, "unlist")
    /\ listeners' = [listeners EXCEPT ![Name(p)] = Nil]
    /\ Goes(p, "closed")
    /\ UNCHANGED <<confVars, pxys, portVars, groupVars, routers, udp, user>>

-----------------------------------------------------------------------------
(* The goroutines of a UDP proxy: one holds a work connection at a time, one   *)
(* reads from it, one forwards what users send and closes the proxy at its end.*)

UdpStep(p, u) ==
    /\ udp' = [udp EXCEPT ![p] = u]
    /\ UNCHANGED <<confVars, place, pxys, portVars, groupVars, tableVars, user>>

\* The connection may come late, when the proxy has been closed.  It is "open" while
\* its client sends a Ping at least every sixty seconds, and "dead" when the client has
\* fallen silent or left, or a write to it failed and the sender closed it.
UdpGetsWorkConn(p) ==
    /\ udp[p].loop = "get"
    /\ UdpStep(p, [udp[p] EXCEPT !.loop = "wait", !.conn = "open", !.late = udp[p].isClosed, !.reader = "read"])

UdpClientLeaves(p) ==
    /\ udp[p].conn = "open"
    /\ UdpStep(p, [udp[p] EXCEPT !.conn = "dead"])

UdpGivesUp(p) ==
    /\ udp[p].loop = "get" /\ udp[p].isClosed
    /\ UdpStep(p, [udp[p] EXCEPT !.loop = "off"])

\* A read ends with an error: the client or the proxy closed the connection, or
\* nothing came for sixty seconds.  A Ping starts the sixty seconds anew.
UdpReadFails(p) ==
    /\ udp[p].reader = "read" /\ udp[p].conn # "open"
    /\ UdpStep(p, [udp[p] EXCEPT !.reader = "notify", !.conn = "none"])

UdpNotified(p) ==
    /\ udp[p].loop = "wait" /\ udp[p].reader = "notify" /\ ~udp[p].isClosed
    /\ UdpStep(p, [udp[p] EXCEPT !.loop = "get", !.reader = "none"])

UdpLoopEnds(p) ==
    /\ udp[p].loop = "wait" /\ udp[p].isClosed
    /\ UdpStep(p, [udp[p] EXCEPT !.loop = "off"])

\* checkCloseCh is closed: there is nobody to notify.
UdpReaderEnds(p) ==
    /\ udp[p].isClosed /\ udp[p].reader = "notify"
    /\ UdpStep(p, [udp[p] EXCEPT !.reader = "none"])

\* readCh is closed, which a reader learns only from a packet.
UdpPacketRefused(p) ==
    /\ udp[p].isClosed /\ udp[p].reader = "read" /\ udp[p].conn = "open"
    /\ UdpStep(p, [udp[p] EXCEPT !.reader = "none", !.conn = "none"])

\* Reading from users fails, most often because the proxy was closed; the
\* forwarder then closes it once more and releases the port once more.
UdpForwardEnds(p) ==
    /\ udp[p].forward = "on" /\ ~At(p, "release")
    /\ udp' = [(IF udp[p].isClosed THEN udp ELSE Shut(p)) EXCEPT ![p].forward = "release"]
    /\ bound' = IF udp[p].isClosed THEN bound ELSE Unbound(p)
    /\ UNCHANGED <<confVars, place, pxys, used, reserved, groupVars, tableVars, user>>

UdpReleases(p) ==
    /\ udp[p].forward = "release"
    /\ Release(port[p])
    /\ udp' = [udp EXCEPT ![p].forward = "off"]
    /\ UNCHANGED <<confVars, place, pxys, reserved, bound, groupVars, tableVars, user>>

-----------------------------------------------------------------------------
(* A user's connection, from the listener to a work connection. *)

NoUser == [st |-> "none", at |-> Nil, by |-> Nil, endpoint |-> Nil]
UserStep(u) ==
    /\ user' = u
    /\ UNCHANGED <<confVars, place, pxys, portVars, groupVars, tableVars, udp>>
UserAt(st) == user.st = st
UserGoes(st) == UserStep([user EXCEPT !.st = st])
TakenBy(p) == UserStep([user EXCEPT !.st = "taken", !.at = p])
UserLost(st) == UserStep([NoUser EXCEPT !.st = st])

\* The accept loops of a proxy start when all its listeners exist.
Serves(p) == place[p] \in {"add", "up", "close"}

\* What users ask for: of routers that have no proxy they get nothing.
Asked == {q \in Queries : \E p \in Proxies : Kind(p) = Query[q].via}

\* getByRoute, tabulated for every set of routes that a router may hold.
Router(via) == {x \in Routes : Pattern[x].via = via}
Lookup ==
    UNION {{[q |-> q, taken |-> R, route |-> getByRoute(R, Query[q])] : R \in SUBSET Router(Query[q].via)} : q \in Queries}
Taken(via) == {x \in Router(via) : routers[x] # Nil}
Found(q) == (CHOOSE l \in Lookup : l.q = q /\ l.taken = Taken(Query[q].via)).route

\* A group asks for the login of its first member; HTTPS asks for none.  A user who is
\* refused, for an unknown host or a wrong login, changes nothing.
LoginOf(owner) == IF owner \in Objects THEN groups[owner].login ELSE conf[owner].login
checkAuth(q) == Found(q) # Nil => LoginOf(routers[Found(q)]) \in {"", Query[q].login}

\* By host name through a muxer, to the listener of the route.  A TLS hello names the
\* host only, a CONNECT request the user too.
GetHTTPSHostname(q) == Query[q].via = "https" /\ Query[q].path = <<>> /\ Query[q].httpUser = ""
getHostFromHTTPConnect(q) == Query[q].via = "tcpmux" /\ Query[q].path = <<>>
MuxFinds ==
    /\ UserAt("none")
    /\ \E q \in Asked : /\ GetHTTPSHostname(q) \/ getHostFromHTTPConnect(q)
                        /\ Found(q) # Nil /\ checkAuth(q)
                        /\ UserStep([NoUser EXCEPT !.st = "mux", !.at = routers[Found(q)], !.by = Found(q)])

MuxDelivers ==
    /\ UserAt("mux") /\ routers[user.by] = user.at
    /\ \/ user.at \in Proxies /\ Serves(user.at) /\ TakenBy(user.at)
       \/ user.at \in Objects /\ UserGoes("shared")

\* The listener was closed after the lookup: "ignore this request".
MuxIgnores ==
    /\ UserAt("mux") /\ routers[user.by] # user.at
    /\ UserLost("ignored")

\* By port, to the listener of a proxy or to the worker of a group.
Dials ==
    /\ UserAt("none")
    /\ \E k \in TcpPorts : bound[k] # Nil /\ UserStep([NoUser EXCEPT !.st = "backlog", !.at = bound[k], !.by = k])

Accepts ==
    /\ UserAt("backlog") /\ bound[user.by] = user.at
    /\ \/ user.at \in Proxies /\ Serves(user.at) /\ TakenBy(user.at)
       \/ user.at \in Objects /\ UserGoes("shared")

BacklogDropped ==
    /\ UserAt("backlog") /\ bound[user.by] # user.at
    /\ UserLost("closed")

\* The worker of a group hands the connection to whichever member accepts.
MemberAccepts ==
    /\ UserAt("shared")
    /\ \E m \in groups[user.at].members : Serves(m) /\ TakenBy(m)

\* The last member has closed acceptCh under the worker.
\* Mutation: the worker goes on to wait for a member.
Mut_WorkerCloses == FALSE
WorkerCloses ==
    /\ UserAt("shared") /\ groups[user.at].members = {}
    /\ UserLost("closed")

\* A visitor, through the queue of the proxy's internal listener, which is emptied
\* even when it has been closed; a full or closed one refuses the connection.
PutConn(p) == ~At(p, "unlist") /\ UserStep([NoUser EXCEPT !.st = "queue", !.at = p])
NewVisitorConn ==
    /\ UserAt("none")
    /\ \E n \in Names : listeners[n] # Nil /\ PutConn(listeners[n])

VisitorAccepted == UserAt("queue") /\ TakenBy(user.at)

\* An HTTP request is routed twice: for its configuration, login and endpoint, and again
\* when the transport dials; a request without a route goes on to the second lookup.
chooseEndpoint(q) ==
    IF ~Query[q].connect /\ Found(q) # Nil /\ routers[Found(q)] \in Objects
    THEN {Name(m) : m \in groups[routers[Found(q)]].members} ELSE {Nil}
Rewritten(q, e) == [NoUser EXCEPT !.st = "http", !.by = q, !.endpoint = e]
ServeHTTP ==
    /\ UserAt("none")
    /\ \E q \in Asked : /\ Query[q].via = "http" /\ checkAuth(q)
                        /\ \E e \in chooseEndpoint(q) : UserStep(Rewritten(q, e))

\* A group's route leads to the chosen member; for CONNECT to any.
Endpoints(owner, q) ==
    IF owner \in Proxies THEN {owner}
    ELSE {m \in groups[owner].members : Query[q].connect \/ Name(m) = user.endpoint}
Reached(q) == UNION {Endpoints(routers[x], q) : x \in {Found(q)} \ {Nil}}

CreatesConnection == UserAt("http") /\ \E m \in Reached(user.by) : TakenBy(m)
NoRouteFound == UserAt("http") /\ Reached(user.by) = {} /\ UserLost("closed")

\* A plugin or the lack of a work connection refuses the user.
UserRefused == UserAt("taken") /\ UserLost("closed")
GetRealConn == UserAt("taken") /\ Kind(user.at) = "http" /\ UserGoes("joined")

\* The packets of an SUDP visitor are copied as they are if its session and the proxy's
\* negotiated the same encoding, and translated by two goroutines otherwise.  The first
\* that cannot read or write closes both connections, which ends the other.
Encodings ==
    {[wire |-> "v1", codec |-> ""], [wire |-> "v2", codec |-> ""], [wire |-> "v2", codec |-> "binary-v1"]}
isMixedSUDPPacketEncoding(left, right) == left # right
UserJoined ==
    /\ UserAt("taken") /\ Kind(user.at) # "http"
    /\ Kind(user.at) = "sudp" => \E left, right \in Encodings : ~isMixedSUDPPacketEncoding(left, right)
    /\ UserGoes("joined")
joinSUDPMessageBridge ==
    /\ UserAt("taken") /\ Kind(user.at) = "sudp"
    /\ \E left, right \in Encodings : isMixedSUDPPacketEncoding(left, right) /\ UserGoes("bridged")
BridgeFails == UserAt("bridged") /\ UserGoes("half")
BridgeEnds == UserAt("half") /\ UserLost("closed")

UserEnds == UserAt("joined") /\ UserLost("closed")

-----------------------------------------------------------------------------
(* The specification. *)

NoUdp == [Running EXCEPT !.loop = "off", !.forward = "off"]

Init ==
    /\ conf \in Setups
    /\ place = [p \in Proxies |-> IF conf[p].kind = "none" THEN "gone" ELSE "new"]
    /\ held = [p \in Proxies |-> <<>>]
    /\ port = [p \in Proxies |-> Nil]
    /\ grp = [p \in Proxies |-> Nil]
    /\ pxys = [n \in Names |-> Nil]
    /\ used = [k \in Ports |-> Nil]
    /\ reserved = [m \in {"tcp", "udp"} |-> [n \in Names |-> Nil]]
    /\ bound = [k \in Ports |-> Nil]
    /\ routers = [x \in Routes |-> Nil]
    /\ listeners = [n \in Names |-> Nil]
    /\ registry = [g \in Groups |-> Nil]
    /\ groups = [o \in Objects |-> NewGroup]
    /\ udp = [p \in Proxies |-> NoUdp]
    /\ user = NoUser

Registers(p) ==
    \/ CheckName(p) \/ Add(p) \/ AddFails(p) \/ DelProxy(p)
    \/ AcquirePort(p) \/ AcquireFails(p) \/ Bind(p) \/ BindFails(p)
    \/ CloseTCP(p) \/ CloseUDP(p) \/ ReleasePort(p)
    \/ RunHTTP(p) \/ RunHTTPS(p) \/ RunTCPMux(p) \/ RouteConflict(p) \/ CloseRoute(p) \/ RoutesClosed(p)
    \/ GetGroup(p) \/ JoinStale(p) \/ JoinNext(p) \/ JoinRefused(p) \/ JoinFirst(p)
    \/ JoinAcquires(p) \/ JoinBinds(p) \/ JoinBindFails(p)
    \/ LeaveGroup(p) \/ LeaveTCPGroup(p) \/ CleanupTCPGroup(p)
    \/ RunSTCP(p) \/ RunSUDP(p) \/ CloseInternal(p) \/ CloseListener(p)

UdpGoroutine(p) ==
    \/ UdpGivesUp(p) \/ UdpNotified(p) \/ UdpLoopEnds(p)
    \/ UdpReadFails(p) \/ UdpReaderEnds(p) \/ UdpReleases(p)
    \/ udp[p].isClosed /\ UdpForwardEnds(p)

\* What the network, the clients and the users of a udp proxy may or may not do.
UdpEvent(p) ==
    \/ UdpGetsWorkConn(p) \/ UdpClientLeaves(p) \/ UdpPacketRefused(p)
    \/ ~udp[p].isClosed /\ UdpForwardEnds(p)

Arrives == MuxFinds \/ Dials \/ NewVisitorConn \/ ServeHTTP
Handled ==
    \/ MuxDelivers \/ MuxIgnores \/ Accepts \/ BacklogDropped \/ MemberAccepts \/ WorkerCloses
    \/ VisitorAccepted \/ CreatesConnection \/ NoRouteFound \/ UserRefused \/ GetRealConn
    \/ UserJoined \/ joinSUDPMessageBridge \/ BridgeEnds

Next ==
    \/ \E p \in Proxies : Registers(p) \/ UdpGoroutine(p) \/ UdpEvent(p) \/ CloseProxy(p)
    \/ cleanReservedPorts \/ Arrives \/ Handled \/ UserEnds \/ BridgeFails

\* Goroutines run.  A read of a work connection ends when either side has closed it or
\* the client has been silent for the time of the deadline; no packet need ever come.
Spec ==
    /\ Init /\ [][Next]_vars
    /\ \A p \in Proxies : WF_vars(Registers(p)) /\ WF_vars(UdpGoroutine(p))
    /\ WF_vars(Handled)

-----------------------------------------------------------------------------
(* Properties. *)

\* Every query whose closest route is x is led to its owner.
Leads(x, owner) ==
    /\ routers[x] = owner
    /\ \A q \in Queries : Query[q].via = Pattern[x].via /\ Closest(Taken(Pattern[x].via), x, Query[q]) => Found(q) = x

\* What a proxy of each kind needs to be reached.
Reachable(p) ==
    LET o == grp[p]
        grouped == o # Nil /\ p \in groups[o].members /\ registry[conf[p].group] = o
    IN  IF Kind(p) = "udp" THEN udp[p].isClosed \/ bound[port[p]] = p
        ELSE IF Kind(p) \in Visited THEN listeners[Name(p)] = p
        ELSE IF OwnPort(p) THEN bound[port[p]] = p
        ELSE IF Kind(p) = "tcp" THEN grouped /\ bound[port[p]] = o
        ELSE IF conf[p].group = Nil THEN \A i \in DOMAIN conf[p].routes : Leads(conf[p].routes[i], p)
        ELSE grouped /\ Leads(groups[o].param, o)

\* A proxy whose registration succeeded can be reached until it is closed: no
\* failing registration, no closing namesake, no late cleanup of a group and no
\* second close of a udp proxy takes away its name, port, route, group or listener,
\* and a request goes to the closest route that covers it, whatever else is routed.
RunningServed == \A p \in Proxies : At(p, "up") => pxys[Name(p)] = p /\ Reachable(p)

\* When every proxy has been refused or closed nothing is left of them: no port is
\* used or bound, no route, name or listener taken, no group has a member, whichever
\* way each registration failed.
NothingLost ==
    (\A p \in Proxies : place[p] \in {"new", "gone"} /\ udp[p].forward = "off") =>
        /\ \A k \in Ports : used[k] = Nil /\ bound[k] = Nil
        /\ \A x \in Routes : routers[x] = Nil
        /\ \A n \in Names : pxys[n] = Nil /\ listeners[n] = Nil
        /\ \A o \in Objects : groups[o].members = {} /\ groups[o].lock = Nil

\* A user that was let in is joined, refused or dropped in the end, though its
\* listener, group or route goes away meanwhile, and a bridge ends when one of its
\* directions has.  The work connection of a udp proxy that is closed does not stay
\* open, unless it was handed out after the close and its client keeps pinging: that
\* one is closed by its reader alone, once the client has left.
ConnectionsEnd ==
    /\ (user.st \in {"mux", "backlog", "shared", "queue", "http", "taken", "half"}) ~>
            (user.st \in {"joined", "bridged", "closed", "ignored"})
    /\ []<>(\A p \in Proxies :
            udp[p].isClosed /\ udp[p].conn # "none" => udp[p].late /\ udp[p].conn = "open")

=============================================================================
