\* Three registrations in ten constellations and one user.
CONSTANTS
    p1 = p1
    p2 = p2
    p3 = p3
    n1 = n1
    n2 = n2
    t1 = t1
    t2 = t2
    u1 = u1
    pool1 = pool1
    Proxies = {p1, p2, p3}
    Names = {n1, n2}
    TcpPorts = {t1, t2}
    UdpPorts = {u1}
    Routes = {HttpAll, HttpUser, HttpDeep, TlsWild, TlsExact, MuxAll, MuxUser}
    Pattern <- SomePatterns
    Queries = {1, 2, 3, 4}
    Query <- SomeQueries
    HttpAll = HttpAll
    HttpUser = HttpUser
    HttpDeep = HttpDeep
    TlsWild = TlsWild
    TlsExact = TlsExact
    MuxAll = MuxAll
    MuxUser = MuxUser
    Groups = {pool1}
    Objects = {o1, o2, o3, o4}
    Setups <- SomeSetups
    AnyPort = any
    Nil = nil
SPECIFICATION Spec
INVARIANTS
    RunningServed
    NothingLost
PROPERTIES
    ConnectionsEnd
CHECK_DEADLOCK FALSE
