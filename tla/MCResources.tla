---------------------------- MODULE MCResources ----------------------------
EXTENDS Resources, TLC
CONSTANTS p1, p2, p3, n1, n2, t1, t2, u1, pool1, HttpAll, HttpUser, HttpDeep, TlsWild, TlsExact, MuxAll, MuxUser

Of(n, k, grouped, remote, routed) ==
    [name |-> n, kind |-> k, group |-> grouped, key |-> 1, port |-> remote, routes |-> routed, login |-> ""]
Three(x, y, z) == (p1 :> x @@ p2 :> y @@ p3 :> z)

\* Domains, a wildcard and its neighbour; locations and users for HTTP.
Wild == <<"*", "example", "com">>
Deep == <<"*", "b", "example", "com">>
Exact == <<"a", "b", "example", "com">>
Route(v, d, l, u) == [via |-> v, domain |-> d, location |-> l, httpUser |-> u]
SomePatterns ==
    HttpAll :> Route("http", Wild, <<>>, "") @@ HttpUser :> Route("http", Wild, <<>>, "ann")
    @@ HttpDeep :> Route("http", Deep, <<"x">>, "")
    @@ TlsWild :> Route("https", Wild, <<>>, "") @@ TlsExact :> Route("https", Exact, <<>>, "")
    @@ MuxAll :> Route("tcpmux", <<"*">>, <<>>, "") @@ MuxUser :> Route("tcpmux", Exact, <<>>, "ann")

Ask(v, p, u, w, c) == [via |-> v, host |-> Exact, path |-> p, httpUser |-> u, login |-> w, connect |-> c]
SomeQueries ==
    <<Ask("http", <<"x", "y">>, "", "", FALSE), Ask("http", <<"y">>, "ann", "secret", TRUE),
      Ask("https", <<>>, "", "", FALSE), Ask("tcpmux", <<>>, "ann", "secret", FALSE)>>

\* Namesakes, neighbours in a group and rivals for a port or a route.
SomeSetups ==
    LET tcp(n, k) == Of(n, "tcp", Nil, k, <<>>)
        udpp(n, k) == Of(n, "udp", Nil, k, <<>>)
        pool(n, k) == Of(n, "tcp", pool1, k, <<>>)
        web(n, x) == Of(n, "http", Nil, Nil, x)
        tls(n, x) == Of(n, "https", Nil, Nil, x)
        mux(n, x) == Of(n, "tcpmux", Nil, Nil, x)
        shared(n, kind, x) == Of(n, kind, pool1, Nil, x)
        secret(n, kind) == Of(n, kind, Nil, Nil, <<>>)
        locked(c) == [c EXCEPT !.login = "secret"]
    IN  {Three(tcp(n1, AnyPort), tcp(n1, AnyPort), tcp(n2, t1)),
         Three(pool(n1, t1), pool(n2, t1), tcp(n1, AnyPort)),
         Three(pool(n1, t1), [pool(n2, t1) EXCEPT !.key = 2], pool(n2, t2)),
         Three(udpp(n1, u1), udpp(n2, u1), secret(n1, "none")),
         Three(web(n1, <<HttpAll, HttpDeep>>), locked(web(n2, <<HttpUser, HttpAll>>)), shared(n1, "http", <<HttpDeep>>)),
         Three(locked(shared(n1, "http", <<HttpAll>>)), shared(n2, "http", <<HttpAll>>), shared(n1, "http", <<HttpAll, HttpUser>>)),
         Three(tls(n1, <<TlsWild, TlsExact>>), tls(n2, <<TlsExact>>), shared(n2, "https", <<TlsWild>>)),
         Three(locked(shared(n1, "tcpmux", <<MuxAll>>)), locked(shared(n2, "tcpmux", <<MuxAll>>)), mux(n2, <<MuxUser, MuxAll>>)),
         Three(locked(shared(n1, "tcpmux", <<MuxAll>>)), shared(n2, "tcpmux", <<MuxAll>>), secret(n1, "none")),
         Three(secret(n1, "stcp"), secret(n1, "sudp"), tcp(n1, t1))}
=============================================================================
