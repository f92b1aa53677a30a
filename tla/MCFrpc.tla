-------------------------------- MODULE MCFrpc --------------------------------
EXTENDS Frpc
CONSTANTS px, vs

\* A proxy with a health check is replaced, a binding comes to be needed and goes, a visitor
\* changes; one configuration has both.
Of(p, v) == [n \in {px, vs} |-> IF n = px THEN p ELSE v]
SomeConfigs ==
    {Of("web", Nil), Of("tcp", Nil), Of("xtcp", Nil), Of(Nil, "stcp"), Of(Nil, "sudp"), Of(Nil, "xtcp"), Of("udp", "sudp"), Of("udp", Nil),
     Of("sudp", Nil), Of(Nil, Nil)}
SomeChanges ==
    {<<Of("web", Nil), Of("tcp", Nil)>>, <<Of("tcp", Nil), Of("xtcp", Nil)>>, <<Of("xtcp", Nil), Of("tcp", Nil)>>,
     <<Of(Nil, "stcp"), Of(Nil, "sudp")>>, <<Of(Nil, "sudp"), Of(Nil, "xtcp")>>,
     <<Of("udp", "sudp"), Of("udp", Nil)>>, <<Of("udp", Nil), Of(Nil, Nil)>>}

\* Connections are lost and reloads made without datagrams; datagrams with one of them, with a
\* reload that closes the proxy or with a cancellation that does.
SomeStarts ==
    [cfg : {Of("web", Nil), Of(Nil, "stcp")}, cuts : {1}, reloads : {2}, stops : {1}, flows : {0}]
    \cup [cfg : {Of("tcp", Nil), Of("xtcp", Nil), Of(Nil, "xtcp"), Of("udp", "sudp")}, cuts : {1}, reloads : {1}, stops : {1}, flows : {0}]
    \cup {[cfg |-> Of("tcp", Nil), cuts |-> 0, reloads |-> 2, stops |-> 1, flows |-> 0],
          [cfg |-> Of("udp", Nil), cuts |-> 0, reloads |-> 1, stops |-> 0, flows |-> 2],
          [cfg |-> Of("udp", Nil), cuts |-> 0, reloads |-> 0, stops |-> 1, flows |-> 1],
          [cfg |-> Of("sudp", Nil), cuts |-> 1, reloads |-> 0, stops |-> 1, flows |-> 1],
          [cfg |-> Of(Nil, "sudp"), cuts |-> 0, reloads |-> 1, stops |-> 1, flows |-> 1]}
=============================================================================
