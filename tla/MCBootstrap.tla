---------------------------- MODULE MCBootstrap -----------------------------
EXTENDS Bootstrap

Fast == [algs |-> <<"aes-256-gcm", "xchacha20-poly1305">>, codecs |-> {"binary-v1"}]
Slow == [algs |-> <<"xchacha20-poly1305", "aes-256-gcm">>, codecs |-> {"binary-v1"}]
Embedded == [algs |-> <<"aes-256-gcm">>, codecs |-> {}]
Foreign == [algs |-> <<"rot13">>, codecs |-> {}]

Go(wire, secret, hello) ==
    [wire |-> wire, protocol |-> "tcp", tls |-> TRUE, ca |-> TRUE, mux |-> TRUE, method |-> "token",
     secret |-> secret, scope |-> TRUE, ssh |-> FALSE, xtcp |-> FALSE, hello |-> hello]

AllClients ==
    { Go("v2", "s", Fast), Go("v1", "s", Slow), Go("v2", "other", Slow), Go("v2", "s", Foreign),
      [Go("v2", "s", Embedded) EXCEPT !.xtcp = TRUE], [Go("v1", "s", Slow) EXCEPT !.xtcp = TRUE],
      [Go("v2", "s", Slow) EXCEPT !.protocol = "wss", !.xtcp = TRUE],
      [Go("v2", "s", Fast) EXCEPT !.protocol = "quic", !.xtcp = TRUE, !.mux = FALSE],
      [Go("v2", "s", Slow) EXCEPT !.tls = FALSE, !.mux = FALSE, !.scope = FALSE],
      [Go("v2", "s", Slow) EXCEPT !.method = "oidc", !.ca = FALSE],
      [Go("v2", "", Fast) EXCEPT !.ssh = TRUE, !.mux = FALSE] }

AllServers ==
    { [force |-> FALSE, mux |-> TRUE, method |-> "token", secret |-> "s", scope |-> TRUE],
      [force |-> TRUE, mux |-> FALSE, method |-> "token", secret |-> "s", scope |-> FALSE],
      [force |-> FALSE, mux |-> TRUE, method |-> "oidc", secret |-> "s", scope |-> TRUE] }
=============================================================================
