------------------------------ MODULE Routing -------------------------------
(***************************************************************************)
(* Which route of a router a request takes: the lookup that the HTTP       *)
(* reverse proxy and the HTTPS and TCPMUX muxers of the Go peer's server   *)
(* share (peer/frp/pkg/util/vhost/router.go).  A domain is a sequence of   *)
(* labels, a location a sequence of path segments; the user "" stands for  *)
(* every user.                                                             *)
(***************************************************************************)
EXTENDS Naturals, Sequences, FiniteSets
LOCAL INSTANCE SequencesExt

CONSTANTS
    Pattern,        \* [route -> its domain, location and httpUser]
    Nil

\* The routes of one domain and user are sorted by location, descending: of those that
\* fit the path the longest comes first.
getLocked(routes, host, path, httpUser) ==
    LET fits == {x \in routes : Pattern[x].domain = host /\ Pattern[x].httpUser = httpUser /\ IsPrefix(Pattern[x].location, path)}
    IN  IF fits = {} THEN Nil ELSE CHOOSE x \in fits : \A y \in fits : Len(Pattern[y].location) <= Len(Pattern[x].location)

getExactOrAllUsersLocked(routes, host, path, httpUser) ==
    LET own == getLocked(routes, host, path, httpUser) IN
    IF own # Nil THEN own ELSE getLocked(routes, host, path, "")

\* The host itself, its wildcards that keep two labels at least, and "*".
Walk(host) ==
    {host, <<"*">>} \cup {<<"*">> \o SubSeq(host, i + 1, Len(host)) : i \in 1 .. Len(host) - 2}

\* They are tried from the longest to the shortest, the host before its wildcards.
getByRoute(routes, q) ==
    LET at(d) == getExactOrAllUsersLocked(routes, d, q.path, q.httpUser)
        found == {d \in Walk(q.host) : at(d) # Nil}
    IN  CASE q.host \in found -> at(q.host)
          [] q.host \notin found /\ found # {} -> at(CHOOSE d \in found : \A e \in found : Len(e) <= Len(d))
          [] OTHER -> Nil

-----------------------------------------------------------------------------
(* What a lookup has to find, stated without the walk. *)

\* A route covers a request when its domain, its user and its location do.
CoversDomain(domain, host) ==
    \/ domain = host \/ domain = <<"*">>
    \/ Len(domain) >= 3 /\ domain[1] = "*" /\ Len(domain) <= Len(host) /\ IsSuffix(Tail(domain), host)
Covers(x, q) ==
    /\ CoversDomain(Pattern[x].domain, q.host)
    /\ Pattern[x].httpUser \in {q.httpUser, ""} /\ IsPrefix(Pattern[x].location, q.path)

\* The closer domain decides; then the user; then the longer location.
Closer(x, y, q) ==
    LET weight(d) == IF d = q.host THEN Len(q.host) + 1 ELSE Len(d)
        a == Pattern[x]
        b == Pattern[y]
    IN  \/ weight(a.domain) > weight(b.domain)
        \/ a.domain = b.domain /\ a.httpUser # "" /\ b.httpUser = ""
        \/ a.domain = b.domain /\ a.httpUser = b.httpUser /\ Len(a.location) > Len(b.location)
Closest(routes, x, q) == x \in routes /\ Covers(x, q) /\ \A y \in routes \ {x} : Covers(y, q) => Closer(x, y, q)
=============================================================================
