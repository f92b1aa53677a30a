# TLA+ models of esp-frp

esp-frp is an FRP client for ESP devices, written in C (`src/`, `include/`), together with
the Go implementation it talks to (`peer/frp`: the server `frps` and the client `frpc`).
This directory models both: the C client's task, its connection, scratch flash, control
session, work streams and multiplexer; and the Go peer's control sessions, login, shared
resources, client service, configuration and NAT traversal. Every definition is translated
from the code; `PROJECT.json` names the lines of each.

Contents

1. [Parts of the system](#1-parts-of-the-system)
2. [Modules and how they correspond to the code](#2-modules-and-how-they-correspond-to-the-code)
3. [Runs](#3-runs)
4. [Fairness](#4-fairness)
5. [Proofs](#5-proofs)
6. [Observations](#6-observations)
7. [Not modelled](#7-not-modelled)
8. [Plan](#8-plan)

To repeat a run: `tlc -workers 2 -config MCFrps.cfg MCFrps`. To check a proof:
`tlapm ClientProofs.tla`.

## 1. Parts of the system

### The C client

| part | state | operations | what is hard |
|---|---|---|---|
| client lifecycle (`src/client.c`, `client_port_idf.c`) | tickets, a queue of four commands, one completion semaphore, phase, retry counters | start, stop (polled or waiting), destroy; the worker's step, drain, retry, callbacks | several tasks call while one worker runs callbacks and drains objects that refuse |
| TCP connection and DNS (`connect.c`, `dns_lwip.c`) | socket, linger, halves, deadline, a lookup request shared with the tcpip thread | create, adopt, step, read, write, shutdown, cancel, destroy | the tcpip thread holds a raw pointer; lwIP and POSIX disagree about a failed close |
| scratch flash (`idf_flash_store.c`) | guard, lease, quarantine, area | recover, begin, write, read, clear | try-lock guard, failed erases, power loss, a quarantine request that races a begin |
| control session (`session.c`, `handshake.c`, `frame_reader.c`, `aead.c`) | phase, timers, one frame in, one record out | create, step, cancel, drain, destroy | messages out of order and split, end of stream at any byte, frames of several records |
| work streams (`work.c`, `tcp_listener.c`) | slots, one shared frame buffer, sockets, counters | request, admit, forward both ways, close, cancel | half-close, sockets that close slowly, limits |
| Yamux and its transport (`yamux.c`, `stream_yamux.c`, `tls_mbedtls.c`) | stream slots, credit, control queue, one output frame, TLS staging | open, read, write, close, reset, release; feed, output, tick; the pump | frames that cross on the wire, credit, borrowed output |

The client worker owns connection, TLS, transport and session, in that order, and calls
them from one task. The session calls the transport's streams, the flash store and the
work set. The tcpip thread and the tasks of the application are the only other threads.

### The Go peer

| part | state | operations | what is hard |
|---|---|---|---|
| frps controls (`server/control.go`, `service.go`, `registry`) | manager entries by run id, lifecycle of each control, registry of clients, pool of work connections | login, replacement, hand-over, proxies, heartbeat, work connections, shutdown | generations of one run overlap; each has a reader, a worker and a login handler |
| login (`client/control_session.go`, `connector.go`, `server/service.go`, `pkg/proto/wire`, `pkg/auth`) | both ends of a connection: deadlines, hello, keys | Dial, exchangeLogin, accept, hello, verify, work and visitor connections | hello, login and answers cross; deadlines race answers |
| frps resources (`server/proxy`, `ports`, `group`, `visitor`, `pkg/util/vhost`) | names, ports and reservations, groups, routes, listeners | register, fail half-way, close; accept and route users | stale group objects, namesakes, late cleanups |
| frpc (`client/service.go`, `control.go`, `proxy`, `visitor`, `health`) | published configuration, control, wrappers, visitors | login loop, reload, cancel, registration, health, work connections | reload, reconnection and shutdown race one another |
| frpc configuration (`client/config_manager.go`, `client/http`, `pkg/config/source`) | configuration file, store file, sources, what is applied | reload, put, store changes, stop, restart | crash between two writes, failed saves, concurrent handlers |
| NAT traversal (`pkg/nathole`, `pkg/xtcpbinding`, xtcp proxies and visitors) | sessions, owners, scores; attempts and tunnels | rendezvous, hole making, proof, keeping and closing of a tunnel | three processes whose messages, time-outs and closes cross |

frpc dials frps, logs in (Bootstrap), becomes a control (Frps) and registers its proxies,
which take ports, routes and group places (Resources); users and visitors arrive over work
connections. `Frpc` and `Frps` look at the same connection from their two ends.

## 2. Modules and how they correspond to the code

A module keeps the code's names where it can. Actions are operations, handlers, or what a
goroutine does between two points at which another one can run: a locked section is one
step, and so is a stretch that touches nothing shared. What a library, a plugin, the file
system or a clock decides is a choice. Bounds are constants; every one is named where it is
declared.

**Client** — `client.c` with its port. Callers make the public calls; the API lock is a
try-lock that is held for a whole call, so that several callers behave like one and the run
uses one. The worker's `step` is split at callbacks and at waits. The objects below it are
what the client relies on: any documented result, refusal of destruction for a while.

**Connect** — one connection and its lookup, in both builds. The socket is represented by
what its `close()` would do to the peer. `MaxRefusals` bounds the calls refused for lack of
memory. Bytes are not modelled.

**FlashStore**, **ScratchStore** — the provider under any number of readers, with the guard,
sector-wise erase, verified write and power loss; and the abstract area that readers rely
on. `Store == INSTANCE ScratchStore WITH …` maps a leased area to the bytes readable under
it.

**Session** — `efrp_session_step` as one loop (`at`). The server and the network are seen
through two calls only, so that they act at "idle" and "run". One frame or half a frame per
record; pongs saturate at 2; timers that nobody reads are reset; two turns stand for eight;
"busy" is that the work set holds something. The work set and the XTCP controller are what
the session sees of them.

**Work** — the three step functions as loops over slots; every call below gives any of its
results. `unsettled` is requests − rejected − completed − failed; failures of an accept are
not requests and not in it. Times are scaled to 1. The release of a stream that has not
ended is refused with `INVALID_STATE`; `ReleasesAreLegal` proves that it is never asked for.
UDP datagrams are left out.

**Yamux**, **YamuxTransport** — the multiplexer, and its composition with the pump, TLS
staging and a peer that keeps to the protocol until its last frame. The own ping and the own
GOAWAY have no caller in this code and are left out. The peer acts only while there is a
client to act on. A turn of step() flushes and consumes, reads and feeds one frame after
the other, and stages the next output; any turn may be the last of a step(), so that the
owner acts between any two. `resets` counts the streams that this side has reset; the multiplexer does not have it,
the properties need it.

**Frps** — one login handler, worker and reader per control. A gate that is no longer
current when it was locked belongs to a removed entry, so that lookup and lock are one step.
Refused logins and messages change nothing and are not actions. `ctl.Close`'s change of the
lifecycle and the interrupt that follows are one step. A control that has ended completely
is reset, since nobody refers to it.

**Bootstrap** — client and server ends of up to two connections. With tcpMux a connection is
a stream, and what TLS and yamux do for all streams at once is done for each. A connection
is used once. `RegisterControl` is atomic here; the hand-over is Frps. A cut of the network
is invisible: deadlines and heartbeats notice it. With OIDC the two tokens may differ, so
that agreement of keys is stated for checked or equal tokens. With wss TLS ends before frps,
so that a binding is refused there. The credentials of pings are left out.

**Resources**, **Routing** — proxies of every kind but xtcp, each one registration. Free
ports are the allowed ones that are not used; a reservation is closed exactly if its port is
no longer used by its name. Another program that holds a port is a bind that may fail at any
time. Five random probes are a choice among the free ports. Users who are refused for an
unknown host or a wrong login change nothing. Idle connections of the HTTP transport are not
reused. The bridge between the two packet encodings of a sudp proxy is modelled with its two
goroutines and its end, the packets are not. The work connection of a udp
proxy is "open" while its client pings within every deadline of its reader; whether the
client ever stops is its own affair (`UdpEvent`). `Routing` holds the lookup (`getByRoute`) and,
independently, the closest route that covers a request; `RunningServed` compares the two.

**Frpc** — main, login loop, one caller of reload, and for each control the worker, reader,
checkers, monitors and the visitors' ticker. `ctlMu` and `cfgMu` are one lock; `stop` waits
for a running reload (`reloadMu`). A control is installed in three steps under that lock:
its worker runs, then its proxies and then its visitors are started, and the worker may
close either manager in between. `closeSession` is one step. Wrappers of a dead connection
only wait for being stopped, so that their phase is reset. Messages of different proxies are
independent. Places of controls are recycled. Refused configurations change nothing. Every
time-out may fire at any time. Each initial state (`Starts`) has a budget of reloads, lost
connections, cancellations and datagram connections of its own, which keeps their product out of the run.

**Packets** — the goroutines that carry datagrams for a udp or sudp proxy and for a sudp
visitor, as operators on a flow that Frpc keeps in `flows`. A flow is one connection with
its reader, sender, heartbeat, forwarder and, while a user sends, the reader of the user's
socket. What a goroutine closes when it ends does not depend on the others, so that all that
can end are taken at once. Every call of `InWorkConn` runs in its own goroutine, and calls
overlap: `at` is "enter" before the Close of line 92 of `client/proxy/udp.go`, "wrap" until
the connection and its channels are named under the lock (109-114), "named" while the five
fields of lines 163-168 are read without it, and then "run". `held` marks the flow that the
proxy names; Close closes that one only. `chan` is what the call has read, possibly the
channels of another call: those a call has read before another one is named are chosen when
that happens, since nobody can tell sooner. `late` marks a connection named after the proxy
was closed (it opens the proxy again), `raced` one that was named while another call was
between its Close and its own naming.

**Sources** — the process, its two files and the handlers of the admin API. Proxies and
visitors are names of one table; an entry is classed by what matters (disabled, unsound,
needs a binding, needs the virtual network). Includes are part of the file. `reloadMu` makes
a change and its reload one stretch; the steps inside differ in what a crash leaves.
`promised` is the store as the answers tell it.

**Nathole** — two providers' controls, a visitor's control, the controller of frps with its
analysis, the provider's job for each session id and the visitor's attempts, tunnel, user
and keeper. Messages on a control connection are handled when they are sent; a late one is
one sent late. `RegisterControl` and the check that the name is free are done in Init. Each
control registers the proxy once. Analysis cannot fail, since Prepare gives at least two
addresses and the proof of the message has checked the name. The receiver's own requests are
ignored by the sender and left out.

**MC…** modules give the constants for TLC; **…Proofs** modules hold theorems.

## 3. Runs

All runs explore their whole state space. Times are with two workers.

| run | states | bounds |
|---|---|---|
| client | 506,344 (2 min) | one caller, two tickets, two stops and a destroy, one random delay, one pong |
| connect | 1,044 (2 s) | one connection, both builds, two refused stack calls |
| flash | 150,993 (15 s) | two readers, sectors and leases, one power loss, one stray request |
| session | 228,254 (1 min 30) | three roles, one message in flight, splits of one kind, one rogue message |
| work | 2,385,173 (45 s) | five roles, two slots, one socket, two bytes from a stream and one from a socket |
| transport | 3,907,686 (1 min 45) | two streams one after the other, a window and a discard budget of two, a ring of one, one frame in flight, one unanswered ping before the second stream opens, one last frame that may break the protocol |
| frps_control | 2,581,428 (2 min 15) | three logins under two run ids and one client id, one proxy name, one work connection |
| bootstrap | 133,601 (1 min) | 11 clients × 3 servers, two connections |
| frps_resources | 382,164 (2 min 35) | ten constellations of three proxies, four requests |
| frpc | 651,058 (3 min) | one proxy, one visitor, ten configurations, two reloads, one lost connection, one cancellation, two outstanding answers, two connections with datagrams |
| sources | 588,021 (30 s) | three calls by two handlers, one crash, three files |
| nathole | 546,568 (2 min 30) | two providers or one, user and keeper, two attempts, one end |

**client.** `StopOkIsQuiet`: a stop that returned OK has left a quiet worker and nothing in
the queue that could wake it. `Handshake` is its inductive form: lock, tickets, queue and
worker agree. `OwnershipOrder`: objects go after their users, and what a phase uses exists.
`StopReturns`: a waiting stop returns without its time-out. One caller suffices since calls
exclude each other; two tickets let an abandoned stop be followed by another.

**connect.** `RequestOutlivesThread`: no pointer of the tcpip thread to a freed request.
`FdIsOurs`: close is repeated exactly where the stack keeps the socket.
`CloseMatchesResult`: failures reset, completed streams flush. `DrainEnds`: a draining
connection can be freed. Two refusals reach a failure during the repetition of a failure.

**flash.** `LeasesMatch`: a held lease is the one in force and one in force is held.
`ImplementsScratchStore`: refinement of the abstract area. `LeaseReturned`: a reader whose
clear failed gives its lease back.

**session.** `ServerNeverAccused`: no order of a correct server's messages is a protocol
error, and refusals are reported as such. `FramesContiguous`: nothing is sealed into a frame
of several records. `EndIsExact`: closed is reported only when all was used and ended with a
frame, truncated only when something was cut. `FreedClean`: no lease, socket or controller
after destruction. `PhasesEnd`: login, registration, ping and end of the stream are answered
or end the session.

**work.** `SocketBound`: closing sockets and one not yet handed over count.
`BufferOwned`: the shared buffer belongs to one stream in admission. `SettledOnce`: each
request is counted once. `EndsWhole`: both directions deliver a prefix in order, and a
completed stream delivered everything.

**transport.** `PeerNeverAccused`: frames that cross are never an error of the peer, as long
as what may cross this side's resets fits the session's budget of discarded bytes. One reset
fits the budget of the run, two may exceed it, and the run reaches that failure too.
`CreditAccounted`: what the peer may not send now is unread, being granted or on its way.
`WireOrder`: every stream leaves in a legal order.

**frps_control.** `HandoverClean`: before a control is registered or answered no other
generation of its run owns anything. `RegistryMatches`: a client is online exactly while an
entry stands for it. `NothingLeft`: a finished control left nothing, names belong to those
who run them, pools that were closed get nothing. `HandoffEnds`: nobody waits for a
generation that is not ending. Three generations are needed for the case in which the one
in the middle never ran; the run uses the symmetry of control names, which no property
distinguishes, and has no temporal property.

**bootstrap.** `SessionAgrees`: both ends agree on run, protocol, codec, binding and keys.
`BootstrapSettled`: a failed bootstrap closed its connection and connector, a successful one
has no deadline left. `BootstrapEnds`: nobody waits without a deadline. The configurations
cover each branch of Dial and of the accept path.

**frps_resources.** `RunningServed`: a registered proxy can be reached until it is closed,
and requests take the closest route. `NothingLost`: when all are refused or closed nothing
is taken. `ConnectionsEnd`: a user who was let in is joined, refused or dropped; the bridge
ends; and the work connection of a closed udp proxy does not stay open, unless it was handed
out after the close and its client keeps pinging. The constellations pair namesakes, rivals
for a port or a route, and members of a group with equal and different keys and logins.

**frpc.** `NothingOutlives`: proxies and visitors belong to a control that is current or
that somebody is about to close, and a udp proxy has one work connection that is not closed,
besides one of overlapping calls of `InWorkConn` (`raced`).
`ServerAgrees`: with nothing on its way the server has what the client runs. `Settles`: a
client that is not cancelled ends up serving its last configuration, a cancelled one with
nothing, users' connections end, and so do the goroutines that carried datagrams for a
proxy, visitor or connection that was closed; what may stay of a udp proxy reads the
connection or uses the channels that the proxy names, or those of a call that came after the
close or was overtaken. Two flows let a udp proxy replace its work connection and its two
calls overlap in every order, and a visitor be closed under one.

**sources.** `StoreDurable`: the disk is what answers promised, and memory what is on the
disk, over failed writes, crashes and restarts. `AppliedIsAggregated`: what is published is
what the sources say, or this process cannot run it. Safety only. One crash and three calls
reach a crash in every step of a save that follows or races another change.

**nathole.** `RendezvousSound`: sessions belong to controls that are up and to the owner of
the proxy; a late close leaves a new owner alone; proofs go to the visitor of the session;
roles are what the analysis promises; every open socket is accounted for.
`RendezvousEnds`: handlers, jobs and attempts end. Three instances share the run: two
contending providers; a user and the keeper with one attempt and one end; both with two
attempts.

`CHECK_DEADLOCK FALSE` is set where everything may have ended: a server that shut down, a
bootstrap that is over, calls or attempts that are used up.

## 4. Fairness

- Client: WF of the worker, of callbacks and calls, of the drains of its objects (each
  eventually stops refusing) and of a due retry.
- Connect: WF of drain, time-outs, the tcpip thread, the deadline and destruction.
- FlashStore: WF of a call that has begun; SF of a closing reader's entry, because the guard
  is a try-lock that others take and give back again and again.
- Session: WF of the loop, SF of a step whose clock has advanced: the owner calls step again
  and again and time passes.
- Bootstrap: WF of every step of either end, deadlines included.
- Resources: WF of each proxy's registration and closing, of the goroutines of a udp proxy
  (a read of a connection that is closed or silent fails) and of the handling of a user. None
  of a work connection's arrival, of its client's leaving or of a packet on it.
- Frpc: WF of login loop, main, reload, workers, each visitors' ticker (a tick or its end),
  users' connections, each call of `InWorkConn` with the goroutines of its flow that can end,
  and the release of foreign ports; SF
  of a successful dial, since a server that can never be reached is never served.
- Nathole: WF of the reader and the proxy's goroutine of each control, handlers, jobs,
  attempts, the closing of the visitor, and callers.

Go's scheduler runs every goroutine that can run, and FreeRTOS the one worker task. No
fairness is assumed of messages, failures, crashes or of calls from outside.

## 5. Proofs

TLAPS proves the theorems below for every value of the constants that the named assumptions
of each module allow. Each component's inductive invariant was checked by TLC, on the
component's run, before it was proved. The proof that a step keeps it has one lemma or step
per action; lemmas say what the model's operators return.

| module | theorems about properties of the runs | others |
|---|---|---|
| ClientProofs | `Handshake`, `StopOkIsQuiet`, `OwnershipOrder` | types, `QueueHasRoom`, `FreedAfterExit` |
| ConnectProofs | `RequestOutlivesThread`, `FdIsOurs`, `CloseMatchesResult` | types, `NothingLeaks`, `FirstResultWins`, `NoRevival` |
| FlashStoreProofs | `LeasesMatch`, `ImplementsScratchStore` | types, freshness, quarantine |
| SessionProofs | `ServerNeverAccused`, `FramesContiguous`, `FreedClean`, `EndIsExact` | the invariant |
| WorkProofs | `SocketBound`, `BufferOwned`, `SettledOnce`, `EndsWhole` | the invariant, `ReleaseLegal` |
| FrpsProofs | `HandoverClean`, `RegistryMatches`, `NothingLeft`, `HandoffEnds` | the invariant |
| BootstrapProofs | `SessionAgrees`, `BootstrapSettled` | the invariant |
| SourcesProofs | `StoreDurable`, `AppliedIsAggregated` | the invariant |

**ClientProofs.** `TypeInv` in groups (flags, port, API, call, run, retry, session), and
`Handshake == TicketOrder /\ LockHeld /\ DestroyAlone /\ Stage`. `StopOkIsQuiet` alone is
not inductive: that no command is left depends on which ticket a stop is waiting for, and on
the worker's position between taking a STOP and confirming it. `Stage` names these
positions (idle, start queued, started, stop pending, start and stop queued, stopping, done,
exit). From it follow `StopOkIsQuiet`, that the queue of four never is full
(`QueueHasRoom`), and `FreedAfterExit`. `OwnershipOrder` is inductive relative to the types
and `Handshake`: only the worker changes what it owns, and its drain takes the objects in
the order that the property asks for. Assumed: the constants' types, `Capacity > 2`, a
greatest ticket of at least one, and a value for no caller that is none of the callers.

**ConnectProofs.** `Inv` is types, `Lookup` (who has the request), `Ownership` (what the
descriptor is), `Lingering` (what close would do) and `Outcome` (result and halves). From it
`RequestOutlivesThread`, `FdIsOurs`, `NothingLeaks`, `CloseMatchesResult`, and the action
properties `FirstResultWins` and `NoRevival`.

**FlashStoreProofs.** `Inv` is types, `Guarded` (who holds the guard), `Leases`, `Places`
(what each position of a call knows), `ScratchFresh` and `Quarantined`. It gives
`LeasesMatch`, freshness, that failed clears quarantine, and the refinement to ScratchStore:
initial states map to initial states and every step to a step or a stutter.

**SessionProofs.** Any sizes, deadlines, numbers of turns, writes and records, any number of
units in flight, any set of split messages, and a server whose last message may be anything.
Assumed: known roles, sizes and deadlines above zero, and messages of the known kinds.
Whether an answer is expected depends on what was sent, so that `ServerNeverAccused` says
nothing inductive by itself. `Inv` looks at all that was sent to the session and not used as
one sequence, `Wire` (plaintext, `control_rx`, readable, on its way), and has these parts:

- `Looping` and `Phased`: where the loop can be in each phase, and that an ended session
  does not go on;
- `Sending`: from the first record of an XTCP frame until its last has been sealed, nothing
  is in `control_tx`. This is what makes `FramesContiguous` inductive;
- `Greeting`: one hello, then one answer to the login, each read where it is expected;
- `Answering`: a request is waiting, sealed, with the server or answered on the wire, one of
  these only, and its answer is expected for as long;
- `Proper`: a refusal on the wire is one that the server made.

The last three are claimed (`Honest`) while the server has kept to the protocol. Delivering
and reading leave `Wire` as it is (`DeliverWire`, `ReadWire`); a use takes its head, a message
is added to its end, and a close cuts it (`Used`, `Sent`, `Lost`): these lemmas carry the
three parts over any step. `EndIsExact` follows from `Phased`: the end of the connection is
seen only when nothing is on its way.

**WorkProofs.** Any number of slots, requests, bytes and sockets, any sizes and deadlines
above zero. `Inv` has, besides the types: `Placed` (the phase of the stream that the loop is
at), `Flow` (what was read and not written follows what was written, so that a partial write
keeps the order; an end is noted only when nothing waits before it), `Socketed` (which
phases have a socket), one stream in admission, an account of `unsettled` by the streams
that count, and `Bounded`, an account of the sockets with the listener's. `SocketBound` is
not inductive without `Socketed`: `start_work` counts phases, not sockets, and only because
every phase it counts owns its socket, and a stream in admission of that role has none, does
its count cover all of them. `EndsWhole` needs `Flow` for the bytes that wait. The general
lemma `SlotStep` is about one slot that changes; adding and removing it changes both accounts
by its own weight (`OpenStep`, `LocalsStep`). A replaced UDP stream changes many slots at
once and has a proof of its own (`StartUdpInv`).

**FrpsProofs.** Any number of logins, runs, clients, names and work connections. `Inv` is,
for each control, `Life` (where its login handler, worker and reader can be in each state),
`Entered` (what it means to be current), `Handover` (whoever may own something is current or
is what the current one waits for), `Endings` (who is not current was or will be
interrupted), `Proxying` and `Counting`; and `Manager`, `Registry`, `Pooling`. Each property
is a conjunction of these read at one control; none is inductive alone, since a clean
hand-over depends on whom each earlier generation waited for, and an online client on the
generation that its entry remembers. Assumed: no name means two things.

**BootstrapProofs.** Any set of connections and any sets of client and server
configurations. That two ends agree is a fact about what each computed from the frames it
read, so that `Inv` says which frames can be on their way to the server and in which order
(`Uplink`, `Ordered`), what it has made of those it read (`Acceptance`), what it has
answered (`Downlink`) and what the client has made of that (`Client`); `Sessioned` and
`Controlled` tie the session and the control to the same hello and the same login.

**SourcesProofs.** Any number of handlers, names, settings, files, calls and crashes. `Inv`
is types, `Locking` (who is between a change and its reload), `Storing` (which of memory,
temporary file and disk has the change, at each position of its handler, and that it can be
taken back) and `Applying` (what is published is what the sources say with the store that
is on the disk). A crash may come in every one of these positions.

Two attempts failed for a good reason. A `CASE` with two true guards stands for an arbitrary
one of them in TLA+, while TLC takes the first: such definitions (`Where` in Work, `Leave` in
FlashStore, and some in Yamux and Resources) now have disjoint guards or are `IF` chains. And
`INVALID_STATE` had been called impossible in Work without an argument; it has one now.

Only model-checked:

- liveness and whatever needs `ENABLED`, which are out of the prover's reach;
- `CreditAccounted` and `PeerNeverAccused` of YamuxTransport, whose account of credit adds
  up the frames on the wire by recursion;
- `WireOrder` of Yamux, Resources, Frpc and Nathole, not attempted.

## 6. Observations

Found while modelling; none is stated as a violated property.

C client
- The bytes that may be discarded after resets are counted for the whole session and never
  given back (`yamux.c:331`, `:364`; `docs/design/yamux-core.md:38` says so): a peer that
  keeps to the protocol is failed with `PROTOCOL_ERROR` once its DATA has crossed enough
  resets of this side. `PeerNeverAccused` excepts it.
- The failure streak is reset by time that includes draining (`client.c:149`;
  `docs/design/client-lifecycle.md:35` speaks of time in READY).
- The stall clock of a stream runs while it connects (`work.c:549`).
- A ServerHello before the last write of the login ends the session with `WOULD_BLOCK`
  (`session.c:359`; compare `docs/design/control-session.md:23`).

frps
- A udp proxy is closed twice, and the second close releases a port that may be another's
  by then (`server/proxy/udp.go:273`); two namesakes may be given one reserved port. The
  books drift, the listeners do not.
- A work connection that a udp proxy gets after its Close is closed by its reader only, and
  every Ping starts the deadline of that reader anew (`server/proxy/udp.go:119`, `:134`,
  `:188`-`:225`): it stays for as long as its client pings. `ConnectionsEnd` excepts it.
- The muxer drops a connection without closing it when its listener was closed after the
  lookup (`pkg/util/vhost/vhost.go`, `handle`).
- The configuration and the login of an HTTP request are those of a first lookup, the
  connection comes from a second.
- A group whose first listen failed stays in the registry, empty.
- `closeProxy` frees the name before the metrics are closed, so that a successor's
  statistics may look closed.

frpc
- A tick of the visitors that is chosen after the manager was closed starts a visitor that
  nobody closes (`visitor_manager.go`, `keepVisitorsRunning`). `NothingOutlives` excepts it.
- A stale `NewProxyResp` is taken by a later registration of the proxy; after an early error
  the server's acceptance is ignored and later ones are refused as duplicates.
- `failedTimes` is not reset by a success (`client/health/health.go:129`), while
  `peer/frp/README.md:1003` speaks of failures in a row.
- `UpdateAll` may block in `Send` while the reader waits for the same mutex; the heartbeat
  ends it.
- A udp proxy's late `InWorkConn` leaves its connection (`client/proxy/udp.go:88`).
- Two overlapping calls of it may both close the old connection (`client/proxy/udp.go:91`,
  "close resources related with old workConn") before either names its own (`:109`): the
  first one's connection and channels are overwritten and never closed, and its heartbeat and
  forwarder do not end. The channels are read without the lock (`:163`-`:168`), so that
  goroutines of one call may use those of the other. `NothingOutlives` and `Settles` except
  these connections (`raced`).
- A store entry that could not be applied stays stored and, if it needs a binding, prevents
  the next start; one that needs the virtual network is accepted by it.
- The configuration file is rewritten in place: a crash leaves it empty or torn. Two reloads
  may apply the older read later. The directory is not synced after the rename; the model has
  crashes of the process only. A torn prefix that still parses is represented by the empty
  file.

NAT traversal
- `getTunnelConn` may close a tunnel that was stored after its own attempt to use one failed
  (`client/visitor/xtcp.go:222`).
- `QUICTunnelSession.Init` replaces a session without closing it (`:379`) when a delayed
  kick or the keeper's first event starts another attempt; the variable `left` holds these.
- The keeper's first blocking send leaves its goroutine if the visitor closes first (`:122`).
- The comment that a score is between −10 and 10 (`analysis.go:261`) holds above only.
- `OpenConn` holds its lock while it waits for a stream.

## 7. Not modelled

- UDP datagrams of the C client, its XTCP controller and NAT traversal, and its QUIC
  transport. The rendezvous they take part in is modelled from the Go side.
- The C reader of large records on flash: it appears as the user of FlashStore.
- Conversions: JSON, frames' bytes, base64, protobufs, configuration formats, legacy
  configuration. Their verdict (accepted or refused) is an input.
- Cryptography, certificates and random numbers: keys and proofs are compared as values.
- Payload: encryption, compression, limits, plugins, virtual network.
- Metrics, dashboards, command line, SSH gateway, logging.
- Clocks: a time-out may fire whenever it is armed, except in Session and Work, where
  elapsed times are counted in units.

## 8. Plan

Done, in this order: the C client from its lifecycle to the transport with the proofs of
Client, Connect and FlashStore; then the Go peer from its control sessions outward (Frps,
Bootstrap, Resources with Routing), its client (Frpc, Sources) and NAT traversal (Nathole).

Then proofs: Sources, Frps, Bootstrap, Work, the ownership order of Client, and Session.

Next, proofs:

1. Nathole: the part of `RendezvousSound` about owners and sessions.
2. Frpc: `NothingOutlives`.

Then models: the C XTCP controller against Nathole's server, and the datagrams of the C
client's UDP proxy.
