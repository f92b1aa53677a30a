-------------------------------- MODULE Frpc --------------------------------
(***************************************************************************)
(* The client of the Go peer (peer/frp/client): the login loop and its      *)
(* controls, the proxies and visitors that a control manages, health        *)
(* checks, reloads of the configuration and shutdown.                       *)
(*                                                                          *)
(* Goroutines: main (Service.Run), the login loop, one caller of            *)
(* UpdateAllConfigurer, and for each control its worker, the message reader,*)
(* a checker and a health monitor per proxy and the ticker of the visitors. *)
(* What runs under a manager's or a wrapper's mutex is one step, and so is  *)
(* closeSession.  ctlMu and cfgMu are one lock held by main while it stops, *)
(* by the caller while it updates both managers and by the login loop while *)
(* a control starts.                                                        *)
(***************************************************************************)
EXTENDS Naturals, Sequences, FiniteSets, Packets

CONSTANTS
    Ids,            \* room for controls; a control that left nothing gives its place back
    Proxies,        \* names of proxies
    Visitors,       \* names of visitors, each with a local port of its own
    Configs,        \* configurations: [Proxies \cup Visitors -> a value or Nil]
    Starts,         \* [cfg, cuts, reloads, stops, flows]: the first configuration with its bounds
    Changes,        \* pairs of configurations: the reloads that are made
    Binding,        \* values that need a control with an XTCP binding
    Monitored,      \* values of proxies with a health check
    Used,           \* values of proxies and visitors that a user connects to
    Udp, Sudp,      \* those of them that carry datagrams
    MaxFlows,       \* bound on the connections that carry datagrams
    MaxFailed,      \* HealthCheckConfig.MaxFailed
    MaxCuts,        \* bound on the connections that are lost
    MaxReloads,     \* bound on the reloads
    MaxStops,       \* bound on the cancellations from outside
    MaxPending,     \* bound on the registrations whose answer is outstanding
    Nil

ASSUME FrpcAssumption ==
    /\ Configs \subseteq [Proxies \cup Visitors -> UNION {{c[n] : n \in DOMAIN c} : c \in Configs}]
    /\ Changes \subseteq Configs \X Configs
    /\ Starts \subseteq [cfg : Configs, cuts : 0..MaxCuts, reloads : 0..MaxReloads, stops : 0..MaxStops,
                         flows : 0..MaxFlows]
    /\ Proxies \cap Visitors = {} /\ Nil \notin Ids /\ Nil \notin Binding /\ Nil \notin Monitored
    /\ Udp \cup Sudp \subseteq Used /\ Udp \cap Sudp = {} /\ MaxFlows \in Nat
    /\ MaxFailed \in Nat \ {0} /\ MaxPending \in Nat \ {0} /\ MaxCuts \in Nat /\ MaxReloads \in Nat
    /\ MaxStops \in Nat

VARIABLES
    cfg,            \* Service.proxyCfgs and visitorCfgs
    cancelled,      \* Service.ctx is done
    lock,           \* who holds ctlMu and cfgMu across steps
    ctl,            \* Service.ctl
    main,           \* where Service.Run is
    login,          \* the login loop: [at, first, need, of]
    api,            \* the caller of UpdateAllConfigurer: [at, of]
    control,        \* [Ids -> the state of the control]
    foreign,        \* local ports of visitors that another program holds
    conn,           \* a connection of a user: [at, of, name, cfg]
    flows,          \* [1..MaxFlows -> connections that carry datagrams, see Packets]
    cuts, reloads, stops

serviceVars == <<cfg, cancelled, lock, ctl, main>>
boundVars == <<cuts, reloads, stops>>
vars == <<serviceVars, login, api, control, foreign, conn, flows, boundVars>>

-----------------------------------------------------------------------------
(* State. *)

Values == UNION {{c[n] : n \in DOMAIN c} : c \in Configs} \ {Nil}
Phases == {"new", "wait start", "start error", "running", "check failed"}

\* Wrapper, with the health flag and the failedTimes of its monitor (at most MaxFailed).
Wrapper(value, phase, health, failed) == [cfg |-> value, phase |-> phase, health |-> health, failed |-> failed]
NoWrapper == Wrapper(Nil, "closed", 0, 0)
NewWrapper(value) == Wrapper(value, "new", IF value \in Monitored THEN 1 ELSE 0, 0)
Wrappers == [cfg : Values, phase : Phases, health : 0..1, failed : 0..MaxFailed] \cup {NoWrapper}

\* visitor.Manager: what is configured, and the visitors: not started, listening, listening
\* since after the manager was closed, closed.
NoVisitor == [cfg |-> Nil, is |-> "absent"]
Sights == [cfg : Values, is : {"absent", "open", "late", "closed"}] \cup {NoVisitor}

\* Control with its managers.  link tells whether the connection works, was lost, or was
\* closed along with the context.  up holds for each proxy the NewProxy messages (a value)
\* and CloseProxy messages (Nil) on their way, down the answers (accepted or not); those of
\* different proxies do not touch each other.  has is what the server registered, crossed
\* are the proxies that asked again before the last answer came.
Fresh(binding) ==
    [bound |-> binding, link |-> "up", worker |-> "run", wr |-> [p \in Proxies |-> NoWrapper],
     up |-> [p \in Proxies |-> <<>>], down |-> [p \in Proxies |-> <<>>],
     has |-> [p \in Proxies |-> Nil], crossed |-> {},
     vis |-> [v \in Visitors |-> NoVisitor], ticker |-> "off", stopped |-> FALSE]
\* A connection of a user on its way: its work connection was asked for and found the
\* wrapper of a proxy, or it was accepted by a visitor; then it is joined and ends.
Conn(at, k, name, value) == [at |-> at, of |-> k, name |-> name, cfg |-> value]
Over == Conn("over", Nil, Nil, Nil)
Free == [Fresh(FALSE) EXCEPT !.link = "closed", !.worker = "free"]

\* The states of the service, of its goroutines and of its controls.
TypeOK ==
    /\ cfg \in Configs /\ cancelled \in BOOLEAN
    /\ lock \in {Nil, "main", "api", "login"} /\ ctl \in Ids \cup {Nil}
    /\ main \in {"login", "wait", "stop", "pm", "vm", "session", "end"}
    /\ login \in [at : {"dial", "dialing", "install", "startpm", "startvm", "retry", "pm", "vm", "session", "installed", "watch", "end"},
                  first : BOOLEAN, need : BOOLEAN, of : Ids \cup {Nil}]
    /\ api \in [at : {"idle", "updatevm", "updatepm", "pm", "vm", "session"}, of : Ids \cup {Nil}]
    /\ \A k \in Ids :
        /\ control[k].bound \in BOOLEAN /\ control[k].link \in {"up", "cut", "closed"}
        /\ control[k].worker \in {"free", "run", "pm", "vm", "done"}
        /\ control[k].wr \in [Proxies -> Wrappers] /\ control[k].vis \in [Visitors -> Sights]
        /\ control[k].crossed \subseteq Proxies /\ control[k].has \in [Proxies -> Values \cup {Nil}]
        /\ control[k].ticker \in {"off", "on"} /\ control[k].stopped \in BOOLEAN
    /\ conn \in [at : {"none", "asked", "found", "accepted", "joined", "over"}, of : Ids \cup {Nil},
                 name : Proxies \cup Visitors \cup {Nil}, cfg : Values \cup {Nil}]
    /\ foreign \subseteq Visitors /\ cuts \in 0..MaxCuts /\ reloads \in 0..MaxReloads
    /\ stops \in 0..MaxStops

Needs(c) == \E n \in DOMAIN c : c[n] \in Binding
Sub(c, names) == [n \in names |-> c[n]]

\* NewService and the start of Run.
Init ==
  \E start \in Starts :
    /\ cfg = start.cfg /\ cancelled = FALSE /\ lock = Nil /\ ctl = Nil
    /\ main = "login" /\ login = [at |-> "dial", first |-> TRUE, need |-> FALSE, of |-> Nil]
    /\ api = [at |-> "idle", of |-> Nil] /\ control = [k \in Ids |-> Free]
    /\ foreign \in SUBSET {v \in Visitors : cfg[v] # Nil} /\ conn = Conn("none", Nil, Nil, Nil)
    /\ flows = [i \in 1..MaxFlows |-> IF i > start.flows THEN Done ELSE Unused]
    /\ cuts = MaxCuts - start.cuts /\ reloads = MaxReloads - start.reloads
    /\ stops = MaxStops - start.stops

-----------------------------------------------------------------------------
(* The managers: functions on the state of one control. *)

\* Wrapper.Stop of some proxies.  Send drops what a connection no longer takes.
Stop(c, some) ==
    [c EXCEPT !.wr = [p \in Proxies |-> IF p \in some THEN NoWrapper ELSE @[p]],
              !.up = [p \in Proxies |-> IF p \in some /\ c.link = "up" THEN Append(@[p], Nil) ELSE @[p]]]

\* proxy.Manager.Close and UpdateAll.
PmClose(c) == Stop(c, {p \in Proxies : c.wr[p] # NoWrapper})
PmUpdateAll(c, new) ==
    LET kept == Stop(c, {p \in Proxies : c.wr[p] # NoWrapper /\ c.wr[p].cfg # new[p]})
    IN  [kept EXCEPT !.wr = [p \in Proxies |-> IF @[p] = NoWrapper /\ new[p] # Nil
                                               THEN NewWrapper(new[p]) ELSE @[p]]]

\* Visitor.Run of visitor v on control k: its local port has to be free.
Listening(c, v) == c.vis[v].is \in {"open", "late"}
PortFree(k, v) == v \notin foreign /\ \A j \in Ids \ {k} : ~Listening(control[j], v)
StartVisitor(k, v, value, is) == [cfg |-> value, is |-> IF PortFree(k, v) THEN is ELSE "absent"]

\* visitor.Manager.Close, which leaves the closed visitors in the table, and UpdateAll.
VmClose(c) ==
    [c EXCEPT !.vis = [v \in Visitors |-> IF Listening(c, v) THEN [@[v] EXCEPT !.is = "closed"] ELSE @[v]],
              !.stopped = TRUE]
VmUpdateAll(k, c, new) ==
    [c EXCEPT !.vis = [v \in Visitors |->
                          IF @[v].cfg = new[v] THEN @[v]
                          ELSE IF new[v] = Nil THEN NoVisitor
                          ELSE StartVisitor(k, v, new[v], "open")],
              !.ticker = IF \E v \in Visitors : new[v] # Nil THEN "on" ELSE @]

\* closeSession: the context ends and with the connection all that was on its way.  What is
\* left of the wrappers only waits for being stopped, so that their phase no longer matters.
CloseSession(c) ==
    [c EXCEPT !.link = "closed",
              !.wr = [p \in Proxies |-> IF @[p] = NoWrapper THEN NoWrapper ELSE NewWrapper(@[p].cfg)],
              !.up = Free.up, !.down = Free.down, !.has = Free.has, !.crossed = {}]

Put(k, c) == control' = [control EXCEPT ![k] = c]

\* The three parts of GracefulClose, taken by whoever closes control k.
Closing(k, at) ==
    Put(k, CASE at = "pm" -> PmClose(control[k])
             [] at = "vm" -> VmClose(control[k])
             [] at = "session" -> CloseSession(control[k]))
After(at) == CASE at = "pm" -> "vm" [] at = "vm" -> "session"
ClosingAt == {"pm", "vm", "session"}

-----------------------------------------------------------------------------
(* The login loop: loopLoginUntilSuccess, called by Run and then by
   keepControllerWorking. *)

RunUnchanged == UNCHANGED <<cfg, main, api, foreign, conn, flows, boundVars>>
LoginUnchanged == UNCHANGED lock /\ RunUnchanged

\* Dial reads the requirement first; a session has a binding exactly if one was asked for.
DialStart ==
    /\ login.at = "dial" /\ lock # "api"
    /\ login' = [login EXCEPT !.at = "dialing", !.need = Needs(cfg)]
    /\ UNCHANGED <<cancelled, ctl, control>> /\ LoginUnchanged
DialOk ==
    /\ login.at = "dialing" /\ ~cancelled
    /\ login' = [login EXCEPT !.at = "install"]
    /\ UNCHANGED <<cancelled, ctl, control>> /\ LoginUnchanged

\* With loginFailExit a failed first login ends the client; a failure that belongs to a requirement no longer published does not.
DialFails ==
    /\ login.at = "dialing" /\ lock # "api"
    /\ login' = [login EXCEPT !.at = "retry"]
    /\ UNCHANGED cancelled
    /\ UNCHANGED <<ctl, control>> /\ LoginUnchanged
LoginFailExit ==
    /\ login.at = "dialing" /\ lock # "api"
    /\ login.first /\ Needs(cfg) = login.need
    /\ login' = [login EXCEPT !.at = "retry"]
    /\ cancelled' = TRUE
    /\ UNCHANGED <<ctl, control>> /\ LoginUnchanged

\* A control whose place can be used again.
Idle(k) ==
    /\ control[k].worker \in {"free", "done"} /\ k \notin {ctl, login.of, api.of, conn.of}
    /\ \A i \in 1..MaxFlows : Active(flows[i]) => flows[i].of # k
    /\ \A p \in Proxies : control[k].wr[p] = NoWrapper
    /\ \A v \in Visitors : ~Listening(control[k], v)
    /\ control[k].ticker = "off"

\* Under both locks: the session is dropped when the service ended or when the published
\* configuration has another requirement; otherwise a control runs it: its worker first, then
\* its proxies and its visitors, and it is published.
Mut_Outdated == Needs(cfg) # login.need
Outdated == cancelled \/ Needs(cfg) # login.need
InstallRefused ==
    /\ login.at = "install" /\ lock = Nil /\ Outdated
    /\ login' = [login EXCEPT !.at = "retry"]
    /\ UNCHANGED <<cancelled, ctl, control>> /\ LoginUnchanged
Mut_Replaced == IF ctl # Nil /\ control[ctl].worker = "done" THEN Nil ELSE ctl
Replaced == ctl
Install ==
    /\ login.at = "install" /\ lock = Nil /\ ~Outdated
    /\ \E k \in Ids :
        /\ Idle(k) /\ \A j \in Ids : Idle(j) => k <= j
        /\ Put(k, Fresh(login.need))
        /\ login' = [login EXCEPT !.at = "startpm", !.of = k]
    /\ lock' = "login"
    /\ UNCHANGED <<cancelled, ctl>> /\ RunUnchanged
StartProxies ==
    /\ login.at = "startpm"
    /\ Put(login.of, PmUpdateAll(control[login.of], cfg))
    /\ login' = [login EXCEPT !.at = "startvm"]
    /\ UNCHANGED <<cancelled, ctl, lock>> /\ RunUnchanged
StartVisitors ==
    /\ login.at = "startvm"
    /\ Put(login.of, VmUpdateAll(login.of, control[login.of], cfg))
    /\ ctl' = login.of /\ lock' = Nil
    /\ login' = [login EXCEPT !.at = IF Replaced = Nil THEN "installed" ELSE "pm", !.of = Replaced]
    /\ UNCHANGED cancelled /\ RunUnchanged

\* old.Close() of the control that was replaced.
CloseOld ==
    /\ login.at \in ClosingAt
    /\ Closing(login.of, login.at)
    /\ login' = IF login.at = "session" THEN [login EXCEPT !.at = "installed", !.of = Nil]
                ELSE [login EXCEPT !.at = After(@)]
    /\ UNCHANGED <<cancelled, ctl>> /\ LoginUnchanged

\* BackoffUntil: another attempt after the delay unless the service has ended.
Retry ==
    /\ login.at = "retry"
    /\ login' = [login EXCEPT !.at = IF cancelled THEN (IF login.first THEN "installed" ELSE "end") ELSE "dial"]
    /\ UNCHANGED <<cancelled, ctl, control>> /\ LoginUnchanged

\* keepControllerWorking waits until the current control is done and logs in again.
Watch ==
    /\ login.at = "installed" /\ ~login.first /\ lock # "main"
    /\ login' = [login EXCEPT !.at = IF ctl = Nil THEN "retry" ELSE "watch", !.of = ctl]
    /\ UNCHANGED <<cancelled, ctl, control>> /\ LoginUnchanged
ControlDone ==
    /\ login.at = "watch" /\ control[login.of].worker = "done"
    /\ login' = [login EXCEPT !.at = "retry", !.of = Nil]
    /\ UNCHANGED <<cancelled, ctl, control>> /\ LoginUnchanged

LoginStep ==
    \/ DialStart \/ InstallRefused \/ Install \/ StartProxies \/ StartVisitors \/ CloseOld \/ Retry \/ Watch \/ ControlDone
    \/ (cancelled /\ DialFails)

-----------------------------------------------------------------------------
(* Service.Run, GracefulClose and stop. *)

MainUnchanged == UNCHANGED <<cfg, api, foreign, conn, flows, boundVars>>

\* After the first login: keepControllerWorking, or stop when there is no control.
FirstLoginDone ==
    /\ main = "login" /\ login.at = "installed"
    /\ main' = IF ctl = Nil THEN "stop" ELSE "wait"
    /\ login' = [login EXCEPT !.first = FALSE, !.at = IF ctl = Nil THEN "end" ELSE @]
    /\ UNCHANGED <<cancelled, lock, ctl, control>> /\ MainUnchanged
Cancel ==
    /\ ~cancelled /\ cancelled' = TRUE
    /\ stops < MaxStops /\ stops' = stops + 1
    /\ UNCHANGED <<cfg, lock, ctl, main, login, api, control, foreign, conn, flows, cuts, reloads>>
CancelSeen ==
    /\ main = "wait" /\ cancelled /\ main' = "stop"
    /\ UNCHANGED <<cancelled, lock, ctl, login, control>> /\ MainUnchanged

\* stop waits for a running reload (reloadMu), then closes the control under ctlMu.
StopBegins ==
    /\ main = "stop" /\ api.at = "idle" /\ lock = Nil
    /\ main' = IF ctl = Nil THEN "end" ELSE "pm"
    /\ lock' = IF ctl = Nil THEN Nil ELSE "main"
    /\ UNCHANGED <<cancelled, ctl, login, control>> /\ MainUnchanged
StopCloses ==
    /\ main \in ClosingAt
    /\ Closing(ctl, main)
    /\ IF main = "session" THEN main' = "end" /\ ctl' = Nil /\ lock' = Nil
       ELSE main' = After(main) /\ UNCHANGED <<ctl, lock>>
    /\ UNCHANGED <<cancelled, login>> /\ MainUnchanged

MainStep == FirstLoginDone \/ CancelSeen \/ StopBegins \/ StopCloses

-----------------------------------------------------------------------------
(* UpdateAllConfigurer. *)

ApiUnchanged == UNCHANGED <<cancelled, ctl, main, login, foreign, conn, flows, cuts, stops>>

\* The configuration is published; a control that has ended is left alone, one without the
\* binding the configuration needs is closed outside the locks.
Rebinds(c) == Needs(c) /\ ~control[ctl].bound
Reload(c) ==
    /\ api.at = "idle" /\ main \in {"login", "wait"} /\ lock = Nil
    /\ <<cfg, c>> \in Changes /\ reloads < MaxReloads /\ reloads' = reloads + 1
    /\ cfg' = c
    /\ IF ctl = Nil THEN UNCHANGED <<api, lock>>
       ELSE IF control[ctl].link = "closed" THEN UNCHANGED <<api, lock>>
       ELSE IF Rebinds(c) THEN api' = [at |-> "pm", of |-> ctl] /\ UNCHANGED lock
       ELSE api' = [at |-> "updatevm", of |-> ctl] /\ lock' = "api"
    /\ UNCHANGED control /\ ApiUnchanged
UpdateVisitors ==
    /\ api.at = "updatevm"
    /\ Put(api.of, VmUpdateAll(api.of, control[api.of], cfg))
    /\ api' = [api EXCEPT !.at = "updatepm"]
    /\ UNCHANGED <<cfg, lock, reloads>> /\ ApiUnchanged
UpdateProxies ==
    /\ api.at = "updatepm"
    /\ Put(api.of, PmUpdateAll(control[api.of], cfg))
    /\ api' = [at |-> "idle", of |-> Nil] /\ lock' = Nil
    /\ UNCHANGED <<cfg, reloads>> /\ ApiUnchanged
CloseUnbound ==
    /\ api.at \in ClosingAt
    /\ Closing(api.of, api.at)
    /\ api' = IF api.at = "session" THEN [at |-> "idle", of |-> Nil] ELSE [api EXCEPT !.at = After(@)]
    /\ UNCHANGED <<cfg, lock, reloads>> /\ ApiUnchanged

ApiStep == UpdateVisitors \/ UpdateProxies \/ CloseUnbound

-----------------------------------------------------------------------------
(* The goroutines of a control. *)

ControlUnchanged == UNCHANGED <<serviceVars, login, api, foreign, conn, flows, reloads, stops>>

\* The connection is lost; the reader notices and the worker releases everything.
Lose(k) ==
    /\ control[k].link = "up" /\ cuts < MaxCuts /\ cuts' = cuts + 1
    /\ Put(k, [CloseSession(control[k]) EXCEPT !.link = "cut"])
    /\ ControlUnchanged

\* heartbeatWorker gives up, or the server answers a Ping with an error.
HeartbeatFails(k) ==
    /\ control[k].link = "up" /\ cuts < MaxCuts /\ cuts' = cuts + 1
    /\ Put(k, CloseSession(control[k]))
    /\ ControlUnchanged

\* worker: the dispatcher is done, then the managers are closed and doneCh.
WorkerEnds(k) ==
    /\ control[k].worker = "run" /\ control[k].link # "up"
    /\ Put(k, [CloseSession(control[k]) EXCEPT !.worker = "pm"])
    /\ UNCHANGED cuts /\ ControlUnchanged
WorkerClosesProxies(k) ==
    /\ control[k].worker = "pm"
    /\ Put(k, [PmClose(control[k]) EXCEPT !.worker = "vm"])
    /\ UNCHANGED cuts /\ ControlUnchanged
WorkerClosesVisitors(k) ==
    /\ control[k].worker = "vm"
    /\ Put(k, [VmClose(control[k]) EXCEPT !.worker = "done"])
    /\ UNCHANGED cuts /\ ControlUnchanged
WorkerStep(k) == WorkerEnds(k) \/ WorkerClosesProxies(k) \/ WorkerClosesVisitors(k)

\* keepVisitorsRunning: a tick starts what could not be started before.  When the manager
\* was closed meanwhile the select may still choose the tick.
Missing(k) == {v \in Visitors : control[k].vis[v].cfg # Nil /\ control[k].vis[v].is = "absent"}
Tick(k) ==
    /\ control[k].ticker = "on" /\ \E v \in Missing(k) : PortFree(k, v)
    /\ Put(k, [control[k] EXCEPT !.vis = [v \in Visitors |->
            IF v \in Missing(k)
            THEN StartVisitor(k, v, control[k].vis[v].cfg, IF control[k].stopped THEN "late" ELSE "open")
            ELSE @[v]]])
    /\ UNCHANGED cuts /\ ControlUnchanged
TickerEnds(k) ==
    /\ control[k].ticker = "on" /\ control[k].stopped
    /\ Put(k, [control[k] EXCEPT !.ticker = "off"])
    /\ UNCHANGED cuts /\ ControlUnchanged

\* checkWorker, healthy: a proxy that is new, was withdrawn, got no answer in time or was
\* refused some time ago is registered (again).  A wrapper whose connection is gone only
\* waits for being stopped.
Pending(c, p) == Cardinality({i \in DOMAIN c.up[p] : c.up[p][i] # Nil}) + Len(c.down[p])
Asks(k, p) ==
    /\ control[k].link = "up"
    /\ control[k].wr[p] # NoWrapper /\ control[k].wr[p].health = 0
    /\ control[k].wr[p].phase \in {"new", "check failed", "wait start", "start error"}
    /\ Pending(control[k], p) < MaxPending
    /\ Put(k, [control[k] EXCEPT !.wr[p].phase = "wait start",
                                 !.up[p] = Append(@, control[k].wr[p].cfg),
                                 !.crossed = IF Pending(control[k], p) = 0 THEN @ ELSE @ \cup {p}])
    /\ UNCHANGED cuts /\ ControlUnchanged

\* checkWorker, unhealthy: the proxy is withdrawn from the server.
Withdraws(k, p) ==
    /\ control[k].link = "up"
    /\ control[k].wr[p] # NoWrapper /\ control[k].wr[p].health = 1
    /\ control[k].wr[p].phase \in {"running", "wait start"}
    /\ Put(k, [control[k] EXCEPT !.wr[p].phase = "check failed", !.up[p] = Append(@, Nil)])
    /\ UNCHANGED cuts /\ ControlUnchanged

\* Monitor.checkWorker: any check of the local service may pass or fail (doCheck), and
\* failures count up for the life of the monitor.
doCheck(k, p) == control[k].link = "up" /\ control[k].wr[p].cfg \in Monitored
Passes(k, p) ==
    /\ doCheck(k, p) /\ control[k].wr[p].health = 1
    /\ Put(k, [control[k] EXCEPT !.wr[p].health = 0])
    /\ UNCHANGED cuts /\ ControlUnchanged
CountsAsFailed(n) == n >= MaxFailed
Fails(k, p) ==
    LET w == control[k].wr[p]
        n == IF w.failed = MaxFailed THEN w.failed ELSE w.failed + 1
    IN  /\ doCheck(k, p)
        /\ Put(k, [control[k] EXCEPT !.wr[p].failed = n,
                                     !.wr[p].health = IF @ = 0 /\ CountsAsFailed(n) THEN 1 ELSE @])
        /\ UNCHANGED cuts /\ ControlUnchanged

\* handleNewProxyResp: StartProxy and SetRunningStatus.  An answer is taken by whatever
\* wrapper waits for one; a proxy that cannot run after all is closed at the server.
Answered(k, p, w, up) ==
    /\ control[k].down[p] # <<>>
    /\ Put(k, [control[k] EXCEPT !.down[p] = Tail(@), !.wr[p] = w, !.up[p] = up])
    /\ UNCHANGED cuts /\ ControlUnchanged
Waiting(k, p) == control[k].wr[p] # NoWrapper /\ control[k].wr[p].phase = "wait start"
AnswerIgnored(k, p) ==
    /\ ~Waiting(k, p)
    /\ Answered(k, p, control[k].wr[p], control[k].up[p])
ProxyRuns(k, p) ==
    /\ Waiting(k, p) /\ control[k].down[p] # <<>> /\ Head(control[k].down[p])
    /\ Answered(k, p, [control[k].wr[p] EXCEPT !.phase = "running"], control[k].up[p])
ProxyRefused(k, p) ==
    /\ Waiting(k, p) /\ control[k].down[p] # <<>> /\ ~Head(control[k].down[p])
    /\ Answered(k, p, [control[k].wr[p] EXCEPT !.phase = "start error"], control[k].up[p])
Mut_ProxyRunFails(k, p) ==
    /\ Waiting(k, p) /\ control[k].down[p] # <<>> /\ Head(control[k].down[p])
    /\ Answered(k, p, [control[k].wr[p] EXCEPT !.phase = "start error"], control[k].up[p])
ProxyRunFails(k, p) ==
    /\ Waiting(k, p) /\ control[k].down[p] # <<>> /\ Head(control[k].down[p])
    /\ Answered(k, p, [control[k].wr[p] EXCEPT !.phase = "start error"], Append(control[k].up[p], Nil))

\* The server: NewProxy is answered, with an error if the name is still registered or for
\* reasons of its own; CloseProxy is not.
ServerRegisters(k, p, accepts) ==
    LET value == Head(control[k].up[p])
    IN  /\ control[k].up[p] # <<>> /\ value # Nil
        /\ accepts => control[k].has[p] = Nil
        /\ Put(k, [control[k] EXCEPT !.up[p] = Tail(@), !.down[p] = Append(@, accepts),
                                     !.has[p] = IF accepts THEN value ELSE @])
        /\ UNCHANGED cuts /\ ControlUnchanged
ServerCloses(k, p) ==
    /\ control[k].up[p] # <<>> /\ Head(control[k].up[p]) = Nil
    /\ Put(k, [control[k] EXCEPT !.up[p] = Tail(@), !.has[p] = Nil])
    /\ UNCHANGED cuts /\ ControlUnchanged

-----------------------------------------------------------------------------
(* A connection of a user. *)

ConnUnchanged == UNCHANGED <<serviceVars, login, api, control, foreign, boundVars>>

\* A user of a registered proxy: the server asks for a work connection, which
\* handleReqWorkConn opens and on which it waits for StartWorkConn.
Room(value) == value \in Udp \cup Sudp => \E i \in 1..MaxFlows : flows[i] = Unused
ReqWorkConn(k, p) ==
    /\ conn.at = "none" /\ control[k].link = "up" /\ control[k].has[p] \in Used /\ Room(control[k].has[p])
    /\ conn' = Conn("asked", k, p, Nil)
    /\ UNCHANGED flows /\ ConnUnchanged
WorkConnFails ==
    /\ conn.at = "asked" /\ conn' = Over
    /\ UNCHANGED flows /\ ConnUnchanged

\* HandleWorkConn looks the wrapper up; InWorkConn reads its phase later, and starts the
\* goroutine of a proxy that carries datagrams.
HandleWorkConn ==
    /\ conn.at = "asked"
    /\ LET w == control[conn.of].wr[conn.name]
       IN  conn' = IF w = NoWrapper THEN Over ELSE [conn EXCEPT !.at = "found", !.cfg = w.cfg]
    /\ UNCHANGED flows /\ ConnUnchanged
SameRuns ==
    LET c == control[conn.of]
    IN  c.wr[conn.name].cfg = conn.cfg /\ (c.link = "up" => c.wr[conn.name].phase = "running")
\* A flow begins and leaves the place of conn to another one.
Flow(f) ==
    LET i == CHOOSE i \in 1..MaxFlows : flows[i] = Unused /\ \A j \in 1..(i - 1) : flows[j] # Unused
    IN  /\ flows' = [flows EXCEPT ![i] = f]
        /\ conn' = IF \E j \in 1..MaxFlows : j # i /\ flows[j] = Unused THEN Conn("none", Nil, Nil, Nil) ELSE Over
InWorkConn ==
    /\ conn.at = "found"
    /\ IF SameRuns /\ conn.cfg \in Udp \cup Sudp
       THEN Flow(NewFlow(IF conn.cfg \in Udp THEN "udp" ELSE "sudp", conn.of, conn.name, conn.cfg))
       ELSE conn' = (IF SameRuns THEN Conn("joined", Nil, Nil, Nil) ELSE Over) /\ UNCHANGED flows
    /\ ConnUnchanged

\* The proxy or the visitor of a flow was closed.
Gone(f) ==
    IF f.kind = "visitor" THEN control[f.of].vis[f.name].cfg # f.cfg \/ ~Listening(control[f.of], f.name)
    ELSE control[f.of].wr[f.name].cfg # f.cfg
GoneAt == [i \in 1..MaxFlows |-> Flowing(flows[i]) /\ Gone(flows[i])]

\* A user of a visitor: handleConn asks the server for a connection to the proxy.  The
\* dispatcher of a sudp visitor does so with the first datagram after its last connection
\* has ended.
Busy(k, v) == \E i \in 1..MaxFlows : flows[i].kind = "visitor" /\ flows[i].of = k /\ flows[i].name = v
VisitorAccepts(k, v) ==
    /\ conn.at = "none" /\ Listening(control[k], v) /\ control[k].vis[v].cfg \in Used
    /\ ~Busy(k, v) /\ Room(control[k].vis[v].cfg)
    /\ conn' = Conn("accepted", k, v, control[k].vis[v].cfg)
    /\ UNCHANGED flows /\ ConnUnchanged
DialVisitorConn ==
    /\ conn.at = "accepted"
    /\ \/ /\ control[conn.of].link = "up"
          /\ IF conn.cfg \in Sudp THEN Flow(Started(NewFlow("visitor", conn.of, conn.name, conn.cfg)))
             ELSE conn' = Conn("joined", Nil, Nil, Nil) /\ UNCHANGED flows
       \/ conn' = Over /\ UNCHANGED flows
    /\ ConnUnchanged

\* The local service cannot be reached, or either side ends the joined connections.
ConnEnds ==
    /\ conn.at = "joined" /\ conn' = Over
    /\ UNCHANGED flows /\ ConnUnchanged

\* Datagrams: calls of InWorkConn go on, any number of them at once; the far end of a
\* connection goes away; goroutines end; users come and go.
FlowStep(fs) == flows' = fs /\ UNCHANGED conn /\ ConnUnchanged
IsAt(i, kind, at) == Flowing(flows[i]) /\ flows[i].kind = kind /\ flows[i].at = at
UdpCloses(i) == IsAt(i, "udp", "enter") /\ FlowStep(ClosesOld(flows, i))
UdpNames(i) ==
    /\ IsAt(i, "udp", "wrap")
    /\ \E upTo \in [Reading(flows, i) -> 0..Len(Reads)] :
          FlowStep(NamesNew(ReadSome(flows, upTo), GoneAt, i))
UdpStarts(i) == IsAt(i, "udp", "named") /\ FlowStep(StartsAll(flows, i))
SudpStarts(i) == IsAt(i, "sudp", "enter") /\ FlowStep([flows EXCEPT ![i] = Started(flows[i])])
WrapFails(i) ==
    /\ IsAt(i, "udp", "wrap") \/ IsAt(i, "sudp", "enter")
    /\ FlowStep([flows EXCEPT ![i] = Done])
FarEndCloses(i) ==
    /\ Active(flows[i]) /\ flows[i].at = "run" /\ flows[i].peer
    /\ FlowStep([flows EXCEPT ![i].peer = FALSE])
FlowEnds(i) ==
    /\ Active(flows[i]) /\ Ending(flows, GoneAt, i) # {}
    /\ FlowStep(GoroutinesEnd(flows, GoneAt, i))

\* A packet arrives for a reader: its channel is closed, or a Forwarder gets it.
UserSends(i) ==
    /\ Active(flows[i]) /\ "reader" \in flows[i].run /\ flows[i].peer /\ ~Shut(flows[i], GoneAt[i])
    /\ \/ /\ flows[i].kind = "udp"
          /\ LET c == ChannelOf(flows[i], "reader") IN Shut(flows[c], GoneAt[c])
          /\ FlowStep([flows EXCEPT ![i] = Without(@, GoneAt[i], {"reader"})])
       \/ \E j \in Receivers(flows, i) :
             /\ {"forwarder", "socket"} \cap flows[j].run = {"forwarder"}
             /\ FlowStep([flows EXCEPT ![j] = SocketOpens(@)])
UserIdle(i) ==
    /\ Active(flows[i]) /\ "socket" \in flows[i].run
    /\ FlowStep([flows EXCEPT ![i] = SocketTimesOut(@, GoneAt[i])])

CallStep(i) == UdpCloses(i) \/ UdpNames(i) \/ UdpStarts(i) \/ SudpStarts(i) \/ WrapFails(i) \/ FlowEnds(i)
ConnStep == WorkConnFails \/ HandleWorkConn \/ InWorkConn \/ DialVisitorConn \/ ConnEnds

-----------------------------------------------------------------------------
\* Another program gives up the port of a visitor.
PortReleased(v) ==
    /\ v \in foreign /\ foreign' = foreign \ {v}
    /\ UNCHANGED <<serviceVars, login, api, control, conn, flows, boundVars>>

ProxyStep(k, p) ==
    \/ Asks(k, p) \/ Withdraws(k, p) \/ Passes(k, p) \/ Fails(k, p)
    \/ AnswerIgnored(k, p) \/ ProxyRuns(k, p) \/ ProxyRefused(k, p) \/ ProxyRunFails(k, p)
    \/ ServerCloses(k, p) \/ \E accepts \in BOOLEAN : ServerRegisters(k, p, accepts)

Next ==
    \/ LoginStep \/ DialOk \/ DialFails \/ LoginFailExit \/ MainStep \/ Cancel
    \/ (\E c \in Configs : Reload(c)) \/ ApiStep
    \/ \E k \in Ids : Lose(k) \/ HeartbeatFails(k) \/ WorkerStep(k) \/ Tick(k) \/ TickerEnds(k)
    \/ \E k \in Ids, p \in Proxies : ProxyStep(k, p)
    \/ \E v \in Visitors : PortReleased(v)
    \/ (\E k \in Ids, p \in Proxies : ReqWorkConn(k, p)) \/ (\E k \in Ids, v \in Visitors : VisitorAccepts(k, v))
    \/ ConnStep
    \/ \E i \in 1..MaxFlows : CallStep(i) \/ FarEndCloses(i) \/ UserSends(i) \/ UserIdle(i)

\* Goroutines run, other programs give up their ports and the server can be reached again
\* and again.
Spec ==
    /\ Init /\ [][Next]_vars
    /\ WF_vars(LoginStep) /\ SF_vars(DialOk) /\ WF_vars(MainStep) /\ WF_vars(ApiStep) /\ WF_vars(ConnStep)
    /\ \A k \in Ids : WF_vars(WorkerStep(k)) /\ WF_vars(Tick(k) \/ TickerEnds(k))
    /\ \A v \in Visitors : WF_vars(PortReleased(v))
    /\ \A i \in 1..MaxFlows : WF_vars(CallStep(i))

-----------------------------------------------------------------------------
(* Properties. *)

\* Whatever proxy or visitor exists belongs to the current control or to one that somebody
\* is still going to close (a replaced control, one that a reload closes), and one that
\* needs the XTCP binding belongs to a control that has it.  The exception are visitors that
\* a tick started after their manager was closed.  A udp proxy has one work connection at
\* most that is not being closed, besides one that it named while another call of InWorkConn
\* had closed the old connection and not yet named its own.
Accounted(k) == k \in {ctl, login.of, api.of}
NothingOutlives ==
    /\ \A k \in Ids :
        /\ ~Accounted(k) =>
            /\ \A p \in Proxies : control[k].wr[p] = NoWrapper
            /\ \A v \in Visitors : control[k].vis[v].is # "open"
        /\ \A p \in Proxies : control[k].wr[p].cfg \in Binding => control[k].bound
        /\ \A v \in Visitors : control[k].vis[v].cfg \in Binding => control[k].bound
    /\ \A i, j \in 1..MaxFlows :
        i # j /\ SameProxy(flows[i], flows[j]) /\ {flows[i].at, flows[j].at} \subseteq {"named", "run"} =>
            \/ flows[i].raced \/ flows[j].raced
            \/ Shut(flows[i], GoneAt[i]) \/ Shut(flows[j], GoneAt[j])

\* When nothing is on its way between a control and the server, the server has no proxy that
\* the client dropped, and has exactly the running ones in the version that the client runs
\* (unless an answer may have been taken by a later registration).
ServerAgrees ==
    \A k \in Ids, p \in Proxies :
        LET c == control[k]
        IN  c.link = "up" /\ c.up[p] = <<>> /\ c.down[p] = <<>> =>
                /\ c.has[p] # Nil => c.wr[p] # NoWrapper
                /\ p \notin c.crossed => c.has[p] = IF c.wr[p].phase = "running" THEN c.wr[p].cfg ELSE Nil

\* Once connections are no longer lost the client has a working control that runs the
\* published configuration, each visitor listening unless its port is taken by one that was
\* started late; a client that was cancelled has ended and nothing is left running; and the
\* connection of a user was ended, whatever happened to its control meanwhile.  No goroutine
\* is left that carried datagrams for a proxy, a visitor or a connection that was closed; of
\* a udp proxy, each one that is left reads the connection or uses the channels that the
\* proxy names, or those of a call of InWorkConn that came too late or was overtaken by
\* another one, which nobody need close.
Serving ==
    /\ ctl # Nil /\ control[ctl].link = "up"
    /\ \A p \in Proxies : control[ctl].wr[p].cfg = cfg[p]
    /\ \A v \in Visitors : cfg[v] # Nil =>
        \/ control[ctl].vis[v] = [cfg |-> cfg[v], is |-> "open"]
        \/ \E k \in Ids : control[k].vis[v].is = "late"
Ended ==
    /\ main = "end" /\ ctl = Nil
    /\ \A k \in Ids :
        /\ control[k].worker \in {"free", "done"}
        /\ \A p \in Proxies : control[k].wr[p] = NoWrapper
        /\ \A v \in Visitors : control[k].vis[v].is # "open"
Stays(i) == flows[i].late \/ flows[i].raced \/ (flows[i].held /\ ~Shut(flows[i], GoneAt[i]))
Carries(i) ==
    LET f == flows[i]
    IN  IF f.kind = "udp"
        THEN /\ f.at = "run"
             /\ \A g \in f.run : \/ g = "socket" /\ "forwarder" \in f.run
                                \/ Stays(IF g = "reader" THEN i ELSE ChannelOf(f, g))
        ELSE ~Gone(f) /\ ~f.shut /\ f.peer
Settles ==
    <>[](/\ IF cancelled THEN Ended ELSE Serving
         /\ conn.at \in {"none", "over"}
         /\ \A i \in 1..MaxFlows : Active(flows[i]) => Carries(i))
=============================================================================
