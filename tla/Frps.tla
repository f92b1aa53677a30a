-------------------------------- MODULE Frps --------------------------------
(***************************************************************************)
(* The control sessions of the Go peer's server (peer/frp/server): logins   *)
(* that replace one another under one run id, the hand-over from one        *)
(* generation to the next, the registry of clients, the proxies and the     *)
(* work connections of each control, heartbeats and shutdown.               *)
(*                                                                          *)
(* One login handler, one worker and one message reader run for each        *)
(* control.  What a goroutine does under the run gate, the manager's or the *)
(* control's lifecycle lock is one step.  A gate that is no longer current  *)
(* when it has been locked belongs to an entry that was removed, so that    *)
(* looking the entry up and locking it is one step too.                     *)
(***************************************************************************)
EXTENDS Naturals, FiniteSets

CONSTANTS
    Controls,       \* the logins that may be made; a member is also its ControlID
    RunIDs,         \* run ids that clients log in with
    ClientIDs,      \* client ids that must be unique while online
    NoClient,       \* a login without a client id
    Wires,          \* wire protocols
    Who,            \* the run id, client id and protocol of the logins
    Names,          \* proxy names
    WorkConns,      \* work connections that clients open
    Capacity,       \* poolCount + workConnPoolCapacityOffset
    MaxPorts,       \* MaxPortsPerClient
    Nil

ASSUME FrpsAssumption ==
    /\ Nil \notin Controls \cup RunIDs \cup ClientIDs \cup Names \cup {NoClient} /\ NoClient \notin ClientIDs \cup RunIDs
    /\ ClientIDs \cap RunIDs = {}
    /\ Who \subseteq [run : RunIDs, raw : ClientIDs \cup {NoClient}, wire : Wires]
    /\ Capacity \in Nat /\ MaxPorts \in Nat \ {0}

VARIABLES
    login,          \* [Controls -> where its login handler is]
    who,            \* [Controls -> the run id, client id and protocol of the login]
    state,          \* Control.state
    activated,      \* Control.activated
    barrier,        \* Control.handoffBarrier: the control whose doneCh is awaited
    replaces,       \* the control that the login has replaced
    interrupted,    \* the control's connection has been closed (interruptOnce)
    ctlsByRunID,    \* ControlManager.ctlsByRunID
    closed,         \* ControlManager.closed
    todo,           \* the controls that Close still has to remove and close
    clients,        \* ClientRegistry.clients
    runIndex,       \* ClientRegistry.runIndex
    reader,         \* [Controls -> what Dispatcher.readLoop is doing]
    worker,         \* [Controls -> where Control.worker is]
    proxies,        \* Control.proxies
    portsUsedNum,   \* Control.portsUsedNum
    listening,      \* <<control, name>> pairs whose proxy has run and was not closed
    pxys,           \* proxy.Manager.pxys: name -> its control
    work,           \* [WorkConns -> where the connection is]
    user            \* the user connection that needs a work connection

managerVars == <<ctlsByRunID, closed, todo>>
registryVars == <<clients, runIndex>>
proxyVars == <<proxies, portsUsedNum, listening, pxys>>
lifeVars == <<state, activated, barrier, replaces, interrupted>>
vars == <<login, who, lifeVars, managerVars, registryVars, reader, worker, proxyVars, work, user>>

-----------------------------------------------------------------------------
(* State. *)

NoOne == [run |-> Nil, raw |-> Nil, wire |-> Nil]
States == {"created", "pending", "running", "closing", "closed"}
Logins == {"absent", "add", "replaced", "wait", "complete", "remove", "close", "ended", "done"}
Workers == {"none", "serve", "pool", "proxies", "del", "remove", "finish", "exited"}

\* controlEntry; the run gate needs no state of its own.
Entries == [ctl : Controls, registryOnline : BOOLEAN, registryControlID : Controls \cup {Nil}]
NoEntry == [ctl |-> Nil, registryOnline |-> FALSE, registryControlID |-> Nil]

\* ClientInfo; a client that went offline keeps its record with an empty run id.
ClientInfos == [raw : ClientIDs \cup {NoClient}, run : RunIDs \cup {Nil}, ctl : Controls \cup {Nil}, online : BOOLEAN]
NoInfo == [raw |-> Nil, run |-> Nil, ctl |-> Nil, online |-> FALSE]
Keys == ClientIDs \cup RunIDs

Reading(at, name) == [at |-> at, name |-> name]
Readers ==
    {Reading(at, Nil) : at \in {"none", "reading", "done"}}
        \cup {Reading(at, n) : at \in {"run", "add", "del"}, n \in Names}

\* A work connection that is being verified or waits in the pool of a control; one that
\* a user took or that was closed may come again, as a new one.
At(where, c) == [at |-> where, ctl |-> c]
Places ==
    {At("idle", Nil)} \cup {At(where, c) : where \in {"verify", "pool"}, c \in Controls}
UserPlaces == {At("idle", Nil)} \cup {At("waiting", c) : c \in Controls}

\* The states of controls, entries, registry and connections.
TypeOK ==
    /\ login \in [Controls -> Logins] /\ who \in [Controls -> Who \cup {NoOne}]
    /\ state \in [Controls -> States] /\ activated \in [Controls -> BOOLEAN]
    /\ barrier \in [Controls -> Controls \cup {Nil}] /\ replaces \in [Controls -> Controls \cup {Nil}]
    /\ interrupted \in [Controls -> BOOLEAN]
    /\ ctlsByRunID \in [RunIDs -> Entries \cup {NoEntry}]
    /\ closed \in BOOLEAN /\ todo \subseteq Controls
    /\ clients \in [Keys -> ClientInfos \cup {NoInfo}] /\ runIndex \in [RunIDs -> Keys \cup {Nil}]
    /\ reader \in [Controls -> Readers] /\ worker \in [Controls -> [at : Workers, name : Names \cup {Nil}]]
    /\ proxies \in [Controls -> SUBSET Names] /\ portsUsedNum \in [Controls -> 0..MaxPorts]
    /\ listening \subseteq Controls \X Names /\ pxys \in [Names -> Controls \cup {Nil}]
    /\ work \in [WorkConns -> Places] /\ user \in UserPlaces

\* NewService, with the managers empty and every listener accepting.
Init ==
    /\ login = [c \in Controls |-> "absent"] /\ who = [c \in Controls |-> NoOne]
    /\ state = [c \in Controls |-> "created"] /\ activated = [c \in Controls |-> FALSE]
    /\ barrier = [c \in Controls |-> Nil] /\ replaces = [c \in Controls |-> Nil]
    /\ interrupted = [c \in Controls |-> FALSE]
    /\ ctlsByRunID = [r \in RunIDs |-> NoEntry] /\ closed = FALSE /\ todo = {}
    /\ clients = [k \in Keys |-> NoInfo] /\ runIndex = [r \in RunIDs |-> Nil]
    /\ reader = [c \in Controls |-> Reading("none", Nil)]
    /\ worker = [c \in Controls |-> [at |-> "none", name |-> Nil]]
    /\ proxies = [c \in Controls |-> {}] /\ portsUsedNum = [c \in Controls |-> 0]
    /\ listening = {} /\ pxys = [n \in Names |-> Nil]
    /\ work = [w \in WorkConns |-> At("idle", Nil)] /\ user = At("idle", Nil)

Run(c) == who[c].run
Entry(c) == ctlsByRunID[Run(c)]
Current(c) == who[c] # NoOne /\ Entry(c).ctl = c
Goes(c, where) == login' = [login EXCEPT ![c] = where]

-----------------------------------------------------------------------------
(* The lifecycle of a control. *)

\* Close and markReplaced: a control without a worker is finished at once.
Mut_Ended(s) == IF s \in {"pending", "running"} THEN "closing" ELSE s
Ended(s) ==
    CASE s \in {"created", "pending"} -> "closed"
      [] s = "running" -> "closing"
      [] OTHER -> s
Close(c) ==
    /\ state' = [state EXCEPT ![c] = Ended(@)]
    /\ interrupted' = [interrupted EXCEPT ![c] = TRUE]

\* markReplaced: what the next generation has to wait for.
Mut_Barrier(old) == IF state[old] \in {"created", "pending"} THEN Nil ELSE old
Barrier(old) ==
    CASE state[old] = "created" -> Nil
      [] state[old] = "pending" -> barrier[old]
      [] OTHER -> old

\* What is never looked at again of a control that has ended is reset.
Forgotten(c) == who' = [who EXCEPT ![c] = NoOne] /\ activated' = [activated EXCEPT ![c] = FALSE]

-----------------------------------------------------------------------------
(* The registry of clients. *)

Offline(info) == [info EXCEPT !.run = Nil, !.ctl = Nil, !.online = FALSE]
\* A client without a client id is forgotten when it goes offline.
Gone(info) == IF info.raw = NoClient THEN NoInfo ELSE Offline(info)

Key(c) == IF who[c].raw = NoClient THEN Run(c) ELSE who[c].raw
Conflict(c) ==
    LET info == clients[Key(c)] IN
    who[c].raw # NoClient /\ info.online /\ info.run # Nil /\ info.run # Run(c)

\* RegisterWithControlID, when there is no conflict.
RegisterWithControlID(c) ==
    LET previous == runIndex[Run(c)]
        moved == previous \notin {Nil, Key(c)}
        before == IF moved /\ clients[previous].run = Run(c)
                  THEN [clients EXCEPT ![previous] = Gone(@)] ELSE clients
        replaced == clients[Key(c)].run
        index == [r \in RunIDs |-> IF r = replaced \/ (moved /\ r = Run(c)) THEN Nil ELSE runIndex[r]]
    IN  /\ clients' = [before EXCEPT ![Key(c)] =
                          [raw |-> who[c].raw, run |-> Run(c), ctl |-> c, online |-> TRUE]]
        /\ runIndex' = [index EXCEPT ![Run(c)] = Key(c)]

\* MarkOfflineByRunIDAndControlID.
MarkOffline(r, id) ==
    LET key == runIndex[r]
        matches == key # Nil /\ clients[key].run = r /\ clients[key].ctl = id
        after == IF matches THEN [clients EXCEPT ![key] = Gone(@)] ELSE clients
    IN  /\ clients' = after
        /\ runIndex' = IF key # Nil /\ after[key].run # r THEN [runIndex EXCEPT ![r] = Nil] ELSE runIndex

-----------------------------------------------------------------------------
(* Login. *)

NewControl(c, w) == who' = [who EXCEPT ![c] = w]
\* handleConnection and RegisterControl: a Login is accepted and a control created.
\* One that the protocol, a plugin, the verifier or NewControl refuses changes nothing.
Login(c, w) ==
    /\ login[c] = "absent" /\ ~closed
    /\ NewControl(c, w) /\ Goes(c, "add")
    /\ UNCHANGED <<lifeVars, managerVars, registryVars, reader, worker, proxyVars, work, user>>

Mut_Inherited(old, c) == [NoEntry EXCEPT !.ctl = c]
Inherited(old, c) == [old EXCEPT !.ctl = c]
\* A control that has been created is admitted by the manager, behind what it waits for.
admit(c, states) == [states EXCEPT ![c] = "pending"]
setHandoffBarrier(c, b) == barrier' = [barrier EXCEPT ![c] = b]
\* Add: the new control becomes the current one and inherits what the registry has
\* of its run; the one before is marked as replaced, and Replaced closes its
\* connection afterwards.
Add(c) ==
    LET old == Entry(c).ctl IN
    /\ login[c] = "add" /\ ~closed
    /\ ctlsByRunID' = [ctlsByRunID EXCEPT ![Run(c)] = Inherited(@, c)]
    /\ state' = admit(c, [x \in Controls |-> IF x = old THEN Ended(state[x]) ELSE state[x]])
    /\ setHandoffBarrier(c, IF old = Nil THEN Nil ELSE Barrier(old))
    /\ replaces' = [replaces EXCEPT ![c] = old]
    /\ Goes(c, "replaced")
    /\ UNCHANGED <<who, activated, interrupted, closed, todo, registryVars, reader, worker, proxyVars, work, user>>
AddRefused(c) ==
    /\ login[c] = "add" /\ closed
    /\ Goes(c, "remove")
    /\ UNCHANGED <<who, lifeVars, managerVars, registryVars, reader, worker, proxyVars, work, user>>
Replaced(c) ==
    /\ login[c] = "replaced"
    /\ interrupted' = [x \in Controls |-> interrupted[x] \/ x = replaces[c]]
    /\ replaces' = [replaces EXCEPT ![c] = Nil]
    /\ Goes(c, "wait")
    /\ UNCHANGED <<who, state, activated, barrier, managerVars, registryVars, reader, worker, proxyVars, work, user>>

\* The generation before has let go of everything it owned.
WaitForHandoff(c) == login[c] = "wait" /\ (barrier[c] # Nil => state[barrier[c]] = "closed")

\* Activate registers the control as online, if it is still the current one.
MayActivate(c) == ~closed /\ Current(c) /\ state[c] = "pending" /\ ~Conflict(c)
Activate(c) ==
    /\ WaitForHandoff(c) /\ MayActivate(c)
    /\ RegisterWithControlID(c)
    /\ ctlsByRunID' = [ctlsByRunID EXCEPT ![Run(c)].registryOnline = TRUE, ![Run(c)].registryControlID = c]
    /\ activated' = [activated EXCEPT ![c] = TRUE]
    /\ barrier' = [barrier EXCEPT ![c] = Nil]       \* it has been passed for good
    /\ Goes(c, "complete")
    /\ UNCHANGED <<who, state, replaces, interrupted, closed, todo, reader, worker, proxyVars, work, user>>
ActivateFails(c) ==
    /\ WaitForHandoff(c) /\ ~MayActivate(c)
    /\ barrier' = [barrier EXCEPT ![c] = Nil]
    /\ Goes(c, "remove")
    /\ UNCHANGED <<who, state, activated, replaces, interrupted, managerVars, registryVars, reader, worker, proxyVars, work, user>>

\* completeLogin: the answer is written and the worker started while nobody can
\* replace or close the control.
MayComplete(c) == ~closed /\ Current(c) /\ state[c] = "pending" /\ activated[c]
startLocked(c) ==
    /\ state' = [state EXCEPT ![c] = "running"]
    /\ worker' = [worker EXCEPT ![c].at = "serve"]
    /\ reader' = [reader EXCEPT ![c] = Reading("reading", Nil)]
CompleteLogin(c) ==
    /\ login[c] = "complete" /\ MayComplete(c)
    /\ startLocked(c) /\ Goes(c, "done")
    /\ UNCHANGED <<who, activated, barrier, replaces, interrupted, managerVars, registryVars, proxyVars, work, user>>
\* It was replaced, or the answer could not be written.
CompleteFails(c) ==
    /\ login[c] = "complete"
    /\ Goes(c, "remove")
    /\ UNCHANGED <<who, lifeVars, managerVars, registryVars, reader, worker, proxyVars, work, user>>

\* Remove: the entry goes, and the client offline, only with the current control.
Removed(c) ==
    IF Current(c)
    THEN /\ ctlsByRunID' = [ctlsByRunID EXCEPT ![Run(c)] = NoEntry]
         /\ IF Entry(c).registryOnline THEN MarkOffline(Run(c), Entry(c).registryControlID)
                                       ELSE UNCHANGED registryVars
    ELSE UNCHANGED <<ctlsByRunID, registryVars>>
LoginRemoves(c) ==
    /\ login[c] = "remove"
    /\ Removed(c) /\ Goes(c, "close")
    /\ UNCHANGED <<who, lifeVars, closed, todo, reader, worker, proxyVars, work, user>>
LoginCloses(c) ==
    /\ login[c] = "close"
    /\ Close(c) /\ Goes(c, "ended") /\ Forgotten(c)
    /\ UNCHANGED <<barrier, replaces, managerVars, registryVars, reader, worker, proxyVars, work, user>>

-----------------------------------------------------------------------------
(* Messages of the client, handled one after the other. *)

Sets(c, r) == reader' = [reader EXCEPT ![c] = r]
Idle == Reading("reading", Nil)

\* RegisterProxy: the ports are counted first and given back when it fails. A message
\* that is refused before anything was changed leaves no trace.
NewProxy(c, n) ==
    /\ reader[c] = Idle /\ ~interrupted[c] /\ portsUsedNum[c] + 1 <= MaxPorts /\ pxys[n] = Nil
    /\ portsUsedNum' = [portsUsedNum EXCEPT ![c] = @ + 1]
    /\ Sets(c, Reading("run", n))
    /\ UNCHANGED <<login, who, lifeVars, managerVars, registryVars, worker, proxies, listening, pxys, work, user>>
Refund(c) == portsUsedNum' = [portsUsedNum EXCEPT ![c] = @ - 1]
RunFails(c) ==
    /\ reader[c].at = "run"
    /\ Refund(c) /\ Sets(c, Idle)
    /\ UNCHANGED <<login, who, lifeVars, managerVars, registryVars, worker, proxies, listening, pxys, work, user>>
RunProxy(c) ==
    /\ reader[c].at = "run"
    /\ listening' = listening \cup {<<c, reader[c].name>>}
    /\ Sets(c, Reading("add", reader[c].name))
    /\ UNCHANGED <<login, who, lifeVars, managerVars, registryVars, worker, proxies, portsUsedNum, pxys, work, user>>
\* The name may have been taken since it was looked up; the proxy is closed again.
MayAdd(n) == pxys[n] = Nil
AddProxy(c) ==
    LET n == reader[c].name IN
    /\ reader[c].at = "add" /\ MayAdd(n)
    /\ pxys' = [pxys EXCEPT ![n] = c] /\ proxies' = [proxies EXCEPT ![c] = @ \cup {n}]
    /\ Sets(c, Idle)
    /\ UNCHANGED <<login, who, lifeVars, managerVars, registryVars, worker, portsUsedNum, listening, work, user>>
AddProxyFails(c) ==
    /\ reader[c].at = "add" /\ ~MayAdd(reader[c].name)
    /\ listening' = listening \ {<<c, reader[c].name>>}
    /\ Refund(c) /\ Sets(c, Idle)
    /\ UNCHANGED <<login, who, lifeVars, managerVars, registryVars, worker, proxies, pxys, work, user>>

\* CloseProxy: the proxy is closed, then its name is given up.
CloseProxy(c, n) ==
    /\ reader[c] = Idle /\ ~interrupted[c] /\ n \in proxies[c]
    /\ proxies' = [proxies EXCEPT ![c] = @ \ {n}] /\ Refund(c)
    /\ listening' = listening \ {<<c, n>>}
    /\ Sets(c, Reading("del", n))
    /\ UNCHANGED <<login, who, lifeVars, managerVars, registryVars, worker, pxys, work, user>>
DelProxy(c) ==
    /\ reader[c].at = "del"
    /\ pxys' = [pxys EXCEPT ![reader[c].name] = Nil]
    /\ Sets(c, Idle)
    /\ UNCHANGED <<login, who, lifeVars, managerVars, registryVars, worker, proxies, portsUsedNum, listening, work, user>>

\* The connection fails or was closed; a handler that runs is finished first.
ReadFails(c) ==
    /\ reader[c] = Idle
    /\ Sets(c, Reading("done", Nil))
    /\ UNCHANGED <<login, who, lifeVars, managerVars, registryVars, worker, proxyVars, work, user>>

\* heartbeatWorker, when no valid Ping has come for the heartbeat timeout.
HeartbeatTimeout(c) ==
    /\ worker[c].at = "serve" /\ state[c] # "closed"
    /\ Close(c)
    /\ UNCHANGED <<login, who, activated, barrier, replaces, managerVars, registryVars, reader, worker, proxyVars, work, user>>

-----------------------------------------------------------------------------
(* The worker ends a control. *)

WorkerAt(c, where) == worker' = [worker EXCEPT ![c] = [at |-> where, name |-> Nil]]

\* The reader is done: no new work connection is taken from now on.
WorkerWakes(c) ==
    /\ worker[c].at = "serve" /\ reader[c].at = "done"
    /\ Close(c) /\ WorkerAt(c, "pool")
    /\ UNCHANGED <<login, who, activated, barrier, replaces, managerVars, registryVars, reader, proxyVars, work, user>>

\* The pool's channel is closed and what it holds too.
ClosePool(c) ==
    /\ worker[c].at = "pool"
    /\ work' = [w \in WorkConns |-> IF work[w] = At("pool", c) THEN At("idle", Nil) ELSE work[w]]
    /\ WorkerAt(c, "proxies")
    /\ UNCHANGED <<login, who, lifeVars, managerVars, registryVars, reader, proxyVars, user>>

CloseOneProxy(c, n) ==
    /\ worker[c].at = "proxies" /\ n \in proxies[c]
    /\ proxies' = [proxies EXCEPT ![c] = @ \ {n}]
    /\ listening' = listening \ {<<c, n>>}
    /\ worker' = [worker EXCEPT ![c] = [at |-> "del", name |-> n]]
    /\ UNCHANGED <<login, who, lifeVars, managerVars, registryVars, reader, portsUsedNum, pxys, work, user>>
DelOneProxy(c) ==
    /\ worker[c].at = "del"
    /\ pxys' = [pxys EXCEPT ![worker[c].name] = Nil]
    /\ WorkerAt(c, "proxies")
    /\ UNCHANGED <<login, who, lifeVars, managerVars, registryVars, reader, proxies, portsUsedNum, listening, work, user>>

WorkerRemoves(c) ==
    /\ worker[c].at = "proxies" /\ proxies[c] = {}
    /\ Removed(c) /\ WorkerAt(c, "finish")
    /\ UNCHANGED <<login, who, lifeVars, closed, todo, reader, proxyVars, work, user>>
WorkerFinishes(c) ==
    /\ worker[c].at = "finish"
    /\ state' = [state EXCEPT ![c] = "closed"] /\ WorkerAt(c, "exited") /\ Forgotten(c)
    /\ portsUsedNum' = [portsUsedNum EXCEPT ![c] = 0]
    /\ UNCHANGED <<login, barrier, replaces, interrupted, managerVars, registryVars, reader, proxies, listening, pxys, work, user>>

-----------------------------------------------------------------------------
(* Work connections and the users that need them. *)

\* Service.RegisterWorkConn: the running control of the run id is looked up, and the
\* protocol, the plugins and the verifier have to agree.
NewWorkConn(w, c, wire) ==
    /\ work[w] = At("idle", Nil) /\ ~closed
    /\ Current(c) /\ state[c] = "running" /\ wire = who[c].wire
    /\ work' = [work EXCEPT ![w] = At("verify", c)]
    /\ UNCHANGED <<login, who, lifeVars, managerVars, registryVars, reader, worker, proxyVars, user>>

\* ControlManager.RegisterWorkConn: the control may have been replaced since.
Pool(c) == {w \in WorkConns : work[w] = At("pool", c)}
Mut_MayRegister(c) == ~closed /\ Current(c)
MayRegister(c) == ~closed /\ Current(c) /\ state[c] = "running"
RegisterWorkConn(w) ==
    LET c == work[w].ctl IN
    /\ work[w].at = "verify" /\ MayRegister(c) /\ Cardinality(Pool(c)) < Capacity
    /\ work' = [work EXCEPT ![w] = At("pool", c)]
    /\ UNCHANGED <<login, who, lifeVars, managerVars, registryVars, reader, worker, proxyVars, user>>
\* Whoever refuses the connection, its handler closes it.
WorkConnRefused(w) ==
    /\ work[w].at = "verify"
    /\ work' = [work EXCEPT ![w] = At("idle", Nil)]
    /\ UNCHANGED <<login, who, lifeVars, managerVars, registryVars, reader, worker, proxyVars, user>>

\* GetWorkConn: from the pool, or after asking the client for one.
PoolClosed(c) == worker[c].at \in {"proxies", "del", "finish", "exited"}
UserArrives(c, n) ==
    /\ user = At("idle", Nil) /\ <<c, n>> \in listening
    /\ user' = At("waiting", c)
    /\ UNCHANGED <<login, who, lifeVars, managerVars, registryVars, reader, worker, proxyVars, work>>
GetWorkConn(w) ==
    /\ user.at = "waiting" /\ work[w] = At("pool", user.ctl)
    /\ work' = [work EXCEPT ![w] = At("idle", Nil)] /\ user' = At("idle", Nil)
    /\ UNCHANGED <<login, who, lifeVars, managerVars, registryVars, reader, worker, proxyVars>>
\* The control is closed, or the client opens none in time.
GetWorkConnFails ==
    /\ user.at = "waiting" /\ Pool(user.ctl) = {}
    /\ user' = At("idle", Nil)
    /\ UNCHANGED <<login, who, lifeVars, managerVars, registryVars, reader, worker, proxyVars, work>>

-----------------------------------------------------------------------------
(* Service.Close: the manager takes no more logins and ends every control. *)

Shutdown ==
    /\ ~closed
    /\ closed' = TRUE /\ todo' = {ctlsByRunID[r].ctl : r \in RunIDs} \ {Nil}
    /\ UNCHANGED <<login, who, lifeVars, ctlsByRunID, registryVars, reader, worker, proxyVars, work, user>>
ShutdownCloses(c) ==
    /\ c \in todo
    /\ Removed(c) /\ Close(c) /\ todo' = todo \ {c}
    /\ UNCHANGED <<login, who, activated, barrier, replaces, closed, reader, worker, proxyVars, work, user>>

-----------------------------------------------------------------------------
LoginStep(c) ==
    \/ Add(c) \/ AddRefused(c) \/ Replaced(c) \/ Activate(c) \/ ActivateFails(c)
    \/ CompleteLogin(c) \/ CompleteFails(c) \/ LoginRemoves(c) \/ LoginCloses(c)
HandlerStep(c) ==
    RunFails(c) \/ RunProxy(c) \/ AddProxy(c) \/ AddProxyFails(c) \/ DelProxy(c)
WorkerStep(c) ==
    \/ WorkerWakes(c) \/ ClosePool(c) \/ (\E n \in Names : CloseOneProxy(c, n)) \/ DelOneProxy(c)
    \/ WorkerRemoves(c) \/ WorkerFinishes(c)

Next ==
    \/ \E c \in Controls :
          \/ (\E w \in Who : Login(c, w)) \/ LoginStep(c)
          \/ (\E n \in Names : NewProxy(c, n) \/ CloseProxy(c, n) \/ UserArrives(c, n))
          \/ HandlerStep(c) \/ ReadFails(c) \/ HeartbeatTimeout(c) \/ WorkerStep(c)
          \/ ShutdownCloses(c)
    \/ \E w \in WorkConns :
          \/ (\E c \in Controls, wire \in Wires : NewWorkConn(w, c, wire))
          \/ RegisterWorkConn(w) \/ WorkConnRefused(w) \/ GetWorkConn(w)
    \/ GetWorkConnFails \/ Shutdown

Spec == Init /\ [][Next]_vars

-----------------------------------------------------------------------------
(* What the control manager promises. *)

Owns(c) == proxies[c] # {} \/ Pool(c) # {} \/ (\E n \in Names : <<c, n>> \in listening \/ pxys[n] = c)

\* The current control of its run, registered and not told to end.
Active(c) == activated[c] /\ state[c] \in {"pending", "running"} /\ Current(c)

\* Before a control is registered or answered, no other generation of its run owns a
\* proxy name, a listener or a work connection: a client that reconnects finds its
\* names and ports free (WaitForHandoff, markReplaced, Remove).
HandoverClean ==
    \A c, d \in Controls :
        c # d /\ Run(c) = Run(d) /\ Active(c) => ~Owns(d)

\* The registry shows a client online exactly while an entry of the manager stands for
\* it: nobody stays online without a control, nor goes offline with a predecessor.
RegistryMatches ==
    /\ \A k \in Keys :
          clients[k].online =>
              LET e == ctlsByRunID[clients[k].run] IN
              e.registryOnline /\ e.registryControlID = clients[k].ctl /\ runIndex[clients[k].run] = k
    /\ \A c \in Controls :
          Active(c) => \E k \in Keys : clients[k].online /\ clients[k].ctl = c

\* A control that is finished has left nothing behind, a proxy name belongs to the
\* control that runs it, ports are counted once, and no connection is put into a pool
\* that has been closed.
NothingLeft ==
    /\ \A c \in Controls :
          /\ state[c] = "closed" => ~Owns(c)
          /\ PoolClosed(c) => Pool(c) = {}
          /\ reader[c].at # "none" /\ worker[c].at \in {"serve", "pool"} =>
                portsUsedNum[c] = Cardinality(proxies[c]) + (IF reader[c].at \in {"run", "add"} THEN 1 ELSE 0)
    /\ \A n \in Names :
          pxys[n] # Nil => n \in proxies[pxys[n]] \/ reader[pxys[n]] = Reading("del", n) \/ worker[pxys[n]].name = n

\* Nobody waits for what will not come: a login that waits for an earlier generation
\* waits for one whose worker runs and whose connection is closed or about to be, and
\* after a shutdown that is true of every control that is not finished.
Ending(c) ==
    /\ worker[c].at \notin {"none", "exited"}
    /\ interrupted[c] \/ \E d \in Controls : login[d] = "replaced" /\ replaces[d] = c
HandoffEnds ==
    \A c \in Controls :
        /\ login[c] \in {"replaced", "wait"} /\ barrier[c] # Nil =>
              state[barrier[c]] = "closed" \/ Ending(barrier[c])
        /\ closed /\ todo = {} /\ state[c] \in {"running", "closing"} => Ending(c)

=============================================================================
