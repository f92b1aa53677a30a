---------------------------- MODULE FrpsProofs ----------------------------
(* Proofs about the control sessions of the server, for any number of logins, run ids,
   clients, proxies and work connections. *)
EXTENDS Frps, FiniteSetTheorems, TLAPS

USE FrpsAssumption

-----------------------------------------------------------------------------
(* The inductive invariant. *)

\* The worker of a control runs, and what it may still own.
Alive(c) == worker[c].at \notin {"none", "exited"}
MayOwn(c) == worker[c].at \in {"serve", "pool", "proxies", "del"}

\* Where the login handler, the worker and the reader of a control can be in each state.
Life(c) ==
    /\ login[c] \in {"absent", "add"} => state[c] = "created"
    /\ login[c] \in {"replaced", "wait", "complete"} => state[c] \in {"pending", "closed"}
    /\ login[c] \in {"remove", "close"} => state[c] \in {"created", "pending", "closed"}
    /\ login[c] = "ended" => state[c] = "closed"
    /\ login[c] = "done" <=> worker[c].at # "none"
    /\ state[c] \in {"running", "closing"} <=> Alive(c)
    /\ state[c] = "running" => worker[c].at = "serve"
    /\ who[c] = NoOne <=> login[c] \in {"absent", "ended"} \/ worker[c].at = "exited"
    /\ activated[c] => login[c] \in {"complete", "remove", "close", "done"}
    /\ login[c] = "done" /\ Alive(c) => activated[c]
    /\ reader[c].at = "none" <=> worker[c].at = "none"
    /\ reader[c].at \in {"reading", "run", "add", "del"} => worker[c].at = "serve"
    /\ worker[c].at # "del" => worker[c].name = Nil
    /\ worker[c].at = "del" => worker[c].name # Nil
    /\ worker[c].at \notin {"none", "serve"} => interrupted[c]

\* The entries of the manager: the current control of a run logged in under it and was
\* neither told to end before it ran nor removed.
Entered(c) ==
    /\ Current(c) => state[c] \in {"pending", "running", "closing"} /\ login[c] \notin {"absent", "add", "close", "ended"}
    /\ Current(c) => worker[c].at \notin {"finish", "exited"}
    /\ state[c] = "running" => Current(c)
    /\ state[c] = "pending" /\ login[c] # "close" => Current(c)
    /\ closed /\ Current(c) => c \in todo
    /\ c \in todo => login[c] \notin {"absent", "add"}
Manager ==
    /\ \A r \in RunIDs : ctlsByRunID[r].ctl # Nil => who[ctlsByRunID[r].ctl] # NoOne /\ Run(ctlsByRunID[r].ctl) = r
    /\ \A r \in RunIDs : ctlsByRunID[r].ctl = Nil => ctlsByRunID[r] = NoEntry
    /\ todo # {} => closed

\* What a login waits for: the one control of its run that may still own something.
Handover(c) ==
    /\ barrier[c] # Nil => login[c] \in {"replaced", "wait"} /\ state[barrier[c]] \in {"closing", "closed"}
    /\ MayOwn(c) => LET e == Entry(c).ctl IN e = c \/ (e = Nil /\ closed) \/ (e # Nil /\ barrier[e] = c)

\* A control that goes on without being current has been or will be interrupted.
Interrupted(c) == interrupted[c] \/ \E d \in Controls : login[d] = "replaced" /\ replaces[d] = c
Endings(c) ==
    /\ state[c] \in {"running", "closing"} => Current(c) \/ Interrupted(c)
    /\ barrier[c] # Nil => state[barrier[c]] = "closed" \/ Interrupted(barrier[c])

\* The registry: an online client, its run's index and the entry of its run agree.
Registry ==
    /\ \A k \in Keys : clients[k].online =>
          /\ clients[k].run \in RunIDs /\ runIndex[clients[k].run] = k
          /\ ctlsByRunID[clients[k].run].registryOnline
          /\ ctlsByRunID[clients[k].run].registryControlID = clients[k].ctl
    /\ \A k \in Keys : ~clients[k].online => clients[k].run = Nil
    /\ \A r \in RunIDs : runIndex[r] # Nil => clients[runIndex[r]].run = r
    /\ \A r \in RunIDs : ctlsByRunID[r].registryOnline => runIndex[r] # Nil
    /\ \A k \in RunIDs : clients[k].run # Nil => clients[k].run = k
    /\ \A c \in Controls : activated[c] /\ Current(c) => Entry(c).registryOnline /\ Entry(c).registryControlID = c

\* Proxies: a name in a control's map is registered and listening, and whatever is
\* registered or listening is in a map or in the hands of a reader or worker.
Proxying(c) ==
    /\ \A n \in proxies[c] : pxys[n] = c /\ <<c, n>> \in listening
    /\ \A n \in Names : <<c, n>> \in listening => n \in proxies[c] \/ (reader[c].at = "add" /\ reader[c].name = n)
    /\ \A n \in Names : pxys[n] = c => n \in proxies[c] \/ (reader[c].at = "del" /\ reader[c].name = n)
                                                        \/ (worker[c].at = "del" /\ worker[c].name = n)
    /\ reader[c].at \in {"run", "add", "del"} => reader[c].name \notin proxies[c]
    /\ reader[c].at = "add" => <<c, reader[c].name>> \in listening
    /\ reader[c].at = "del" => pxys[reader[c].name] = c
    /\ worker[c].at = "del" => pxys[worker[c].name] = c /\ worker[c].name \notin proxies[c]
    /\ ~MayOwn(c) => proxies[c] = {}

\* Ports: one for every proxy and one for the proxy that is being registered.
Counting(c) ==
    /\ IsFiniteSet(proxies[c])
    /\ worker[c].at = "none" => portsUsedNum[c] = 0
    /\ worker[c].at \in {"serve", "pool"} =>
          portsUsedNum[c] = Cardinality(proxies[c]) + (IF reader[c].at \in {"run", "add"} THEN 1 ELSE 0)

\* A work connection waits in a pool that is not closed.
Pooling == \A w \in WorkConns : work[w].at = "pool" => worker[work[w].ctl].at \in {"serve", "pool"}

Inv ==
    /\ TypeOK
    /\ \A c \in Controls : Life(c) /\ Entered(c) /\ Handover(c) /\ Endings(c) /\ Proxying(c) /\ Counting(c)
    /\ Manager /\ Registry /\ Pooling

-----------------------------------------------------------------------------
(* The steps, by what they change. *)

\* Proxies are registered and closed by the reader; work connections and users come and go.
ReaderStep(c) ==
    (\E n \in Names : NewProxy(c, n) \/ CloseProxy(c, n)) \/ HandlerStep(c) \/ ReadFails(c)
WorkStep ==
    \/ \E w \in WorkConns :
          \/ \E c \in Controls, wire \in Wires : NewWorkConn(w, c, wire)
          \/ RegisterWorkConn(w) \/ WorkConnRefused(w) \/ GetWorkConn(w)
    \/ (\E c \in Controls, n \in Names : UserArrives(c, n)) \/ GetWorkConnFails
ControlStep(c) ==
    \/ (\E w \in Who : Login(c, w)) \/ LoginStep(c) \/ ReaderStep(c) \/ HeartbeatTimeout(c)
    \/ WorkerStep(c) \/ ShutdownCloses(c)

\* Every step is one of a control, of a work connection or user, or the shutdown.
LEMMA Steps ==
    ASSUME Next
    PROVE  (\E c \in Controls : ControlStep(c)) \/ WorkStep \/ Shutdown
  BY DEF Next, ControlStep, ReaderStep, WorkStep

\* What the steps leave alone.
LEMMA Frames ==
    /\ WorkStep => UNCHANGED <<login, who, lifeVars, managerVars, registryVars, reader, worker, proxyVars>>
    /\ \A c : ReaderStep(c) => UNCHANGED <<login, who, lifeVars, managerVars, registryVars, worker, work, user>>
<1>1. WorkStep => UNCHANGED <<login, who, lifeVars, managerVars, registryVars, reader, worker, proxyVars>>
  BY DEF WorkStep, NewWorkConn, RegisterWorkConn, WorkConnRefused, GetWorkConn, UserArrives, GetWorkConnFails
<1>2. \A c : ReaderStep(c) => UNCHANGED <<login, who, lifeVars, managerVars, registryVars, worker, work, user>>
  BY DEF ReaderStep, HandlerStep, NewProxy, CloseProxy, RunFails, RunProxy, AddProxy, AddProxyFails, DelProxy, ReadFails
<1> QED
  BY <1>1, <1>2

-----------------------------------------------------------------------------
(* The manager's entries and the control that is current. *)

\* Who logged in is nobody or a member of Who, whose run id is one of the run ids.
LEMMA Logged ==
    ASSUME TypeOK, NEW c \in Controls, who[c] # NoOne
    PROVE  who[c] \in Who /\ Run(c) \in RunIDs /\ Entry(c) \in Entries \cup {NoEntry} /\ Key(c) \in Keys
  BY DEF TypeOK, Run, Entry, Key, Keys

\* Remove takes a current control away and changes no other entry.
LEMMA RemovedEntries ==
    ASSUME TypeOK, NEW c \in Controls, Removed(c), who' = who
    PROVE  /\ ctlsByRunID' = [r \in RunIDs |-> IF Current(c) /\ r = Run(c) THEN NoEntry ELSE ctlsByRunID[r]]
           /\ \A x \in Controls : Current(x)' <=> Current(x) /\ x # c
<1>1. ctlsByRunID' = [r \in RunIDs |-> IF Current(c) /\ r = Run(c) THEN NoEntry ELSE ctlsByRunID[r]]
  BY Logged DEF Removed, TypeOK, Current
<1>2. ASSUME NEW x \in Controls PROVE Current(x)' <=> Current(x) /\ x # c
  <2>1. CASE who[x] = NoOne
    BY <2>1 DEF Current
  <2>2. CASE who[x] # NoOne
    BY <1>1, <2>2, Logged DEF Current, Entry, Run, NoEntry
  <2> QED
    BY <2>1, <2>2
<1> QED
  BY <1>1, <1>2

\* Add makes the control the current one in place of the one before.
LEMMA AddEntries ==
    ASSUME Inv, NEW c \in Controls, Add(c)
    PROVE  /\ who[c] # NoOne /\ Run(c) \in RunIDs
           /\ Entry(c).ctl \in Controls \cup {Nil} /\ Entry(c).ctl # c
           /\ Entry(c).ctl # Nil => Current(Entry(c).ctl) /\ Run(Entry(c).ctl) = Run(c)
           /\ ctlsByRunID' = [r \in RunIDs |-> IF r = Run(c) THEN Inherited(ctlsByRunID[r], c) ELSE ctlsByRunID[r]]
           /\ Inherited(Entry(c), c) \in Entries /\ Inherited(Entry(c), c).ctl = c
           /\ Inherited(Entry(c), c).registryOnline = Entry(c).registryOnline
           /\ Inherited(Entry(c), c).registryControlID = Entry(c).registryControlID
           /\ \A x \in Controls : Current(x)' <=> x = c \/ (Current(x) /\ Run(x) # Run(c))
<1>1. who[c] # NoOne /\ Run(c) \in RunIDs
  BY Logged DEF Inv, Life, Add
<1>2. Entry(c).ctl \in Controls \cup {Nil} /\ Entry(c) \in Entries \cup {NoEntry}
  BY <1>1, Logged DEF Inv, Entries, NoEntry
<1>3. Entry(c).ctl # c
  BY <1>1, <1>2 DEF Inv, Entered, Current, Add
<1>4. Entry(c).ctl # Nil => Current(Entry(c).ctl) /\ Run(Entry(c).ctl) = Run(c)
  BY <1>1, <1>2 DEF Inv, Manager, Current, Entry, Run
<1>5. ctlsByRunID' = [r \in RunIDs |-> IF r = Run(c) THEN Inherited(ctlsByRunID[r], c) ELSE ctlsByRunID[r]]
  BY <1>1 DEF Inv, TypeOK, Add
<1>6. /\ Inherited(Entry(c), c) \in Entries /\ Inherited(Entry(c), c).ctl = c
      /\ Inherited(Entry(c), c).registryOnline = Entry(c).registryOnline
      /\ Inherited(Entry(c), c).registryControlID = Entry(c).registryControlID
  <2>1. Entry(c) \in [ctl : Controls \cup {Nil}, registryOnline : BOOLEAN, registryControlID : Controls \cup {Nil}]
    <3>1. CASE Entry(c) \in Entries
      BY <3>1 DEF Entries
    <3>2. CASE Entry(c) = NoEntry
      BY <3>2 DEF NoEntry
    <3> QED
      BY <1>2, <3>1, <3>2
  <2> QED
    BY <2>1 DEF Inherited, Entries
<1>7. ASSUME NEW x \in Controls PROVE Current(x)' <=> x = c \/ (Current(x) /\ Run(x) # Run(c))
  <2>1. CASE who[x] = NoOne
    BY <1>1, <2>1 DEF Current, Add
  <2>2. CASE who[x] # NoOne
    <3>1. Run(x) \in RunIDs /\ who' = who
      BY <2>2, Logged DEF Inv, Add
    <3>2. Current(x)' <=> ctlsByRunID'[Run(x)].ctl = x
      BY <2>2, <3>1 DEF Current, Entry, Run
    <3>3. ctlsByRunID'[Run(x)].ctl = IF Run(x) = Run(c) THEN c ELSE ctlsByRunID[Run(x)].ctl
      BY <1>5, <1>6, <3>1 DEF Entry
    <3> QED
      BY <2>2, <3>2, <3>3 DEF Current, Entry
  <2> QED
    BY <2>1, <2>2
<1> QED
  BY <1>1, <1>2, <1>3, <1>4, <1>5, <1>6, <1>7

-----------------------------------------------------------------------------
(* Type correctness. *)

\* How many ports a control has to give back.
LEMMA Ports ==
    ASSUME Inv, NEW c \in Controls
    PROVE  /\ reader[c].at \in {"run", "add"} => portsUsedNum[c] >= 1
           /\ reader[c].at = "reading" /\ proxies[c] # {} => portsUsedNum[c] >= 1
<1>1. IsFiniteSet(proxies[c]) /\ Cardinality(proxies[c]) \in Nat
  BY FS_CardinalityType DEF Inv, Counting
<1>2. proxies[c] # {} => Cardinality(proxies[c]) >= 1
  BY <1>1, FS_EmptySet
<1>3. reader[c].at \in {"reading", "run", "add"} =>
        portsUsedNum[c] = Cardinality(proxies[c]) + (IF reader[c].at \in {"run", "add"} THEN 1 ELSE 0)
  BY DEF Inv, Counting, Life
<1> QED
  BY <1>1, <1>2, <1>3

\* The reader's states.
LEMMA ReaderShapes ==
    ASSUME TypeOK, NEW c \in Controls
    PROVE  /\ reader[c].at \in {"run", "add", "del"} => reader[c].name \in Names /\ reader[c] = Reading(reader[c].at, reader[c].name)
           /\ reader[c] = Idle <=> reader[c].at = "reading"
           /\ reader[c].at \in {"none", "reading", "done", "run", "add", "del"}
           /\ Idle \in Readers /\ Reading("done", Nil) \in Readers
           /\ \A n \in Names, at \in {"run", "add", "del"} : Reading(at, n) \in Readers
<1>1. PICK at, name : /\ reader[c] = Reading(at, name)
                     /\ \/ at \in {"none", "reading", "done"} /\ name = Nil
                        \/ at \in {"run", "add", "del"} /\ name \in Names
  BY DEF TypeOK, Readers
<1>2. reader[c].at = at /\ reader[c].name = name
  BY <1>1 DEF Reading
<1>3. reader[c] = Idle <=> reader[c].at = "reading"
  BY <1>1, <1>2 DEF Reading, Idle
<1>4. Idle \in Readers /\ Reading("done", Nil) \in Readers /\ \A n \in Names, a \in {"run", "add", "del"} : Reading(a, n) \in Readers
  BY DEF Readers, Idle
<1> QED
  BY <1>1, <1>2, <1>3, <1>4

\* What the registry keeps of a client is of its type.
LEMMA GoneType ==
    ASSUME NEW info \in ClientInfos \cup {NoInfo}
    PROVE  /\ Gone(info) \in ClientInfos \cup {NoInfo}
           /\ Gone(info).run = Nil /\ Gone(info).online = FALSE
<1>1. CASE info \in ClientInfos
  BY <1>1 DEF Gone, Offline, ClientInfos, NoInfo
<1>2. CASE info = NoInfo
  <2>1. info.raw # NoClient
    BY <1>2 DEF NoInfo
  <2>2. Offline(info) = NoInfo
    <3>1. info \in [raw : {Nil}, run : {Nil}, ctl : {Nil}, online : {FALSE}]
      BY <1>2 DEF NoInfo
    <3>2. Offline(info) \in [raw : {Nil}, run : {Nil}, ctl : {Nil}, online : {FALSE}]
      BY <3>1 DEF Offline
    <3> QED
      BY <3>2 DEF NoInfo
  <2> QED
    BY <2>1, <2>2 DEF Gone, NoInfo
<1> QED
  BY <1>1, <1>2

\* Going offline.
LEMMA RemovedType ==
    ASSUME TypeOK, NEW c \in Controls, Removed(c)
    PROVE  (ctlsByRunID \in [RunIDs -> Entries \cup {NoEntry}])'
           /\ (clients \in [Keys -> ClientInfos \cup {NoInfo}])' /\ (runIndex \in [RunIDs -> Keys \cup {Nil}])'
<1>1. CASE Current(c) /\ Entry(c).registryOnline
  <2>1. Run(c) \in RunIDs
    BY <1>1, Logged DEF Current
  <2> DEFINE key == runIndex[Run(c)]
             after == IF key # Nil /\ clients[key].run = Run(c) /\ clients[key].ctl = Entry(c).registryControlID
                      THEN [clients EXCEPT ![key] = Gone(@)] ELSE clients
  <2>2. key \in Keys \cup {Nil}
    BY <2>1 DEF TypeOK
  <2>3. after \in [Keys -> ClientInfos \cup {NoInfo}]
    BY <2>2, GoneType DEF TypeOK
  <2>4. clients' = after /\ runIndex' = IF key # Nil /\ after[key].run # Run(c) THEN [runIndex EXCEPT ![Run(c)] = Nil] ELSE runIndex
    BY <1>1 DEF Removed, MarkOffline
  <2>5. ctlsByRunID' = [ctlsByRunID EXCEPT ![Run(c)] = NoEntry]
    BY <1>1 DEF Removed
  <2> HIDE DEF after
  <2> QED
    BY <2>1, <2>3, <2>4, <2>5 DEF TypeOK
<1>2. CASE ~(Current(c) /\ Entry(c).registryOnline)
  BY <1>2 DEF Removed, registryVars, TypeOK
<1> QED
  BY <1>1, <1>2

\* Coming online.
LEMMA RegisterType ==
    ASSUME TypeOK, NEW c \in Controls, who[c] # NoOne, RegisterWithControlID(c)
    PROVE  (clients \in [Keys -> ClientInfos \cup {NoInfo}])' /\ (runIndex \in [RunIDs -> Keys \cup {Nil}])'
<1>1. Run(c) \in RunIDs /\ Key(c) \in Keys /\ who[c].raw \in ClientIDs \cup {NoClient}
  BY Logged
<1> DEFINE previous == runIndex[Run(c)]
           moved == previous \notin {Nil, Key(c)}
           before == IF moved /\ clients[previous].run = Run(c) THEN [clients EXCEPT ![previous] = Gone(@)] ELSE clients
           new == [raw |-> who[c].raw, run |-> Run(c), ctl |-> c, online |-> TRUE]
           index == [r \in RunIDs |-> IF r = clients[Key(c)].run \/ (moved /\ r = Run(c)) THEN Nil ELSE runIndex[r]]
<1>2. before \in [Keys -> ClientInfos \cup {NoInfo}]
  BY <1>1, GoneType DEF TypeOK
<1>3. new \in ClientInfos
  BY <1>1 DEF ClientInfos
<1>4. index \in [RunIDs -> Keys \cup {Nil}]
  BY DEF TypeOK
<1>5. clients' = [before EXCEPT ![Key(c)] = new] /\ runIndex' = [index EXCEPT ![Run(c)] = Key(c)]
  BY DEF RegisterWithControlID
<1> HIDE DEF before, new, index
<1> QED
  BY <1>1, <1>2, <1>3, <1>4, <1>5

\* A control's steps keep the types.
LEMMA TypeControl ==
    ASSUME Inv, NEW c \in Controls, ControlStep(c)
    PROVE  TypeOK'
<1> TypeOK
  BY DEF Inv
<1> USE DEF TypeOK, Goes, Sets, lifeVars, managerVars, registryVars, proxyVars
<1>1. ASSUME NEW w \in Who, Login(c, w) PROVE TypeOK'
  BY <1>1 DEF Login, NewControl, Logins
<1>2. ASSUME Add(c) PROVE TypeOK'
  <2>1. (ctlsByRunID \in [RunIDs -> Entries \cup {NoEntry}])'
    BY <1>2, AddEntries DEF Entry
  <2>2. \A s \in States : Ended(s) \in States
    BY DEF Ended, States
  <2>3. (state \in [Controls -> States])'
    BY <1>2, <2>2 DEF Add, admit, States
  <2>4. Entry(c).ctl \in Controls \cup {Nil} /\ (Entry(c).ctl # Nil => Barrier(Entry(c).ctl) \in Controls \cup {Nil})
    BY <1>2, AddEntries DEF Barrier
  <2> QED
    BY <1>2, <2>1, <2>3, <2>4 DEF Add, setHandoffBarrier, Logins
<1>3. ASSUME AddRefused(c) \/ CompleteFails(c) \/ Replaced(c) \/ ActivateFails(c) PROVE TypeOK'
  BY <1>3 DEF AddRefused, CompleteFails, Replaced, ActivateFails, Logins
<1>4. ASSUME Activate(c) PROVE TypeOK'
  <2>1. Current(c) /\ who[c] # NoOne /\ Run(c) \in RunIDs
    BY <1>4, Logged DEF Activate, MayActivate, Current
  <2>2. Entry(c) \in Entries
    BY <2>1, Logged DEF Current, NoEntry
  <2>3. [Entry(c) EXCEPT !.registryOnline = TRUE, !.registryControlID = c] \in Entries
    BY <2>2 DEF Entries
  <2>4. ctlsByRunID' = [ctlsByRunID EXCEPT ![Run(c)] = [Entry(c) EXCEPT !.registryOnline = TRUE, !.registryControlID = c]]
    BY <1>4, <2>1 DEF Activate, Entry
  <2>5. (ctlsByRunID \in [RunIDs -> Entries \cup {NoEntry}])'
    BY <2>1, <2>3, <2>4
  <2> QED
    BY <1>4, <2>1, <2>5, RegisterType DEF Activate, Logins
<1>5. ASSUME CompleteLogin(c) PROVE TypeOK'
  <2>1. (worker \in [Controls -> [at : Workers, name : Names \cup {Nil}]])'
    <3>1. [worker[c] EXCEPT !.at = "serve"] \in [at : Workers, name : Names \cup {Nil}]
      <4>1. PICK w \in [at : Workers, name : Names \cup {Nil}] : w = worker[c]
        OBVIOUS
      <4>2. [w EXCEPT !.at = "serve"] \in [at : Workers, name : Names \cup {Nil}]
        BY DEF Workers
      <4> QED
        BY <4>1, <4>2
    <3>2. worker' = [worker EXCEPT ![c] = [worker[c] EXCEPT !.at = "serve"]]
      BY <1>5 DEF CompleteLogin, startLocked
    <3> QED
      BY <3>1, <3>2
  <2> QED
    BY <1>5, <2>1, ReaderShapes DEF CompleteLogin, startLocked, Logins, States, Idle
<1>6. ASSUME LoginRemoves(c) PROVE TypeOK'
  BY <1>6, RemovedType DEF LoginRemoves, Logins
<1>7. \A s \in States : Ended(s) \in States
  BY DEF Ended, States
<1>8. ASSUME LoginCloses(c) PROVE TypeOK'
  BY <1>7, <1>8 DEF LoginCloses, Close, Forgotten, Logins
<1>9. ASSUME ReaderStep(c) PROVE TypeOK'
  <2>1. ASSUME NEW n \in Names, NewProxy(c, n) PROVE TypeOK'
    BY <2>1, ReaderShapes DEF NewProxy
  <2>2. ASSUME NEW n \in Names, CloseProxy(c, n) PROVE TypeOK'
    <3>1. portsUsedNum[c] \in 1..MaxPorts
      BY <2>2, Ports, ReaderShapes DEF CloseProxy
    <3> QED
      BY <2>2, <3>1, ReaderShapes DEF CloseProxy, Refund
  <2>3. ASSUME RunFails(c) \/ AddProxyFails(c) PROVE TypeOK'
    <3>1. portsUsedNum[c] \in 1..MaxPorts
      BY <2>3, Ports DEF RunFails, AddProxyFails
    <3>2. CASE RunFails(c)
      BY <3>1, <3>2, ReaderShapes DEF RunFails, Refund
    <3>3. CASE AddProxyFails(c)
      BY <3>1, <3>3, ReaderShapes DEF AddProxyFails, Refund
    <3> QED
      BY <2>3, <3>2, <3>3
  <2>4. ASSUME RunProxy(c) \/ AddProxy(c) \/ DelProxy(c) \/ ReadFails(c) PROVE TypeOK'
    <3>1. CASE RunProxy(c)
      BY <3>1, ReaderShapes DEF RunProxy
    <3>2. CASE AddProxy(c)
      BY <3>2, ReaderShapes DEF AddProxy
    <3>3. CASE DelProxy(c)
      BY <3>3, ReaderShapes DEF DelProxy
    <3>4. CASE ReadFails(c)
      BY <3>4, ReaderShapes DEF ReadFails
    <3> QED
      BY <2>4, <3>1, <3>2, <3>3, <3>4
  <2> QED
    BY <1>9, <2>1, <2>2, <2>3, <2>4 DEF ReaderStep, HandlerStep
<1>10. ASSUME HeartbeatTimeout(c) PROVE TypeOK'
  BY <1>7, <1>10 DEF HeartbeatTimeout, Close
<1>11. ASSUME WorkerStep(c) PROVE TypeOK'
  <2>1. \A at \in Workers, n \in Names \cup {Nil} : [at |-> at, name |-> n] \in [at : Workers, name : Names \cup {Nil}]
    OBVIOUS
  <2>2. ASSUME WorkerWakes(c) PROVE TypeOK'
    BY <1>7, <2>1, <2>2 DEF WorkerWakes, WorkerAt, Close, Workers
  <2>3. ASSUME ClosePool(c) PROVE TypeOK'
    BY <2>1, <2>3 DEF ClosePool, WorkerAt, Workers, Places
  <2>4. ASSUME NEW n \in Names, CloseOneProxy(c, n) PROVE TypeOK'
    BY <2>1, <2>4 DEF CloseOneProxy, Workers
  <2>5. ASSUME DelOneProxy(c) PROVE TypeOK'
    BY <2>1, <2>5 DEF DelOneProxy, WorkerAt, Workers
  <2>6. ASSUME WorkerRemoves(c) PROVE TypeOK'
    BY <2>1, <2>6, RemovedType DEF WorkerRemoves, WorkerAt, Workers
  <2>7. ASSUME WorkerFinishes(c) PROVE TypeOK'
    BY <2>1, <2>7 DEF WorkerFinishes, WorkerAt, Workers, Forgotten, States
  <2> QED
    BY <1>11, <2>2, <2>3, <2>4, <2>5, <2>6, <2>7 DEF WorkerStep
<1>12. ASSUME ShutdownCloses(c) PROVE TypeOK'
  BY <1>7, <1>12, RemovedType DEF ShutdownCloses, Close
<1> HIDE DEF TypeOK
<1> QED
  BY <1>1, <1>2, <1>3, <1>4, <1>5, <1>6, <1>8, <1>9, <1>10, <1>11, <1>12 DEF ControlStep, LoginStep

\* The other steps keep them too.
LEMMA TypeStep ==
    ASSUME Inv, Next
    PROVE  TypeOK'
<1> TypeOK
  BY DEF Inv
<1> USE DEF TypeOK, lifeVars, managerVars, registryVars, proxyVars
<1>1. \A c \in Controls : ControlStep(c) => TypeOK'
  BY TypeControl
<1>2. ASSUME WorkStep PROVE TypeOK'
  <2>1. /\ \A c \in Controls : At("verify", c) \in Places /\ At("pool", c) \in Places /\ At("waiting", c) \in UserPlaces
        /\ At("idle", Nil) \in Places /\ At("idle", Nil) \in UserPlaces
    BY DEF Places, UserPlaces
  <2>2. \A w \in WorkConns : work[w].at = "verify" => work[w].ctl \in Controls
    BY DEF Places, At
  <2>3. work' \in [WorkConns -> Places] /\ user' \in UserPlaces
    <3>1. ASSUME NEW w \in WorkConns, NEW c \in Controls, NEW wire, NewWorkConn(w, c, wire)
          PROVE  work' \in [WorkConns -> Places] /\ user' \in UserPlaces
      BY <2>1, <3>1 DEF NewWorkConn
    <3>2. ASSUME NEW w \in WorkConns, RegisterWorkConn(w) \/ WorkConnRefused(w) \/ GetWorkConn(w)
          PROVE  work' \in [WorkConns -> Places] /\ user' \in UserPlaces
      BY <2>1, <2>2, <3>2 DEF RegisterWorkConn, WorkConnRefused, GetWorkConn
    <3>3. ASSUME NEW c \in Controls, NEW n, UserArrives(c, n)
          PROVE  work' \in [WorkConns -> Places] /\ user' \in UserPlaces
      BY <2>1, <3>3 DEF UserArrives
    <3>4. ASSUME GetWorkConnFails
          PROVE  work' \in [WorkConns -> Places] /\ user' \in UserPlaces
      BY <2>1, <3>4 DEF GetWorkConnFails
    <3> HIDE DEF TypeOK
    <3> QED
      BY <1>2, <3>1, <3>2, <3>3, <3>4 DEF WorkStep
  <2> QED
    BY <1>2, <2>3, Frames
<1>3. ASSUME Shutdown PROVE TypeOK'
  <2>1. \A r \in RunIDs : ctlsByRunID[r].ctl \in Controls \cup {Nil}
    BY DEF Entries, NoEntry
  <2> QED
    BY <1>3, <2>1 DEF Shutdown
<1> HIDE DEF TypeOK
<1> QED
  BY <1>1, <1>2, <1>3, Steps

-----------------------------------------------------------------------------
(* The lives of the controls. *)

\* What a close or a replacement makes of a state.
LEMMA EndedStates ==
    ASSUME NEW s \in States
    PROVE  /\ s \in {"created", "pending", "closed"} => Ended(s) = "closed"
           /\ s \in {"running", "closing"} => Ended(s) = "closing"
  BY DEF Ended, States

\* The states of a control agree after every step of a control.
LEMMA LifeControl ==
    ASSUME Inv, NEW c \in Controls, ControlStep(c), NEW x \in Controls
    PROVE  Life(x)'
<1> TypeOK /\ Life(c) /\ Life(x)
  BY DEF Inv
<1> state[c] \in States /\ state[x] \in States
  BY DEF TypeOK
<1> NoOne \notin Who
  BY DEF NoOne
<1> USE DEF TypeOK, Life, Alive, Goes, lifeVars, managerVars, registryVars, proxyVars
<1>1. ASSUME NEW w \in Who, Login(c, w) PROVE Life(x)'
  BY <1>1 DEF Login, NewControl
<1>2. ASSUME Add(c) PROVE Life(x)'
  <2>1. Entry(c).ctl # c /\ (Entry(c).ctl \in Controls => Current(Entry(c).ctl))
    BY <1>2, AddEntries
  <2>2. x = Entry(c).ctl => login[x] \notin {"absent", "add"} /\ state'[x] = Ended(state[x])
    BY <1>2, <2>1 DEF Add, admit, Inv, Entered
  <2>3. x # Entry(c).ctl => state'[x] = IF x = c THEN "pending" ELSE state[x]
    BY <1>2, <2>1 DEF Add, admit
  <2>4. login' = [login EXCEPT ![c] = "replaced"] /\ UNCHANGED <<who, activated, interrupted, reader, worker>> /\ login[c] = "add"
    BY <1>2 DEF Add
  <2>5. CASE x = c
    BY <2>1, <2>3, <2>4, <2>5
  <2>6. CASE x = Entry(c).ctl
    <3>1. /\ state[x] \in {"created", "pending", "closed"} => state'[x] = "closed"
          /\ state[x] \in {"running", "closing"} => state'[x] = "closing"
      BY <2>2, <2>6, EndedStates
    <3>2. login'[x] = login[x] /\ login[x] \notin {"absent", "add"} /\ UNCHANGED <<who, activated, interrupted, reader, worker>>
      BY <2>1, <2>2, <2>4, <2>6
    <3> HIDE DEF TypeOK
    <3> QED
      BY <3>1, <3>2 DEF States
  <2>7. CASE x # c /\ x # Entry(c).ctl
    BY <2>3, <2>4, <2>7
  <2> QED
    BY <2>5, <2>6, <2>7
<1>3. ASSUME AddRefused(c) PROVE Life(x)'
  BY <1>3 DEF AddRefused
<1>4. ASSUME Replaced(c) PROVE Life(x)'
  BY <1>4 DEF Replaced
<1>5. ASSUME Activate(c) \/ ActivateFails(c) PROVE Life(x)'
  BY <1>5 DEF Activate, ActivateFails, WaitForHandoff
<1>6. ASSUME CompleteLogin(c) PROVE Life(x)'
  BY <1>6 DEF CompleteLogin, startLocked, MayComplete, Reading
<1>7. ASSUME CompleteFails(c) \/ LoginRemoves(c) PROVE Life(x)'
  BY <1>7 DEF CompleteFails, LoginRemoves
<1>8. ASSUME LoginCloses(c) PROVE Life(x)'
  BY <1>8, EndedStates DEF LoginCloses, Close, Forgotten
<1>9. ASSUME ReaderStep(c) PROVE Life(x)'
  <2>1. \A at, n : Reading(at, n).at = at
    BY DEF Reading
  <2>2. reader[c].at \in {"reading", "run", "add", "del"} /\ reader'[c].at \in {"reading", "run", "add", "del", "done"}
        /\ (x # c => reader'[x] = reader[x])
    BY <1>9, <2>1, ReaderShapes DEF ReaderStep, HandlerStep, NewProxy, CloseProxy, RunFails, RunProxy, AddProxy, AddProxyFails, DelProxy, ReadFails, Sets, Idle
  <2> QED
    BY <1>9, <2>2, Frames
<1>10. ASSUME HeartbeatTimeout(c) PROVE Life(x)'
  BY <1>10, EndedStates DEF HeartbeatTimeout, Close
<1>11. ASSUME WorkerWakes(c) PROVE Life(x)'
  BY <1>11, EndedStates DEF WorkerWakes, WorkerAt, Close
<1>12. ASSUME ClosePool(c) \/ DelOneProxy(c) \/ WorkerRemoves(c) PROVE Life(x)'
  BY <1>12 DEF ClosePool, DelOneProxy, WorkerRemoves, WorkerAt
<1>13. ASSUME NEW n \in Names, CloseOneProxy(c, n) PROVE Life(x)'
  BY <1>13 DEF CloseOneProxy
<1>14. ASSUME WorkerFinishes(c) PROVE Life(x)'
  BY <1>14 DEF WorkerFinishes, WorkerAt, Forgotten
<1>15. ASSUME ShutdownCloses(c) PROVE Life(x)'
  <2>1. login[c] \notin {"absent", "add"}
    BY <1>15 DEF Inv, Entered, ShutdownCloses
  <2>2. CASE x = c
    <3>1. /\ state[x] \in {"created", "pending", "closed"} => state'[x] = "closed"
          /\ state[x] \in {"running", "closing"} => state'[x] = "closing"
      BY <1>15, <2>2, EndedStates DEF ShutdownCloses, Close
    <3>2. interrupted'[x] /\ UNCHANGED <<login, who, activated, reader, worker>>
      BY <1>15, <2>2 DEF ShutdownCloses, Close
    <3> HIDE DEF TypeOK
    <3> QED
      BY <2>1, <2>2, <3>1, <3>2 DEF States
  <2>3. CASE x # c
    BY <1>15, <2>3 DEF ShutdownCloses, Close
  <2> QED
    BY <2>2, <2>3
<1> HIDE DEF TypeOK, Life
<1> QED
  BY <1>1, <1>2, <1>3, <1>4, <1>5, <1>6, <1>7, <1>8, <1>9, <1>10, <1>11, <1>12, <1>13, <1>14, <1>15
     DEF ControlStep, LoginStep, WorkerStep

-----------------------------------------------------------------------------
(* The entries of the manager. *)

\* Activate marks the entry of the current control as online.
LEMMA ActivateEntries ==
    ASSUME Inv, NEW c \in Controls, Activate(c)
    PROVE  /\ Current(c) /\ who[c] # NoOne /\ Run(c) \in RunIDs
           /\ ctlsByRunID'[Run(c)].ctl = c /\ ctlsByRunID'[Run(c)].registryOnline /\ ctlsByRunID'[Run(c)].registryControlID = c
           /\ \A r \in RunIDs : r # Run(c) => ctlsByRunID'[r] = ctlsByRunID[r]
           /\ \A r \in RunIDs : ctlsByRunID'[r].ctl = ctlsByRunID[r].ctl
<1>1. Current(c) /\ who[c] # NoOne /\ Run(c) \in RunIDs /\ Entry(c) \in Entries
  BY Logged DEF Inv, Activate, MayActivate, Current, NoEntry
<1> DEFINE next == [Entry(c) EXCEPT !.registryOnline = TRUE, !.registryControlID = c]
<1>2. ctlsByRunID' = [ctlsByRunID EXCEPT ![Run(c)] = next]
  BY <1>1 DEF Activate, Entry, Inv, TypeOK
<1>3. next.ctl = c /\ next.registryOnline /\ next.registryControlID = c
  BY <1>1 DEF Entries, Current
<1> HIDE DEF next
<1> QED
  BY <1>1, <1>2, <1>3 DEF Inv, TypeOK, Current, Entry

\* The steps that leave the current controls alone.
LEMMA CurrentKept ==
    ASSUME Inv, NEW c \in Controls,
           \/ \E w \in Who : Login(c, w)
           \/ Activate(c) \/ LoginCloses(c) \/ WorkerFinishes(c)
           \/ UNCHANGED <<who, ctlsByRunID>>
    PROVE  \A x \in Controls : Current(x)' <=> Current(x)
<1> SUFFICES ASSUME NEW x \in Controls PROVE Current(x)' <=> Current(x)
  OBVIOUS
<1>1. ASSUME NEW w \in Who, Login(c, w) PROVE Current(x)' <=> Current(x)
  <2>1. who[c] = NoOne /\ who' = [who EXCEPT ![c] = w] /\ ctlsByRunID' = ctlsByRunID /\ w.run \in RunIDs
    BY <1>1 DEF Inv, Life, Login, NewControl, managerVars
  <2>2. ctlsByRunID[w.run].ctl # c
    BY <2>1 DEF Inv, Manager
  <2> QED
    BY <2>1, <2>2 DEF Inv, TypeOK, Current, Entry, Run
<1>2. CASE Activate(c)
  <2>1. who' = who /\ \A r \in RunIDs : ctlsByRunID'[r].ctl = ctlsByRunID[r].ctl
    BY <1>2, ActivateEntries DEF Activate
  <2>2. who[x] # NoOne => Run(x) \in RunIDs
    BY Logged DEF Inv
  <2> QED
    BY <2>1, <2>2 DEF Current, Entry, Run
<1>3. CASE LoginCloses(c) \/ WorkerFinishes(c)
  <2>1. ~Current(c) /\ ctlsByRunID' = ctlsByRunID /\ who' = [who EXCEPT ![c] = NoOne]
    BY <1>3 DEF Inv, Entered, LoginCloses, WorkerFinishes, Forgotten, managerVars
  <2> QED
    BY <2>1 DEF Inv, TypeOK, Current, Entry, Run
<1>4. CASE UNCHANGED <<who, ctlsByRunID>>
  BY <1>4 DEF Current, Entry, Run
<1> QED
  BY <1>1, <1>2, <1>3, <1>4

\* The current controls after a step of a control are in the states of current controls.
LEMMA EnteredControl ==
    ASSUME Inv, NEW c \in Controls, ControlStep(c), NEW x \in Controls
    PROVE  Entered(x)'
<1> TypeOK /\ Life(c) /\ Life(x) /\ Entered(x) /\ Entered(c)
  BY DEF Inv
<1> state[c] \in States /\ state[x] \in States
  BY DEF TypeOK
<1> USE DEF TypeOK, Life, Alive, Entered, Goes, lifeVars, managerVars, registryVars, proxyVars
<1>1. ASSUME NEW w \in Who, Login(c, w) PROVE Entered(x)'
  BY <1>1, CurrentKept DEF Login
<1>2. ASSUME Add(c) PROVE Entered(x)'
  <2>1. /\ Entry(c).ctl # c /\ Entry(c).ctl \in Controls \cup {Nil}
        /\ Entry(c).ctl # Nil => Current(Entry(c).ctl) /\ Run(Entry(c).ctl) = Run(c)
        /\ Current(x)' <=> x = c \/ (Current(x) /\ Run(x) # Run(c))
        /\ Current(x) /\ Run(x) = Run(c) => x = Entry(c).ctl
    BY <1>2, AddEntries DEF Current, Entry
  <2>2. state'[x] = IF x = c THEN "pending" ELSE IF x = Entry(c).ctl THEN Ended(state[x]) ELSE state[x]
    BY <1>2, <2>1 DEF Add, admit
  <2>3. login' = [login EXCEPT ![c] = "replaced"] /\ UNCHANGED <<worker, closed, todo>> /\ login[c] = "add" /\ ~closed
    BY <1>2 DEF Add
  <2>4. CASE x = c
    BY <2>1, <2>2, <2>3, <2>4
  <2>5. CASE x = Entry(c).ctl
    BY <2>1, <2>2, <2>3, <2>5, EndedStates DEF States
  <2>6. CASE x # c /\ x # Entry(c).ctl
    BY <2>1, <2>2, <2>3, <2>6
  <2> QED
    BY <2>4, <2>5, <2>6
<1>3. ASSUME AddRefused(c) \/ Replaced(c) \/ ActivateFails(c) \/ CompleteFails(c) PROVE Entered(x)'
  BY <1>3, CurrentKept DEF AddRefused, Replaced, ActivateFails, WaitForHandoff, CompleteFails
<1>4. ASSUME Activate(c) PROVE Entered(x)'
  BY <1>4, CurrentKept DEF Activate, WaitForHandoff
<1>5. ASSUME CompleteLogin(c) PROVE Entered(x)'
  BY <1>5, CurrentKept DEF CompleteLogin, startLocked, MayComplete
<1>6. ASSUME LoginRemoves(c) PROVE Entered(x)'
  BY <1>6, RemovedEntries DEF LoginRemoves
<1>7. ASSUME LoginCloses(c) PROVE Entered(x)'
  BY <1>7, CurrentKept, EndedStates DEF LoginCloses, Close
<1>8. ASSUME ReaderStep(c) PROVE Entered(x)'
  BY <1>8, CurrentKept, Frames
<1>9. ASSUME HeartbeatTimeout(c) PROVE Entered(x)'
  BY <1>9, CurrentKept, EndedStates DEF HeartbeatTimeout, Close
<1>10. ASSUME WorkerWakes(c) PROVE Entered(x)'
  BY <1>10, CurrentKept, EndedStates DEF WorkerWakes, WorkerAt, Close
<1>11. ASSUME ClosePool(c) \/ DelOneProxy(c) PROVE Entered(x)'
  BY <1>11, CurrentKept DEF ClosePool, DelOneProxy, WorkerAt
<1>12. ASSUME NEW n \in Names, CloseOneProxy(c, n) PROVE Entered(x)'
  BY <1>12, CurrentKept DEF CloseOneProxy
<1>13. ASSUME WorkerRemoves(c) PROVE Entered(x)'
  BY <1>13, RemovedEntries DEF WorkerRemoves, WorkerAt
<1>14. ASSUME WorkerFinishes(c) PROVE Entered(x)'
  BY <1>14, CurrentKept DEF WorkerFinishes, WorkerAt
<1>15. ASSUME ShutdownCloses(c) PROVE Entered(x)'
  <2>1. /\ Current(x)' <=> Current(x) /\ x # c
        /\ todo' = todo \ {c} /\ state' = [state EXCEPT ![c] = Ended(@)] /\ UNCHANGED <<login, worker, closed>>
    BY <1>15, RemovedEntries DEF ShutdownCloses, Close
  <2>2. CASE x = c
    BY <2>1, <2>2, EndedStates DEF States
  <2>3. CASE x # c
    BY <2>1, <2>3
  <2> QED
    BY <2>2, <2>3
<1> HIDE DEF TypeOK, Life, Entered
<1> QED
  BY <1>1, <1>2, <1>3, <1>4, <1>5, <1>6, <1>7, <1>8, <1>9, <1>10, <1>11, <1>12, <1>13, <1>14, <1>15
     DEF ControlStep, LoginStep, WorkerStep

\* An entry is of the run that its control logged in under.
LEMMA ManagerControl ==
    ASSUME Inv, NEW c \in Controls, ControlStep(c)
    PROVE  Manager'
<1> TypeOK /\ Manager
  BY DEF Inv
<1> USE DEF TypeOK, Manager, Run, lifeVars, managerVars, registryVars, proxyVars
<1>0. \A r \in RunIDs : ctlsByRunID[r].ctl \in Controls \cup {Nil}
  BY DEF Entries, NoEntry
<1>a. ASSUME UNCHANGED <<who, closed>>, todo' \subseteq todo,
              \A r \in RunIDs :
                 \/ ctlsByRunID'[r] = ctlsByRunID[r] \/ ctlsByRunID'[r] = NoEntry
                 \/ r = Run(c) /\ ctlsByRunID'[r].ctl = c /\ who[c] # NoOne
       PROVE  Manager'
  <2>1. todo' # {} => closed'
    BY <1>a
  <2>2. ASSUME NEW r \in RunIDs
        PROVE  /\ ctlsByRunID'[r].ctl # Nil => who'[ctlsByRunID'[r].ctl] # NoOne /\ who'[ctlsByRunID'[r].ctl].run = r
               /\ ctlsByRunID'[r].ctl = Nil => ctlsByRunID'[r] = NoEntry
    <3>1. CASE ctlsByRunID'[r] = ctlsByRunID[r]
      BY <1>a, <3>1
    <3>2. CASE ctlsByRunID'[r] = NoEntry
      BY <3>2 DEF NoEntry
    <3>3. CASE r = Run(c) /\ ctlsByRunID'[r].ctl = c /\ who[c] # NoOne
      BY <1>a, <3>3
    <3> QED
      BY <1>a, <3>1, <3>2, <3>3
  <2> QED
    BY <2>1, <2>2
<1>1. ASSUME NEW w \in Who, Login(c, w) PROVE Manager'
  <2>1. who[c] = NoOne /\ who' = [who EXCEPT ![c] = w] /\ UNCHANGED <<ctlsByRunID, todo, closed>>
    BY <1>1 DEF Inv, Life, Login, NewControl
  <2> QED
    BY <1>0, <2>1
<1>2. ASSUME Add(c) PROVE Manager'
  <2>1. \A r \in RunIDs : ctlsByRunID'[r] = IF r = Run(c) THEN Inherited(Entry(c), c) ELSE ctlsByRunID[r]
    BY <1>2, AddEntries DEF Entry
  <2>2. UNCHANGED <<who, todo, closed>> /\ who[c] # NoOne /\ Inherited(Entry(c), c).ctl = c
    BY <1>2, AddEntries DEF Add
  <2> HIDE DEF Manager, TypeOK, Run
  <2> QED
    BY <1>a, <2>1, <2>2
<1>3. ASSUME Activate(c) PROVE Manager'
  <2>1. UNCHANGED <<who, todo, closed>>
    BY <1>3 DEF Activate
  <2> HIDE DEF Manager, TypeOK, Run
  <2> QED
    BY <1>a, <1>3, <2>1, ActivateEntries
<1>4. ASSUME LoginRemoves(c) \/ WorkerRemoves(c) \/ ShutdownCloses(c) PROVE Manager'
  <2>1. UNCHANGED <<who, closed>> /\ todo' \subseteq todo
    BY <1>4 DEF LoginRemoves, WorkerRemoves, ShutdownCloses
  <2>2. \A r \in RunIDs : ctlsByRunID'[r] = NoEntry \/ ctlsByRunID'[r] = ctlsByRunID[r]
    BY <1>4, <2>1, RemovedEntries DEF LoginRemoves, WorkerRemoves, ShutdownCloses
  <2> HIDE DEF Manager, TypeOK, Run
  <2> QED
    BY <1>a, <2>1, <2>2
<1>5. ASSUME LoginCloses(c) \/ WorkerFinishes(c) PROVE Manager'
  <2>1. ~Current(c) /\ UNCHANGED <<ctlsByRunID, closed, todo>> /\ who' = [who EXCEPT ![c] = NoOne]
    BY <1>5 DEF Inv, Entered, LoginCloses, WorkerFinishes, Forgotten
  <2>2. \A r \in RunIDs : ctlsByRunID[r].ctl # c
    BY <2>1 DEF Current, Entry
  <2> QED
    BY <1>0, <2>1, <2>2
<1>6. ASSUME UNCHANGED <<who, ctlsByRunID, todo, closed>> PROVE Manager'
  BY <1>6
<1> HIDE DEF TypeOK, Manager
<1>7. ASSUME \/ AddRefused(c) \/ Replaced(c) \/ ActivateFails(c) \/ CompleteLogin(c) \/ CompleteFails(c)
             \/ ReaderStep(c) \/ HeartbeatTimeout(c) \/ WorkerWakes(c) \/ ClosePool(c)
             \/ (\E n \in Names : CloseOneProxy(c, n)) \/ DelOneProxy(c)
      PROVE  UNCHANGED <<who, ctlsByRunID, todo, closed>>
  BY <1>7, Frames
     DEF AddRefused, Replaced, ActivateFails, CompleteLogin, CompleteFails, HeartbeatTimeout, WorkerWakes, ClosePool,
         CloseOneProxy, DelOneProxy
<1> QED
  BY <1>1, <1>2, <1>3, <1>4, <1>5, <1>6, <1>7 DEF ControlStep, LoginStep, WorkerStep

-----------------------------------------------------------------------------
(* The hand-over. *)

\* A control that is ending does not come back, and stays interrupted.
LEMMA EndingStays ==
    ASSUME Inv, NEW c \in Controls, ControlStep(c), NEW x \in Controls
    PROVE  /\ state[x] = "closed" => state'[x] = "closed"
           /\ state[x] \in {"closing", "closed"} => state'[x] \in {"closing", "closed"}
           /\ Interrupted(x) => Interrupted(x)'
<1> TypeOK /\ Life(c) /\ Life(x)
  BY DEF Inv
<1> state[c] \in States /\ state[x] \in States
  BY DEF TypeOK
<1> USE DEF TypeOK, Goes, lifeVars, managerVars, registryVars, proxyVars
<1> DEFINE Goal == /\ state[x] = "closed" => state'[x] = "closed"
                   /\ state[x] \in {"closing", "closed"} => state'[x] \in {"closing", "closed"}
                   /\ Interrupted(x) => Interrupted(x)'
<1>1. ASSUME state' = state \/ state' = [state EXCEPT ![c] = Ended(@)] \/ (state[c] = "pending" /\ state' = [state EXCEPT ![c] = "running"])
             \/ (state[c] = "closing" /\ state' = [state EXCEPT ![c] = "closed"])
      PROVE  /\ state[x] = "closed" => state'[x] = "closed"
             /\ state[x] \in {"closing", "closed"} => state'[x] \in {"closing", "closed"}
  BY <1>1, EndedStates
<1>2. ASSUME \A y \in Controls : interrupted[y] => interrupted'[y],
             \A d \in Controls : login[d] = "replaced" /\ replaces[d] = x => (login'[d] = "replaced" /\ replaces'[d] = x) \/ interrupted'[x]
      PROVE  Interrupted(x) => Interrupted(x)'
  BY <1>2 DEF Interrupted
<1>3. ASSUME NEW w \in Who, Login(c, w) PROVE Goal
  BY <1>1, <1>2, <1>3 DEF Login
<1>4. ASSUME Add(c) PROVE Goal
  <2>1. state'[x] = IF x = c THEN "pending" ELSE IF x = Entry(c).ctl THEN Ended(state[x]) ELSE state[x]
    BY <1>4 DEF Add, admit
  <2>2. state[c] = "created"
    BY <1>4 DEF Add, Life
  <2>3. Interrupted(x) => Interrupted(x)'
    BY <1>2, <1>4 DEF Add
  <2> QED
    BY <2>1, <2>2, <2>3, EndedStates
<1>5. ASSUME AddRefused(c) \/ CompleteFails(c) \/ ActivateFails(c) \/ LoginRemoves(c) PROVE Goal
  BY <1>1, <1>2, <1>5 DEF AddRefused, CompleteFails, ActivateFails, WaitForHandoff, LoginRemoves
<1>6. ASSUME Replaced(c) PROVE Goal
  BY <1>1, <1>2, <1>6 DEF Replaced
<1>7. ASSUME Activate(c) PROVE Goal
  BY <1>1, <1>2, <1>7 DEF Activate, WaitForHandoff
<1>8. ASSUME CompleteLogin(c) PROVE Goal
  BY <1>1, <1>2, <1>8 DEF CompleteLogin, startLocked, MayComplete
<1>9. ASSUME LoginCloses(c) PROVE Goal
  <2>1. state' = [state EXCEPT ![c] = Ended(@)] /\ interrupted' = [interrupted EXCEPT ![c] = TRUE]
        /\ login[c] = "close" /\ login' = [login EXCEPT ![c] = "ended"] /\ replaces' = replaces
    BY <1>9 DEF LoginCloses, Close
  <2>2. Interrupted(x) => Interrupted(x)'
    BY <1>2, <2>1
  <2> QED
    BY <1>1, <2>1, <2>2
<1>10. ASSUME HeartbeatTimeout(c) \/ WorkerWakes(c) \/ ShutdownCloses(c) PROVE Goal
  <2>1. state' = [state EXCEPT ![c] = Ended(@)] /\ interrupted' = [interrupted EXCEPT ![c] = TRUE] /\ UNCHANGED <<login, replaces>>
    BY <1>10 DEF HeartbeatTimeout, WorkerWakes, ShutdownCloses, Close
  <2>2. Interrupted(x) => Interrupted(x)'
    BY <1>2, <2>1
  <2> QED
    BY <1>1, <2>1, <2>2
<1>11. ASSUME \/ ReaderStep(c) \/ ClosePool(c) \/ (\E n \in Names : CloseOneProxy(c, n)) \/ DelOneProxy(c) \/ WorkerRemoves(c)
       PROVE  Goal
  <2>1. UNCHANGED <<login, state, replaces, interrupted>>
    BY <1>11, Frames DEF ClosePool, CloseOneProxy, DelOneProxy, WorkerRemoves
  <2> QED
    BY <1>1, <1>2, <2>1
<1>12. ASSUME WorkerFinishes(c) PROVE Goal
  <2>1. state[c] = "closing"
    BY <1>12 DEF WorkerFinishes, Life, Alive
  <2> QED
    BY <1>1, <1>2, <1>12, <2>1 DEF WorkerFinishes
<1> HIDE DEF Goal, TypeOK
<1>13. Goal
  BY <1>3, <1>4, <1>5, <1>6, <1>7, <1>8, <1>9, <1>10, <1>11, <1>12 DEF ControlStep, LoginStep, WorkerStep
<1> QED
  BY <1>13 DEF Goal

\* A step that changes neither entries, barriers nor the manager and gives no control a
\* worker keeps the hand-over.
LEMMA HandoverKept ==
    ASSUME Inv, NEW c \in Controls, ControlStep(c), NEW x \in Controls,
           UNCHANGED <<barrier, ctlsByRunID, closed>>, who'[x] = who[x] \/ ~MayOwn(x)',
           MayOwn(x)' => MayOwn(x), barrier[x] # Nil => login'[x] \in {"replaced", "wait"}
    PROVE  Handover(x)'
<1>1. barrier[x] # Nil => state'[barrier[x]] \in {"closing", "closed"}
  BY EndingStays DEF Inv, Handover, TypeOK
<1> QED
  BY <1>1 DEF Inv, Handover, Entry, Run

\* What waits still waits for the one that may own something.
LEMMA HandoverControl ==
    ASSUME Inv, NEW c \in Controls, ControlStep(c), NEW x \in Controls
    PROVE  Handover(x)'
<1> TypeOK /\ Life(c) /\ Life(x) /\ Handover(x) /\ Handover(c) /\ Entered(c) /\ Entered(x) /\ Manager
  BY DEF Inv
<1> USE DEF TypeOK, Goes, lifeVars, managerVars, registryVars, proxyVars
<1>0. /\ MayOwn(x) => who[x] # NoOne /\ Run(x) \in RunIDs /\ login[x] = "done" /\ state[x] \in {"running", "closing"}
      /\ Entry(x).ctl \in Controls \cup {Nil} \/ who[x] = NoOne
      /\ barrier[x] # Nil => barrier[x] \in Controls /\ login[x] \in {"replaced", "wait"}
  <2>1. MayOwn(x) => who[x] # NoOne /\ login[x] = "done" /\ state[x] \in {"running", "closing"}
    BY DEF MayOwn, Life, Alive
  <2>2. who[x] # NoOne => Run(x) \in RunIDs /\ Entry(x) \in Entries \cup {NoEntry}
    BY Logged
  <2> QED
    BY <2>1, <2>2 DEF Handover, Entries, NoEntry
<1>1. ASSUME NEW w \in Who, Login(c, w) PROVE Handover(x)'
  <2>1. UNCHANGED <<barrier, ctlsByRunID, closed, worker>> /\ (x = c => ~MayOwn(x)) /\ (x # c => who'[x] = who[x])
        /\ (barrier[x] # Nil => login'[x] \in {"replaced", "wait"})
    BY <1>0, <1>1 DEF Login, NewControl, Life, MayOwn
  <2> QED
    BY <2>1, HandoverKept DEF MayOwn
<1>2. ASSUME AddRefused(c) \/ Replaced(c) \/ CompleteFails(c) PROVE Handover(x)'
  <2>1. UNCHANGED <<barrier, ctlsByRunID, closed, worker, who>> /\ (barrier[x] # Nil => login'[x] \in {"replaced", "wait"})
    BY <1>0, <1>2 DEF AddRefused, Replaced, CompleteFails
  <2> QED
    BY <2>1, HandoverKept DEF MayOwn
<1>3. ASSUME Add(c) PROVE Handover(x)'
  <2> DEFINE old == Entry(c).ctl
  <2>1. /\ old # c /\ old \in Controls \cup {Nil} /\ Run(c) \in RunIDs
        /\ old # Nil => Current(old) /\ Run(old) = Run(c)
        /\ \A r \in RunIDs : ctlsByRunID'[r].ctl = IF r = Run(c) THEN c ELSE ctlsByRunID[r].ctl
    BY <1>3, AddEntries DEF Entry
  <2>2. /\ barrier' = [barrier EXCEPT ![c] = IF old = Nil THEN Nil ELSE Barrier(old)]
        /\ login' = [login EXCEPT ![c] = "replaced"] /\ UNCHANGED <<who, worker, closed>> /\ ~closed /\ login[c] = "add"
        /\ \A y \in Controls : state'[y] = IF y = c THEN "pending" ELSE IF y = old THEN Ended(state[y]) ELSE state[y]
    BY <1>3 DEF Add, admit, setHandoffBarrier
  <2>3. old # Nil => Life(old) /\ Handover(old) /\ state[old] \in {"pending", "running", "closing"} /\ state[old] \in States
    BY <2>1 DEF Inv, Entered
  <2>4. old # Nil => Barrier(old) = IF state[old] = "pending" THEN barrier[old] ELSE old
    BY <2>3 DEF Barrier
  <2>5. (barrier[x] # Nil => login[x] \in {"replaced", "wait"} /\ state[barrier[x]] \in {"closing", "closed"})'
    <3>1. CASE x # c
      <4>1. barrier'[x] = barrier[x] /\ login'[x] = login[x]
        BY <2>2, <3>1
      <4>2. barrier[x] # Nil => state'[barrier[x]] \in {"closing", "closed"}
        BY <1>0, EndingStays DEF Handover
      <4> QED
        BY <4>1, <4>2 DEF Handover
    <3>2. CASE x = c
      <4>1. barrier'[x] # Nil => old # Nil /\ barrier'[x] = Barrier(old) /\ login'[x] = "replaced"
        BY <2>2, <3>2
      <4>2. CASE old # Nil /\ state[old] = "pending" /\ barrier[old] # Nil
        BY <2>1, <2>2, <2>3, <2>4, <4>1, <4>2, EndingStays DEF Handover
      <4>3. CASE old # Nil /\ state[old] # "pending"
        BY <2>1, <2>2, <2>3, <2>4, <4>1, <4>3, EndedStates
      <4> QED
        BY <2>4, <4>1, <4>2, <4>3
    <3> QED
      BY <3>1, <3>2
  <2>6. ASSUME MayOwn(x)
        PROVE  ctlsByRunID'[Run(x)].ctl = x \/ (ctlsByRunID'[Run(x)].ctl = Nil /\ closed')
               \/ (ctlsByRunID'[Run(x)].ctl # Nil /\ barrier'[ctlsByRunID'[Run(x)].ctl] = x)
    <3>1. x # c
      BY <1>0, <2>2, <2>6
    <3>2. CASE Run(x) # Run(c)
      <4>1. ctlsByRunID'[Run(x)].ctl = ctlsByRunID[Run(x)].ctl /\ Run(x) \in RunIDs /\ ctlsByRunID[Run(x)].ctl # c
        BY <1>0, <2>1, <2>2, <2>6, <3>2 DEF Life, Manager
      <4> QED
        BY <1>0, <2>2, <2>6, <4>1 DEF Handover, Entry
    <3>3. CASE Run(x) = Run(c)
      <4>1. ctlsByRunID'[Run(x)].ctl = c /\ Entry(x).ctl = old
        BY <2>1, <3>3 DEF Entry
      <4>2. old # Nil /\ (old = x \/ barrier[old] = x)
        BY <2>2, <2>6, <4>1 DEF Handover
      <4>3. Barrier(old) = x
        BY <1>0, <2>3, <2>4, <2>6, <4>2 DEF Handover, Life
      <4> QED
        BY <2>2, <4>1, <4>2, <4>3
    <3> QED
      BY <3>2, <3>3
  <2> QED
    BY <2>2, <2>5, <2>6 DEF Handover, MayOwn, Entry, Run
<1>4. ASSUME Activate(c) \/ ActivateFails(c) PROVE Handover(x)'
  <2>1. /\ barrier' = [barrier EXCEPT ![c] = Nil] /\ UNCHANGED <<who, state, worker, closed>>
        /\ (x # c => login'[x] = login[x]) /\ (barrier[c] # Nil => state[barrier[c]] = "closed")
    BY <1>4 DEF Activate, ActivateFails, WaitForHandoff
  <2>2. \A r \in RunIDs : ctlsByRunID'[r].ctl = ctlsByRunID[r].ctl
    BY <1>4, ActivateEntries DEF ActivateFails
  <2>3. (barrier[x] # Nil => login[x] \in {"replaced", "wait"} /\ state[barrier[x]] \in {"closing", "closed"})'
    BY <2>1 DEF Handover
  <2>4. ASSUME MayOwn(x), barrier[ctlsByRunID[Run(x)].ctl] = x, ctlsByRunID[Run(x)].ctl # Nil
        PROVE  barrier'[ctlsByRunID[Run(x)].ctl] = x
    BY <1>0, <2>1, <2>4 DEF Entry
  <2>5. MayOwn(x) => ctlsByRunID'[Run(x)].ctl = ctlsByRunID[Run(x)].ctl
    BY <1>0, <2>2
  <2> QED
    BY <2>1, <2>3, <2>4, <2>5 DEF Handover, MayOwn, Entry, Run
<1>5. ASSUME CompleteLogin(c) PROVE Handover(x)'
  <2>1. UNCHANGED <<barrier, ctlsByRunID, closed, who>> /\ worker' = [worker EXCEPT ![c].at = "serve"] /\ Current(c)
        /\ (barrier[x] # Nil => login'[x] \in {"replaced", "wait"}) /\ login[c] = "complete"
    BY <1>0, <1>5 DEF CompleteLogin, startLocked, MayComplete
  <2>2. CASE x # c
    BY <2>1, <2>2, HandoverKept DEF MayOwn
  <2>3. CASE x = c
    BY <2>1, <2>3, <1>0 DEF Current, Handover, Entry, Run
  <2> QED
    BY <2>2, <2>3
<1>6. ASSUME LoginRemoves(c) \/ WorkerRemoves(c) \/ ShutdownCloses(c) PROVE Handover(x)'
  <2>1. /\ UNCHANGED <<barrier, who, closed>>
        /\ ctlsByRunID' = [r \in RunIDs |-> IF Current(c) /\ r = Run(c) THEN NoEntry ELSE ctlsByRunID[r]]
        /\ MayOwn(x)' => MayOwn(x)
        /\ (barrier[c] = Nil /\ ~MayOwn(c)') \/ closed
        /\ barrier[x] # Nil => login'[x] = login[x]
    <3>1. CASE LoginRemoves(c)
      BY <1>0, <3>1, RemovedEntries DEF LoginRemoves, Handover, Life, MayOwn
    <3>2. CASE WorkerRemoves(c)
      <4>1. barrier[c] = Nil
        BY <3>2 DEF WorkerRemoves, Handover, Life
      <4>2. worker' = [worker EXCEPT ![c] = [at |-> "finish", name |-> Nil]]
        BY <3>2 DEF WorkerRemoves, WorkerAt
      <4> QED
        BY <3>2, <4>1, <4>2, RemovedEntries DEF WorkerRemoves, MayOwn
    <3>3. CASE ShutdownCloses(c)
      BY <3>3, RemovedEntries DEF ShutdownCloses, MayOwn, Manager
    <3> QED
      BY <1>6, <3>1, <3>2, <3>3
  <2>2. barrier[x] # Nil => state'[barrier[x]] \in {"closing", "closed"}
    BY <1>0, EndingStays DEF Handover
  <2>3. ASSUME MayOwn(x)', Current(c), Run(x) = Run(c)
        PROVE  ctlsByRunID'[Run(x)].ctl = Nil /\ closed
    <3>1. ctlsByRunID'[Run(x)].ctl = Nil
      BY <1>0, <2>1, <2>3 DEF NoEntry
    <3>2. CASE barrier[c] = Nil /\ ~MayOwn(c)'
      BY <2>1, <2>3, <3>2 DEF Handover, Current, Entry
    <3> QED
      BY <2>1, <3>1, <3>2
  <2>4. ASSUME MayOwn(x)', ~(Current(c) /\ Run(x) = Run(c))
        PROVE  ctlsByRunID'[Run(x)] = ctlsByRunID[Run(x)]
    BY <1>0, <2>1, <2>4
  <2> QED
    BY <2>1, <2>2, <2>3, <2>4 DEF Handover, Entry, Run
<1>7. ASSUME \/ LoginCloses(c) \/ ReaderStep(c) \/ HeartbeatTimeout(c) \/ WorkerWakes(c) \/ ClosePool(c)
             \/ (\E n \in Names : CloseOneProxy(c, n)) \/ DelOneProxy(c) \/ WorkerFinishes(c)
      PROVE  Handover(x)'
  <2>1. /\ UNCHANGED <<barrier, ctlsByRunID, closed>>
        /\ barrier[x] # Nil => login'[x] \in {"replaced", "wait"}
    BY <1>0, <1>7, Frames
       DEF LoginCloses, HeartbeatTimeout, WorkerWakes, ClosePool, CloseOneProxy, DelOneProxy, WorkerFinishes
  <2>2. MayOwn(x)' => MayOwn(x)
    BY <1>7, Frames
       DEF LoginCloses, HeartbeatTimeout, WorkerWakes, ClosePool, CloseOneProxy, DelOneProxy, WorkerFinishes, WorkerAt, MayOwn
  <2>3. who'[x] = who[x] \/ ~MayOwn(x)'
    <3>1. CASE LoginCloses(c)
      BY <3>1 DEF LoginCloses, Forgotten, MayOwn, Life
    <3>2. CASE WorkerFinishes(c)
      BY <3>2 DEF WorkerFinishes, Forgotten, WorkerAt, MayOwn
    <3>3. CASE ~LoginCloses(c) /\ ~WorkerFinishes(c)
      BY <1>7, <3>3, Frames DEF HeartbeatTimeout, WorkerWakes, ClosePool, CloseOneProxy, DelOneProxy
    <3> QED
      BY <3>1, <3>2, <3>3
  <2> QED
    BY <2>1, <2>2, <2>3, HandoverKept
<1> HIDE DEF TypeOK
<1> QED
  BY <1>1, <1>2, <1>3, <1>4, <1>5, <1>6, <1>7 DEF ControlStep, LoginStep, WorkerStep

\* Who goes on without being current, and what a login waits for, has been or will be
\* interrupted.
LEMMA EndingsControl ==
    ASSUME Inv, NEW c \in Controls, ControlStep(c), NEW x \in Controls
    PROVE  Endings(x)'
<1> TypeOK /\ Life(c) /\ Life(x) /\ Endings(x)
  BY DEF Inv
<1> state[c] \in States /\ state[x] \in States /\ barrier[x] \in Controls \cup {Nil}
  BY DEF TypeOK
<1> USE DEF TypeOK, Goes, lifeVars, managerVars, registryVars, proxyVars
<1>0. ASSUME barrier'[x] \in {barrier[x], Nil},
             state'[x] \in {"running", "closing"} =>
                (state[x] \in {"running", "closing"} /\ (Current(x) => Current(x)')) \/ Current(x)' \/ interrupted'[x]
      PROVE  Endings(x)'
  <2>1. (barrier[x] # Nil => state[barrier[x]] = "closed" \/ Interrupted(barrier[x]))'
    BY <1>0, EndingStays DEF Endings
  <2>2. state'[x] \in {"running", "closing"} => Current(x)' \/ Interrupted(x)'
    BY <1>0, EndingStays DEF Endings, Interrupted
  <2> QED
    BY <2>1, <2>2 DEF Endings
<1>1. ASSUME Add(c) PROVE Endings(x)'
  <2>0. PICK old \in Controls \cup {Nil} : old = Entry(c).ctl
    BY <1>1, AddEntries
  <2>1. /\ old # c /\ old \in Controls \cup {Nil}
        /\ old # Nil => Current(old)
        /\ Current(x)' <=> x = c \/ (Current(x) /\ Run(x) # Run(c))
        /\ Current(x) /\ Run(x) = Run(c) => x = old
    BY <1>1, <2>0, AddEntries DEF Current, Entry
  <2>2. /\ barrier' = [barrier EXCEPT ![c] = IF old = Nil THEN Nil ELSE Barrier(old)]
        /\ login' = [login EXCEPT ![c] = "replaced"] /\ replaces' = [replaces EXCEPT ![c] = old]
        /\ \A y \in Controls : state'[y] = IF y = c THEN "pending" ELSE IF y = old THEN Ended(state[y]) ELSE state[y]
    BY <1>1, <2>0 DEF Add, admit, setHandoffBarrier
  <2>3. old # Nil => Interrupted(old)'
    BY <2>1, <2>2 DEF Interrupted
  <2>4. state'[x] \in {"running", "closing"} => Current(x)' \/ Interrupted(x)'
    BY <2>1, <2>2, <2>3, EndingStays DEF Endings
  <2>5. barrier'[x] # Nil => (state[barrier[x]] = "closed" \/ Interrupted(barrier[x]))'
    <3>1. CASE x # c
      BY <2>2, <3>1, EndingStays DEF Endings
    <3>2. CASE x = c /\ old # Nil
      <4>1. PICK b \in Controls \cup {Nil} : b = barrier[old]
        BY <3>2
      <4>2. barrier'[x] \in {b, old, Nil}
        BY <2>2, <3>2, <4>1 DEF Barrier
      <4>3. b # Nil => state[b] = "closed" \/ Interrupted(b)
        BY <2>1, <3>2, <4>1 DEF Inv, Endings
      <4>4. b # Nil => state'[b] = "closed" \/ Interrupted(b)'
        BY <4>3, EndingStays
      <4> QED
        BY <2>3, <3>2, <4>2, <4>4
    <3> QED
      BY <2>2, <3>1, <3>2
  <2> QED
    BY <2>4, <2>5 DEF Endings
<1>2. ASSUME \/ (\E w \in Who : Login(c, w)) \/ AddRefused(c) \/ Replaced(c) \/ CompleteFails(c)
             \/ ReaderStep(c) \/ ClosePool(c) \/ (\E n \in Names : CloseOneProxy(c, n)) \/ DelOneProxy(c)
             \/ Activate(c) \/ ActivateFails(c)
      PROVE  Endings(x)'
  <2>1. state' = state /\ barrier'[x] \in {barrier[x], Nil}
    BY <1>2, Frames
       DEF Login, AddRefused, Replaced, CompleteFails, ClosePool, CloseOneProxy, DelOneProxy, Activate, ActivateFails
  <2>2. Current(x)' <=> Current(x)
    BY <1>2, CurrentKept, Frames
       DEF AddRefused, Replaced, CompleteFails, ClosePool, CloseOneProxy, DelOneProxy, ActivateFails
  <2> QED
    BY <1>0, <2>1, <2>2
<1>3. ASSUME CompleteLogin(c) PROVE Endings(x)'
  <2>1. Current(c) /\ UNCHANGED <<who, ctlsByRunID, barrier>> /\ state' = [state EXCEPT ![c] = "running"]
    BY <1>3 DEF CompleteLogin, MayComplete, startLocked
  <2>2. Current(x)' <=> Current(x)
    BY <2>1, CurrentKept
  <2> QED
    BY <1>0, <2>1, <2>2
<1>4. ASSUME LoginCloses(c) \/ HeartbeatTimeout(c) \/ WorkerWakes(c) PROVE Endings(x)'
  <2>1. state' = [state EXCEPT ![c] = Ended(@)] /\ interrupted' = [interrupted EXCEPT ![c] = TRUE] /\ barrier' = barrier
    BY <1>4 DEF LoginCloses, HeartbeatTimeout, WorkerWakes, Close
  <2>2. Current(x)' <=> Current(x)
    BY <1>4, CurrentKept DEF HeartbeatTimeout, WorkerWakes
  <2> QED
    BY <1>0, <2>1, <2>2
<1>5. ASSUME LoginRemoves(c) \/ WorkerRemoves(c) PROVE Endings(x)'
  <2>1. UNCHANGED <<who, state, barrier, interrupted>> /\ (state[c] \in {"running", "closing"} => interrupted[c])
    BY <1>5 DEF LoginRemoves, WorkerRemoves, Life
  <2>2. Current(x)' <=> Current(x) /\ x # c
    BY <1>5, <2>1, RemovedEntries DEF LoginRemoves, WorkerRemoves
  <2> QED
    BY <1>0, <2>1, <2>2
<1>6. ASSUME ShutdownCloses(c) PROVE Endings(x)'
  <2>1. state' = [state EXCEPT ![c] = Ended(@)] /\ interrupted' = [interrupted EXCEPT ![c] = TRUE] /\ UNCHANGED <<who, barrier>>
    BY <1>6 DEF ShutdownCloses, Close
  <2>2. Current(x)' <=> Current(x) /\ x # c
    BY <1>6, <2>1, RemovedEntries DEF ShutdownCloses
  <2> QED
    BY <1>0, <2>1, <2>2
<1>7. ASSUME WorkerFinishes(c) PROVE Endings(x)'
  <2>1. state' = [state EXCEPT ![c] = "closed"] /\ barrier' = barrier
    BY <1>7 DEF WorkerFinishes
  <2>2. Current(x)' <=> Current(x)
    BY <1>7, CurrentKept
  <2> QED
    BY <1>0, <2>1, <2>2
<1> HIDE DEF TypeOK
<1> QED
  BY <1>1, <1>2, <1>3, <1>4, <1>5, <1>6, <1>7 DEF ControlStep, LoginStep, WorkerStep

-----------------------------------------------------------------------------
(* The registry. *)

\* What holds of one key and of one run id, and of the control that is registered.
KeyOK(k) ==
    /\ clients[k].online =>
          /\ clients[k].run \in RunIDs /\ runIndex[clients[k].run] = k
          /\ ctlsByRunID[clients[k].run].registryOnline
          /\ ctlsByRunID[clients[k].run].registryControlID = clients[k].ctl
    /\ ~clients[k].online => clients[k].run = Nil
    /\ k \in RunIDs /\ clients[k].run # Nil => clients[k].run = k
RunOK(r) ==
    /\ runIndex[r] # Nil => clients[runIndex[r]].run = r
    /\ ctlsByRunID[r].registryOnline => runIndex[r] # Nil
ControlOK(c) == activated[c] /\ Current(c) => Entry(c).registryOnline /\ Entry(c).registryControlID = c

\* The registry is right when it is for every key, run id and control.
LEMMA RegistryParts ==
    Registry <=> (\A k \in Keys : KeyOK(k)) /\ (\A r \in RunIDs : RunOK(r)) /\ (\A c \in Controls : ControlOK(c))
  BY DEF Registry, KeyOK, RunOK, ControlOK, Keys

\* Coming online: the record under the key is the control's, the record under another key
\* of the same run goes offline, and everything of other runs stays.
LEMMA RegisterAgrees ==
    ASSUME Inv, NEW c \in Controls, Activate(c)
    PROVE  Registry'
<1> TypeOK /\ Registry
  BY DEF Inv
<1>1. /\ Current(c) /\ who[c] # NoOne /\ Run(c) \in RunIDs
      /\ ctlsByRunID'[Run(c)].ctl = c /\ ctlsByRunID'[Run(c)].registryOnline /\ ctlsByRunID'[Run(c)].registryControlID = c
      /\ \A r \in RunIDs : r # Run(c) => ctlsByRunID'[r] = ctlsByRunID[r]
  BY ActivateEntries
<1>2. Key(c) \in Keys /\ (Key(c) \in RunIDs => Key(c) = Run(c))
  <2>1. who[c] \in Who
    BY <1>1, Logged
  <2> QED
    BY <1>1, <2>1, Logged DEF Key
<1> DEFINE previous == runIndex[Run(c)]
           moved == previous \notin {Nil, Key(c)}
           before == IF moved /\ clients[previous].run = Run(c) THEN [clients EXCEPT ![previous] = Gone(@)] ELSE clients
           new == [raw |-> who[c].raw, run |-> Run(c), ctl |-> c, online |-> TRUE]
           index == [r \in RunIDs |-> IF r = clients[Key(c)].run \/ (moved /\ r = Run(c)) THEN Nil ELSE runIndex[r]]
<1>3. clients[Key(c)].run \in {Nil, Run(c)}
  <2>1. CASE Key(c) \in RunIDs
    BY <1>2, <2>1 DEF Registry
  <2>2. CASE Key(c) \notin RunIDs
    <3>1. who[c].raw # NoClient
      BY <1>1, <2>2 DEF Key
    <3> QED
      BY <1>2, <3>1 DEF Activate, MayActivate, Conflict, Registry
  <2> QED
    BY <2>1, <2>2
<1>4. previous \in Keys \cup {Nil} /\ (previous # Nil => clients[previous].run = Run(c))
  BY <1>1 DEF TypeOK, Registry
<1>5. clients' = [before EXCEPT ![Key(c)] = new] /\ runIndex' = [index EXCEPT ![Run(c)] = Key(c)]
  BY DEF Activate, RegisterWithControlID
<1>6. new.run = Run(c) /\ new.ctl = c /\ new.online = TRUE
  OBVIOUS
<1>7. /\ clients'[Key(c)] = new
      /\ \A k \in Keys : k # Key(c) => clients'[k] = IF k = previous THEN Gone(clients[k]) ELSE clients[k]
  <2>1. before \in [Keys -> ClientInfos \cup {NoInfo}]
    BY <1>4, GoneType DEF TypeOK
  <2>2. \A k \in Keys : k # Key(c) => before[k] = IF k = previous THEN Gone(clients[k]) ELSE clients[k]
    BY <1>4 DEF TypeOK, Keys
  <2> HIDE DEF before, new
  <2> QED
    BY <1>2, <1>5, <2>1, <2>2
<1>8. /\ runIndex'[Run(c)] = Key(c)
      /\ \A r \in RunIDs : r # Run(c) => runIndex'[r] = runIndex[r]
  BY <1>1, <1>3, <1>5
<1> HIDE DEF before, new, index, previous, moved
<1>9. ASSUME NEW k \in Keys PROVE KeyOK(k)'
  <2>1. CASE k = Key(c)
    BY <1>1, <1>2, <1>6, <1>7, <1>8, <2>1 DEF KeyOK
  <2>2. CASE k # Key(c) /\ k = previous
    <3>1. clients[k] \in ClientInfos \cup {NoInfo} /\ clients'[k] = Gone(clients[k])
      BY <1>7, <2>2 DEF TypeOK
    <3>2. clients'[k].online = FALSE /\ clients'[k].run = Nil
      BY <3>1, GoneType
    <3> QED
      BY <3>2 DEF KeyOK
  <2>3. CASE k # Key(c) /\ k # previous
    <3>1. clients'[k] = clients[k] /\ KeyOK(k)
      BY <1>7, <2>3, RegistryParts
    <3>2. clients[k].online => clients[k].run # Run(c)
      BY <2>3, <3>1 DEF KeyOK, previous
    <3> QED
      BY <1>1, <1>8, <3>1, <3>2 DEF KeyOK
  <2> QED
    BY <2>1, <2>2, <2>3
<1>10. ASSUME NEW r \in RunIDs PROVE RunOK(r)'
  <2>1. CASE r = Run(c)
    BY <1>2, <1>6, <1>7, <1>8, <2>1 DEF RunOK, Keys
  <2>2. CASE r # Run(c)
    <3>1. RunOK(r) /\ runIndex'[r] = runIndex[r] /\ ctlsByRunID'[r] = ctlsByRunID[r]
      BY <1>1, <1>8, <2>2, RegistryParts
    <3>2. runIndex[r] \in Keys \cup {Nil}
      BY DEF TypeOK
    <3>3. runIndex[r] # Nil => runIndex[r] # Key(c) /\ runIndex[r] # previous
      BY <1>3, <1>4, <2>2, <3>1 DEF RunOK
    <3> QED
      BY <1>7, <3>1, <3>2, <3>3 DEF RunOK
  <2> QED
    BY <2>1, <2>2
<1>11. ASSUME NEW x \in Controls PROVE ControlOK(x)'
  <2>1. who' = who /\ activated' = [activated EXCEPT ![c] = TRUE] /\ (Current(x)' <=> Current(x))
    BY CurrentKept DEF Activate
  <2>2. CASE x = c
    BY <1>1, <2>1, <2>2 DEF ControlOK, Entry, Run
  <2>3. CASE x # c
    <3>1. Current(x) => Run(x) \in RunIDs /\ Run(x) # Run(c)
      BY <1>1, <2>3, Logged DEF Current, Entry
    <3>2. ControlOK(x) /\ activated'[x] = activated[x]
      BY <2>1, <2>3, RegistryParts DEF TypeOK
    <3> QED
      BY <1>1, <2>1, <3>1, <3>2 DEF ControlOK, Entry, Run
  <2> QED
    BY <2>2, <2>3
<1> QED
  BY <1>9, <1>10, <1>11 DEF Registry, KeyOK, RunOK, ControlOK, Keys

\* Going offline: the record that the entry stands for is the one that is marked.
LEMMA RemovedAgrees ==
    ASSUME Inv, NEW c \in Controls, Removed(c), UNCHANGED <<who, activated>>
    PROVE  Registry'
<1> TypeOK /\ Registry
  BY DEF Inv
<1>0. /\ ctlsByRunID' = [r \in RunIDs |-> IF Current(c) /\ r = Run(c) THEN NoEntry ELSE ctlsByRunID[r]]
      /\ \A x \in Controls : Current(x)' <=> Current(x) /\ x # c
  BY RemovedEntries
<1>1. Current(c) => Run(c) \in RunIDs
  BY Logged DEF Current
<1>2. ASSUME NEW x \in Controls PROVE ControlOK(x)'
  <2>1. Current(x)' => Current(x) /\ Run(x) \in RunIDs /\ ctlsByRunID'[Run(x)] = ctlsByRunID[Run(x)]
    BY <1>0, <1>1, Logged DEF Current, Entry
  <2> QED
    BY <2>1, RegistryParts DEF ControlOK, Entry, Run
<1>3. CASE Current(c) /\ Entry(c).registryOnline
  <2> DEFINE key == runIndex[Run(c)]
  <2>1. key \in Keys /\ clients[key].run = Run(c) /\ clients[key].online
    BY <1>1, <1>3 DEF Registry, TypeOK, Entry
  <2>2. clients[key].ctl = Entry(c).registryControlID
    BY <2>1 DEF Registry, Entry
  <2>3. clients' = [clients EXCEPT ![key] = Gone(@)]
    BY <1>1, <1>3, <2>1, <2>2 DEF Removed, MarkOffline, Keys
  <2>4. PICK info \in ClientInfos \cup {NoInfo} : clients'[key] = Gone(info)
    BY <2>1, <2>3 DEF TypeOK
  <2>5. clients'[key].run = Nil /\ clients'[key].online = FALSE
    BY <2>4, GoneType
  <2>6. runIndex' = [runIndex EXCEPT ![Run(c)] = Nil]
    <3>1. runIndex' = IF key # Nil /\ clients'[key].run # Run(c) THEN [runIndex EXCEPT ![Run(c)] = Nil] ELSE runIndex
      BY <1>3, <2>1, <2>2, <2>3 DEF Removed, MarkOffline, Keys
    <3> QED
      BY <1>1, <1>3, <2>1, <2>5, <3>1 DEF Keys
  <2>7. ASSUME NEW k \in Keys PROVE KeyOK(k)'
    <3>1. CASE k = key
      BY <2>5, <3>1 DEF KeyOK
    <3>2. CASE k # key
      <4>1. clients'[k] = clients[k] /\ KeyOK(k)
        BY <2>3, <3>2, RegistryParts DEF TypeOK
      <4>2. clients[k].online => clients[k].run # Run(c)
        BY <3>2, <4>1 DEF KeyOK
      <4>3. clients[k].online => runIndex'[clients[k].run] = runIndex[clients[k].run]
                                 /\ ctlsByRunID'[clients[k].run] = ctlsByRunID[clients[k].run]
        BY <1>0, <2>6, <4>1, <4>2 DEF KeyOK, TypeOK
      <4> QED
        BY <4>1, <4>3 DEF KeyOK
    <3> QED
      BY <3>1, <3>2
  <2>8. ASSUME NEW r \in RunIDs PROVE RunOK(r)'
    <3>1. CASE r = Run(c)
      BY <1>0, <1>3, <2>6, <3>1 DEF RunOK, NoEntry, TypeOK
    <3>2. CASE r # Run(c)
      <4>1. RunOK(r) /\ runIndex'[r] = runIndex[r] /\ ctlsByRunID'[r] = ctlsByRunID[r] /\ runIndex[r] \in Keys \cup {Nil}
        BY <1>0, <2>6, <3>2, RegistryParts DEF TypeOK
      <4>2. runIndex[r] # Nil => runIndex[r] # key
        BY <2>1, <3>2, <4>1 DEF RunOK
      <4>3. runIndex[r] # Nil => clients'[runIndex[r]] = clients[runIndex[r]]
        BY <2>3, <4>1, <4>2 DEF TypeOK
      <4> QED
        BY <4>1, <4>3 DEF RunOK
    <3> QED
      BY <3>1, <3>2
  <2> QED
    BY <1>2, <2>7, <2>8 DEF Registry, KeyOK, RunOK, ControlOK, Keys
<1>4. CASE ~(Current(c) /\ Entry(c).registryOnline)
  <2>1. UNCHANGED <<clients, runIndex>>
    BY <1>4 DEF Removed, registryVars
  <2>2. \A r \in RunIDs : ctlsByRunID'[r] = ctlsByRunID[r] \/ (ctlsByRunID'[r] = NoEntry /\ ~ctlsByRunID[r].registryOnline)
    BY <1>0, <1>4 DEF Entry
  <2>3. ASSUME NEW k \in Keys PROVE KeyOK(k)'
    BY <2>1, <2>2, RegistryParts DEF KeyOK
  <2>4. ASSUME NEW r \in RunIDs PROVE RunOK(r)'
    BY <2>1, <2>2, RegistryParts DEF RunOK, NoEntry
  <2> QED
    BY <1>2, <2>3, <2>4 DEF Registry, KeyOK, RunOK, ControlOK, Keys
<1> QED
  BY <1>3, <1>4

\* The registry, the index and the entries agree after every step of a control.
LEMMA RegistryControl ==
    ASSUME Inv, NEW c \in Controls, ControlStep(c)
    PROVE  Registry'
<1> TypeOK /\ Registry
  BY DEF Inv
<1> USE DEF lifeVars, managerVars, registryVars, proxyVars
<1>1. ASSUME UNCHANGED <<clients, runIndex>>,
             \A r \in RunIDs : ctlsByRunID'[r].registryOnline = ctlsByRunID[r].registryOnline
                               /\ ctlsByRunID'[r].registryControlID = ctlsByRunID[r].registryControlID,
             \A x \in Controls : activated'[x] /\ Current(x)' => activated[x] /\ Current(x) /\ who'[x] = who[x]
      PROVE  Registry'
  <2>1. ASSUME NEW k \in Keys PROVE KeyOK(k)'
    BY <1>1, RegistryParts DEF KeyOK
  <2>2. ASSUME NEW r \in RunIDs PROVE RunOK(r)'
    BY <1>1, RegistryParts DEF RunOK
  <2>3. ASSUME NEW x \in Controls PROVE ControlOK(x)'
    <3>1. activated'[x] /\ Current(x)' => Run(x) \in RunIDs /\ ControlOK(x)
      BY <1>1, RegistryParts, Logged DEF Current
    <3> QED
      BY <1>1, <3>1 DEF ControlOK, Entry, Run
  <2> QED
    BY <2>1, <2>2, <2>3 DEF Registry, KeyOK, RunOK, ControlOK, Keys
<1>2. ASSUME NEW w \in Who, Login(c, w) PROVE Registry'
  <2>1. ~activated[c] /\ UNCHANGED <<clients, runIndex, ctlsByRunID, activated>> /\ \A x \in Controls : x # c => who'[x] = who[x]
    BY <1>2 DEF Inv, Life, Login, NewControl, TypeOK
  <2>2. \A x \in Controls : Current(x)' <=> Current(x)
    BY <1>2, CurrentKept
  <2> QED
    BY <1>1, <2>1, <2>2
<1>3. ASSUME Add(c) PROVE Registry'
  <2>1. ~activated[c] /\ UNCHANGED <<clients, runIndex, who, activated>>
    BY <1>3 DEF Inv, Life, Add
  <2>2. \A x \in Controls : x # c /\ Current(x)' => Current(x)
    BY <1>3, AddEntries
  <2>3. \A r \in RunIDs : ctlsByRunID'[r].registryOnline = ctlsByRunID[r].registryOnline
                          /\ ctlsByRunID'[r].registryControlID = ctlsByRunID[r].registryControlID
    BY <1>3, AddEntries DEF Entry
  <2> QED
    BY <1>1, <2>1, <2>2, <2>3
<1>4. ASSUME Activate(c) PROVE Registry'
  BY <1>4, RegisterAgrees
<1>5. ASSUME LoginRemoves(c) \/ WorkerRemoves(c) \/ ShutdownCloses(c) PROVE Registry'
  BY <1>5, RemovedAgrees DEF LoginRemoves, WorkerRemoves, ShutdownCloses
<1>6. ASSUME LoginCloses(c) \/ WorkerFinishes(c) PROVE Registry'
  <2>1. UNCHANGED <<clients, runIndex, ctlsByRunID>> /\ ~activated'[c] /\ \A x \in Controls : x # c => activated'[x] = activated[x] /\ who'[x] = who[x]
    BY <1>6 DEF LoginCloses, WorkerFinishes, Forgotten, TypeOK
  <2>2. \A x \in Controls : Current(x)' <=> Current(x)
    BY <1>6, CurrentKept
  <2> QED
    BY <1>1, <2>1, <2>2
<1>7. ASSUME \/ AddRefused(c) \/ Replaced(c) \/ ActivateFails(c) \/ CompleteLogin(c) \/ CompleteFails(c)
             \/ ReaderStep(c) \/ HeartbeatTimeout(c) \/ WorkerWakes(c) \/ ClosePool(c)
             \/ (\E n \in Names : CloseOneProxy(c, n)) \/ DelOneProxy(c)
      PROVE  Registry'
  <2>1. UNCHANGED <<clients, runIndex, ctlsByRunID, who, activated>>
    BY <1>7, Frames
       DEF AddRefused, Replaced, ActivateFails, CompleteLogin, CompleteFails, HeartbeatTimeout, WorkerWakes, ClosePool,
           CloseOneProxy, DelOneProxy
  <2>2. \A x \in Controls : Current(x)' <=> Current(x)
    BY <2>1, CurrentKept
  <2> QED
    BY <1>1, <2>1, <2>2
<1> QED
  BY <1>2, <1>3, <1>4, <1>5, <1>6, <1>7 DEF ControlStep, LoginStep, WorkerStep

-----------------------------------------------------------------------------
(* Proxies and work connections. *)

\* What a control owns it owns while its worker has not let go of it.
LEMMA OwnersMayOwn ==
    ASSUME Inv, NEW c \in Controls, Owns(c)
    PROVE  MayOwn(c)
<1>1. proxies[c] # {} => MayOwn(c)
  BY DEF Inv, Proxying
<1>2. Pool(c) # {} => MayOwn(c)
  BY DEF Inv, Pooling, Pool, At, MayOwn
<1>3. ASSUME NEW n \in Names, <<c, n>> \in listening \/ pxys[n] = c PROVE MayOwn(c)
  <2>1. n \in proxies[c] \/ reader[c].at \in {"add", "del"} \/ worker[c].at = "del"
    BY <1>3 DEF Inv, Proxying
  <2>2. reader[c].at \in {"add", "del"} => worker[c].at = "serve"
    BY DEF Inv, Life
  <2> QED
    BY <1>1, <2>1, <2>2 DEF MayOwn
<1> QED
  BY <1>1, <1>2, <1>3 DEF Owns

\* Nothing of a proxy changes for a control whose reader, worker and proxies stay and
\* whose names nobody else touches.
LEMMA ProxyingKept ==
    ASSUME Inv, NEW c \in Controls, proxies'[c] = proxies[c], reader'[c] = reader[c], worker'[c] = worker[c],
           \A n \in Names : <<c, n>> \in listening' <=> <<c, n>> \in listening,
           \A n \in Names : pxys'[n] = c <=> pxys[n] = c
    PROVE  Proxying(c)'
<1>1. /\ proxies[c] \subseteq Names
      /\ reader[c].at \in {"add", "del"} => reader[c].name \in Names
      /\ worker[c].at = "del" => worker[c].name \in Names
  BY ReaderShapes DEF Inv, TypeOK, Life
<1>2. Proxying(c)
  BY DEF Inv
<1> QED
  BY <1>1, <1>2 DEF Proxying, MayOwn

\* The reader changes what is registered and what listens.
LEMMA ProxyingReader ==
    ASSUME Inv, NEW c \in Controls, ReaderStep(c), NEW x \in Controls
    PROVE  Proxying(x)'
<1> TypeOK /\ Life(c) /\ Proxying(c)
  BY DEF Inv
<1>r. (\A a, n : Reading(a, n).at = a /\ Reading(a, n).name = n) /\ Idle.at = "reading"
  BY DEF Reading, Idle
<1>s. worker' = worker /\ worker[c].at = "serve" /\ reader[c].at \in {"reading", "run", "add", "del"}
  <2>1. reader[c].at \in {"reading", "run", "add", "del"}
    BY ReaderShapes DEF ReaderStep, HandlerStep, NewProxy, CloseProxy, RunFails, RunProxy, AddProxy, AddProxyFails, DelProxy, ReadFails
  <2> QED
    BY <2>1, Frames DEF Life
<1>t. proxies[c] \subseteq Names /\ MayOwn(c) /\ MayOwn(c)'
  BY <1>s DEF TypeOK, MayOwn
<1>k. ASSUME x # c, reader'[x] = reader[x], proxies'[x] = proxies[x],
             \A n \in Names : <<x, n>> \in listening' <=> <<x, n>> \in listening,
             \A n \in Names : pxys'[n] = pxys[n] \/ (pxys[n] \in {Nil, c} /\ pxys'[n] \in {Nil, c})
      PROVE  Proxying(x)'
  BY <1>s, <1>k, ProxyingKept
<1>1. ASSUME NEW n \in Names, NewProxy(c, n) PROVE Proxying(x)'
  <2>1. UNCHANGED <<proxies, listening, pxys>> /\ reader' = [reader EXCEPT ![c] = Reading("run", n)] /\ pxys[n] = Nil /\ reader[c].at = "reading"
    BY <1>1, ReaderShapes DEF NewProxy, Sets
  <2>2. CASE x # c
    BY <1>k, <2>1, <2>2 DEF TypeOK
  <2>3. CASE x = c
    <3>1. reader'[c].at = "run" /\ reader'[c].name = n
      BY <1>r, <2>1 DEF TypeOK
    <3> QED
      BY <1>s, <1>t, <2>1, <2>3, <3>1 DEF Proxying
  <2> QED
    BY <2>2, <2>3
<1>2. ASSUME RunFails(c) \/ ReadFails(c) PROVE Proxying(x)'
  <2>1. UNCHANGED <<proxies, listening, pxys>> /\ reader[c].at \in {"run", "reading"}
        /\ (reader' = [reader EXCEPT ![c] = Idle] \/ reader' = [reader EXCEPT ![c] = Reading("done", Nil)])
    BY <1>2, ReaderShapes DEF RunFails, ReadFails, Sets, proxyVars
  <2>2. CASE x # c
    BY <1>k, <2>1, <2>2 DEF TypeOK
  <2>3. CASE x = c
    <3>1. reader'[c].at \in {"reading", "done"}
      BY <1>r, <2>1 DEF TypeOK
    <3> QED
      BY <1>s, <1>t, <2>1, <2>3, <3>1 DEF Proxying
  <2> QED
    BY <2>2, <2>3
<1>3. ASSUME RunProxy(c) PROVE Proxying(x)'
  <2>1. PICK n \in Names : reader[c].name = n
    BY <1>3, ReaderShapes DEF RunProxy
  <2>2. UNCHANGED <<proxies, pxys>> /\ reader' = [reader EXCEPT ![c] = Reading("add", n)]
        /\ listening' = listening \cup {<<c, n>>} /\ reader[c].at = "run"
    BY <1>3, <2>1 DEF RunProxy, Sets
  <2>3. CASE x # c
    BY <1>k, <2>2, <2>3 DEF TypeOK
  <2>4. CASE x = c
    <3>1. reader'[c].at = "add" /\ reader'[c].name = n
      BY <1>r, <2>2 DEF TypeOK
    <3>2. \A m \in Names : <<c, m>> \in listening' <=> <<c, m>> \in listening \/ m = n
      BY <2>2
    <3> QED
      BY <1>s, <1>t, <2>1, <2>2, <2>4, <3>1, <3>2 DEF Proxying
  <2> QED
    BY <2>3, <2>4
<1>4. ASSUME AddProxy(c) PROVE Proxying(x)'
  <2>1. PICK n \in Names : reader[c].name = n
    BY <1>4, ReaderShapes DEF AddProxy
  <2>2. UNCHANGED listening /\ reader' = [reader EXCEPT ![c] = Idle] /\ reader[c].at = "add"
        /\ pxys[n] = Nil /\ pxys' = [pxys EXCEPT ![n] = c] /\ proxies' = [proxies EXCEPT ![c] = @ \cup {n}]
    BY <1>4, <2>1 DEF AddProxy, Sets, MayAdd
  <2>3. CASE x # c
    BY <1>k, <2>2, <2>3 DEF TypeOK
  <2>4. CASE x = c
    <3>1. reader'[c].at = "reading" /\ proxies'[c] = proxies[c] \cup {n} /\ \A m \in Names : pxys'[m] = IF m = n THEN c ELSE pxys[m]
      BY <1>r, <2>2 DEF TypeOK
    <3> QED
      BY <1>s, <1>t, <2>1, <2>2, <2>4, <3>1 DEF Proxying
  <2> QED
    BY <2>3, <2>4
<1>5. ASSUME AddProxyFails(c) PROVE Proxying(x)'
  <2>1. PICK n \in Names : reader[c].name = n
    BY <1>5, ReaderShapes DEF AddProxyFails
  <2>2. UNCHANGED <<proxies, pxys>> /\ reader' = [reader EXCEPT ![c] = Idle] /\ reader[c].at = "add"
        /\ listening' = listening \ {<<c, n>>}
    BY <1>5, <2>1 DEF AddProxyFails, Sets
  <2>3. CASE x # c
    BY <1>k, <2>2, <2>3 DEF TypeOK
  <2>4. CASE x = c
    <3>1. reader'[c].at = "reading" /\ \A m \in Names : <<c, m>> \in listening' <=> <<c, m>> \in listening /\ m # n
      BY <1>r, <2>2 DEF TypeOK
    <3> QED
      BY <1>s, <1>t, <2>1, <2>2, <2>4, <3>1 DEF Proxying
  <2> QED
    BY <2>3, <2>4
<1>6. ASSUME NEW n \in Names, CloseProxy(c, n) PROVE Proxying(x)'
  <2>1. UNCHANGED pxys /\ reader' = [reader EXCEPT ![c] = Reading("del", n)] /\ reader[c].at = "reading" /\ n \in proxies[c]
        /\ listening' = listening \ {<<c, n>>} /\ proxies' = [proxies EXCEPT ![c] = @ \ {n}]
    BY <1>6, ReaderShapes DEF CloseProxy, Sets
  <2>2. CASE x # c
    BY <1>k, <2>1, <2>2 DEF TypeOK
  <2>3. CASE x = c
    <3>1. reader'[c].at = "del" /\ reader'[c].name = n /\ proxies'[c] = proxies[c] \ {n}
          /\ \A m \in Names : <<c, m>> \in listening' <=> <<c, m>> \in listening /\ m # n
      BY <1>r, <2>1 DEF TypeOK
    <3> QED
      BY <1>s, <1>t, <2>1, <2>3, <3>1 DEF Proxying
  <2> QED
    BY <2>2, <2>3
<1>7. ASSUME DelProxy(c) PROVE Proxying(x)'
  <2>1. PICK n \in Names : reader[c].name = n
    BY <1>7, ReaderShapes DEF DelProxy
  <2>2. UNCHANGED <<listening, proxies>> /\ reader' = [reader EXCEPT ![c] = Idle] /\ reader[c].at = "del"
        /\ pxys' = [pxys EXCEPT ![n] = Nil] /\ pxys[n] = c
    BY <1>7, <2>1 DEF DelProxy, Sets, Proxying
  <2>3. CASE x # c
    BY <1>k, <2>2, <2>3 DEF TypeOK
  <2>4. CASE x = c
    <3>1. reader'[c].at = "reading" /\ \A m \in Names : pxys'[m] = IF m = n THEN Nil ELSE pxys[m]
      BY <1>r, <2>2 DEF TypeOK
    <3> QED
      BY <1>s, <1>t, <2>1, <2>2, <2>4, <3>1 DEF Proxying
  <2> QED
    BY <2>3, <2>4
<1> QED
  BY <1>1, <1>2, <1>3, <1>4, <1>5, <1>6, <1>7 DEF ReaderStep, HandlerStep

\* So does the worker that ends a control, and a login that starts one finds nothing.
LEMMA ProxyingControl ==
    ASSUME Inv, NEW c \in Controls, ControlStep(c), NEW x \in Controls
    PROVE  Proxying(x)'
<1> TypeOK /\ Life(c) /\ Proxying(c)
  BY DEF Inv
<1> USE DEF lifeVars, managerVars, registryVars, proxyVars
<1>k. ASSUME x # c, reader'[x] = reader[x], worker'[x] = worker[x], proxies'[x] = proxies[x],
             \A n \in Names : <<x, n>> \in listening' <=> <<x, n>> \in listening,
             \A n \in Names : pxys'[n] = pxys[n] \/ (pxys[n] \in {Nil, c} /\ pxys'[n] \in {Nil, c})
      PROVE  Proxying(x)'
  BY <1>k, ProxyingKept
<1>1. ASSUME CompleteLogin(c) PROVE Proxying(x)'
  <2>1. UNCHANGED <<proxies, listening, pxys>> /\ reader' = [reader EXCEPT ![c] = Reading("reading", Nil)]
        /\ worker' = [worker EXCEPT ![c].at = "serve"]
    BY <1>1 DEF CompleteLogin, startLocked
  <2>2. CASE x # c
    BY <1>k, <2>1, <2>2 DEF TypeOK
  <2>3. CASE x = c
    <3>1. worker[c].at = "none" /\ reader[c].at = "none" /\ proxies[c] = {}
      BY <1>1 DEF CompleteLogin, Life, Proxying, MayOwn
    <3>2. worker'[c].at = "serve" /\ reader'[c].at = "reading"
      BY <2>1 DEF TypeOK, Reading
    <3>3. \A n \in Names : <<c, n>> \notin listening /\ pxys[n] # c
      BY <3>1 DEF Proxying
    <3> QED
      BY <2>1, <2>3, <3>1, <3>2, <3>3 DEF Proxying, MayOwn
  <2> QED
    BY <2>2, <2>3
<1>2. ASSUME WorkerWakes(c) \/ ClosePool(c) \/ WorkerRemoves(c) \/ WorkerFinishes(c) PROVE Proxying(x)'
  <2>1. /\ UNCHANGED <<proxies, listening, pxys, reader>> /\ worker[c].at # "del"
        /\ \E where : worker' = [worker EXCEPT ![c] = [at |-> where, name |-> Nil]] /\ where # "del"
                      /\ (where \in {"serve", "pool", "proxies"} \/ proxies[c] = {})
    BY <1>2 DEF WorkerWakes, ClosePool, WorkerRemoves, WorkerFinishes, WorkerAt, Proxying, MayOwn
  <2>2. CASE x # c
    BY <1>k, <2>1, <2>2 DEF TypeOK
  <2>3. CASE x = c
    <3>1. worker'[c].at # "del" /\ (worker'[c].at \in {"serve", "pool", "proxies"} \/ proxies[c] = {})
      BY <2>1 DEF TypeOK
    <3> QED
      BY <2>1, <2>3, <3>1 DEF Proxying, MayOwn
  <2> QED
    BY <2>2, <2>3
<1>3. ASSUME NEW n \in Names, CloseOneProxy(c, n) PROVE Proxying(x)'
  <2>1. UNCHANGED <<pxys, reader>> /\ worker[c].at = "proxies" /\ n \in proxies[c]
        /\ worker' = [worker EXCEPT ![c] = [at |-> "del", name |-> n]]
        /\ listening' = listening \ {<<c, n>>} /\ proxies' = [proxies EXCEPT ![c] = @ \ {n}]
    BY <1>3 DEF CloseOneProxy
  <2>2. CASE x # c
    BY <1>k, <2>1, <2>2 DEF TypeOK
  <2>3. CASE x = c
    <3>1. worker'[c].at = "del" /\ worker'[c].name = n /\ proxies'[c] = proxies[c] \ {n}
          /\ reader[c].at \notin {"reading", "run", "add", "del"} /\ proxies[c] \subseteq Names
          /\ \A m \in Names : <<c, m>> \in listening' <=> <<c, m>> \in listening /\ m # n
      BY <2>1 DEF TypeOK, Life
    <3> QED
      BY <2>1, <2>3, <3>1 DEF Proxying, MayOwn
  <2> QED
    BY <2>2, <2>3
<1>4. ASSUME DelOneProxy(c) PROVE Proxying(x)'
  <2>1. PICK n \in Names : worker[c].name = n
    BY <1>4 DEF DelOneProxy, TypeOK, Life
  <2>2. UNCHANGED <<listening, proxies, reader>> /\ worker[c].at = "del"
        /\ worker' = [worker EXCEPT ![c] = [at |-> "proxies", name |-> Nil]]
        /\ pxys' = [pxys EXCEPT ![n] = Nil] /\ pxys[n] = c
    BY <1>4, <2>1 DEF DelOneProxy, WorkerAt, Proxying
  <2>3. CASE x # c
    BY <1>k, <2>2, <2>3 DEF TypeOK
  <2>4. CASE x = c
    <3>1. worker'[c].at = "proxies" /\ (\A m \in Names : pxys'[m] = IF m = n THEN Nil ELSE pxys[m])
          /\ reader[c].at \notin {"reading", "run", "add", "del"} /\ proxies[c] \subseteq Names
      BY <2>2 DEF TypeOK, Life
    <3> QED
      BY <2>1, <2>2, <2>4, <3>1 DEF Proxying, MayOwn
  <2> QED
    BY <2>3, <2>4
<1>5. ASSUME ReaderStep(c) PROVE Proxying(x)'
  BY <1>5, ProxyingReader
<1>6. ASSUME \/ (\E w \in Who : Login(c, w)) \/ Add(c) \/ AddRefused(c) \/ Replaced(c) \/ Activate(c)
             \/ ActivateFails(c) \/ CompleteFails(c) \/ LoginRemoves(c) \/ LoginCloses(c) \/ HeartbeatTimeout(c)
             \/ ShutdownCloses(c)
      PROVE  Proxying(x)'
  <2>1. UNCHANGED <<reader, worker, proxies, listening, pxys>>
    BY <1>6
       DEF Login, Add, AddRefused, Replaced, Activate, ActivateFails, CompleteFails, LoginRemoves, LoginCloses,
           HeartbeatTimeout, ShutdownCloses
  <2> QED
    BY <2>1, ProxyingKept
<1> QED
  BY <1>1, <1>2, <1>3, <1>4, <1>5, <1>6 DEF ControlStep, LoginStep, WorkerStep

\* The ports of a control are counted once.
LEMMA CountingControl ==
    ASSUME Inv, NEW c \in Controls, ControlStep(c), NEW x \in Controls
    PROVE  Counting(x)'
<1> TypeOK /\ Life(c) /\ Proxying(c) /\ Counting(c) /\ Counting(x)
  BY DEF Inv
<1> USE DEF lifeVars, managerVars, registryVars, proxyVars
<1>r. (\A a, n : Reading(a, n).at = a) /\ Idle.at = "reading"
  BY DEF Reading, Idle
<1>f. IsFiniteSet(proxies[c]) /\ Cardinality(proxies[c]) \in Nat /\ portsUsedNum[c] \in Nat
  BY FS_CardinalityType DEF Counting, TypeOK
<1>a. \A n : n \notin proxies[c] => IsFiniteSet(proxies[c] \cup {n}) /\ Cardinality(proxies[c] \cup {n}) = Cardinality(proxies[c]) + 1
  BY <1>f, FS_AddElement
<1>b. \A n : n \in proxies[c] => IsFiniteSet(proxies[c] \ {n}) /\ Cardinality(proxies[c] \ {n}) = Cardinality(proxies[c]) - 1
  BY <1>f, FS_RemoveElement
<1>k. ASSUME proxies'[x] = proxies[x], portsUsedNum'[x] = portsUsedNum[x], reader'[x] = reader[x], worker'[x] = worker[x]
      PROVE  Counting(x)'
  BY <1>k DEF Counting
<1>c. ASSUME ReaderStep(c) PROVE worker' = worker /\ worker[c].at = "serve"
  <2>1. reader[c].at \in {"reading", "run", "add", "del"}
    BY <1>c, ReaderShapes DEF ReaderStep, HandlerStep, NewProxy, CloseProxy, RunFails, RunProxy, AddProxy, AddProxyFails, DelProxy, ReadFails
  <2> QED
    BY <1>c, <2>1, Frames DEF Life
<1>1. ASSUME CompleteLogin(c) PROVE Counting(x)'
  <2>1. UNCHANGED <<proxies, portsUsedNum>> /\ reader' = [reader EXCEPT ![c] = Reading("reading", Nil)]
        /\ worker' = [worker EXCEPT ![c].at = "serve"]
    BY <1>1 DEF CompleteLogin, startLocked
  <2>2. worker[c].at = "none" /\ proxies[c] = {} /\ portsUsedNum[c] = 0
    BY <1>1 DEF CompleteLogin, Life, Proxying, MayOwn, Counting
  <2>3. proxies'[c] = proxies[c] /\ IsFiniteSet(proxies'[c]) /\ Cardinality(proxies'[c]) = 0 /\ portsUsedNum'[c] = 0
    BY <2>1, <2>2, FS_EmptySet
  <2>4. reader'[c].at = "reading" /\ worker'[c].at = "serve"
    BY <1>r, <2>1 DEF TypeOK
  <2>5. CASE x = c
    BY <2>3, <2>4, <2>5 DEF Counting
  <2>6. CASE x # c
    BY <1>k, <2>1, <2>6 DEF TypeOK
  <2> QED
    BY <2>5, <2>6
<1>2. ASSUME NEW n \in Names, NewProxy(c, n) PROVE Counting(x)'
  <2>1. UNCHANGED <<proxies, worker>> /\ reader' = [reader EXCEPT ![c] = Reading("run", n)] /\ reader[c].at = "reading"
        /\ portsUsedNum' = [portsUsedNum EXCEPT ![c] = @ + 1] /\ worker[c].at = "serve"
    BY <1>2, <1>c, ReaderShapes DEF NewProxy, Sets, ReaderStep
  <2>2. reader'[c].at = "run" /\ portsUsedNum'[c] = portsUsedNum[c] + 1
    BY <1>r, <2>1 DEF TypeOK
  <2>3. CASE x = c
    BY <1>f, <2>1, <2>2, <2>3 DEF Counting
  <2>4. CASE x # c
    BY <1>k, <2>1, <2>4 DEF TypeOK
  <2> QED
    BY <2>3, <2>4
<1>3. ASSUME RunFails(c) \/ AddProxyFails(c) PROVE Counting(x)'
  <2>1. UNCHANGED <<proxies, worker>> /\ reader' = [reader EXCEPT ![c] = Idle] /\ reader[c].at \in {"run", "add"}
        /\ portsUsedNum' = [portsUsedNum EXCEPT ![c] = @ - 1] /\ worker[c].at = "serve"
    BY <1>3, <1>c DEF RunFails, AddProxyFails, Refund, Sets, ReaderStep, HandlerStep
  <2>2. reader'[c].at = "reading" /\ portsUsedNum'[c] = portsUsedNum[c] - 1
    BY <1>r, <2>1 DEF TypeOK
  <2>3. CASE x = c
    BY <1>f, <2>1, <2>2, <2>3 DEF Counting
  <2>4. CASE x # c
    BY <1>k, <2>1, <2>4 DEF TypeOK
  <2> QED
    BY <2>3, <2>4
<1>4. ASSUME RunProxy(c) \/ DelProxy(c) \/ ReadFails(c) PROVE Counting(x)'
  <2>1. UNCHANGED <<proxies, worker, portsUsedNum>> /\ reader' = [reader EXCEPT ![c] = reader'[c]]
        /\ (reader'[c].at \in {"run", "add"} <=> reader[c].at \in {"run", "add"})
    BY <1>4, <1>r, ReaderShapes DEF RunProxy, DelProxy, ReadFails, Sets, TypeOK
  <2>2. CASE x = c
    BY <1>f, <2>1, <2>2 DEF Counting
  <2>3. CASE x # c
    BY <1>k, <2>1, <2>3 DEF TypeOK
  <2> QED
    BY <2>2, <2>3
<1>5. ASSUME AddProxy(c) PROVE Counting(x)'
  <2>1. PICK n \in Names : reader[c].name = n
    BY <1>5, ReaderShapes DEF AddProxy
  <2>2. UNCHANGED <<portsUsedNum, worker>> /\ reader' = [reader EXCEPT ![c] = Idle] /\ reader[c].at = "add"
        /\ proxies' = [proxies EXCEPT ![c] = @ \cup {n}] /\ worker[c].at = "serve" /\ n \notin proxies[c]
    BY <1>5, <1>c, <2>1 DEF AddProxy, Sets, ReaderStep, HandlerStep, Proxying
  <2>3. reader'[c].at = "reading" /\ proxies'[c] = proxies[c] \cup {n}
    BY <1>r, <2>2 DEF TypeOK
  <2>4. CASE x = c
    BY <1>f, <1>a, <2>2, <2>3, <2>4 DEF Counting
  <2>5. CASE x # c
    BY <1>k, <2>2, <2>5 DEF TypeOK
  <2> QED
    BY <2>4, <2>5
<1>6. ASSUME NEW n \in Names, CloseProxy(c, n) PROVE Counting(x)'
  <2>1. UNCHANGED worker /\ reader' = [reader EXCEPT ![c] = Reading("del", n)] /\ reader[c].at = "reading"
        /\ proxies' = [proxies EXCEPT ![c] = @ \ {n}] /\ portsUsedNum' = [portsUsedNum EXCEPT ![c] = @ - 1]
        /\ worker[c].at = "serve" /\ n \in proxies[c]
    BY <1>6, <1>c, ReaderShapes DEF CloseProxy, Sets, ReaderStep, Refund
  <2>2. reader'[c].at = "del" /\ proxies'[c] = proxies[c] \ {n} /\ portsUsedNum'[c] = portsUsedNum[c] - 1
    BY <1>r, <2>1 DEF TypeOK
  <2>3. CASE x = c
    <3>1. IsFiniteSet(proxies'[c]) /\ Cardinality(proxies'[c]) = Cardinality(proxies[c]) - 1
      BY <1>b, <2>1, <2>2
    <3>2. portsUsedNum[c] = Cardinality(proxies[c])
      BY <1>f, <2>1 DEF Counting
    <3> QED
      BY <1>f, <2>1, <2>2, <2>3, <3>1, <3>2 DEF Counting
  <2>4. CASE x # c
    BY <1>k, <2>1, <2>4 DEF TypeOK
  <2> QED
    BY <2>3, <2>4
<1>7. ASSUME WorkerWakes(c) \/ ClosePool(c) \/ DelOneProxy(c) \/ WorkerRemoves(c) \/ WorkerFinishes(c) PROVE Counting(x)'
  <2>1. /\ UNCHANGED <<proxies, reader>>
        /\ \E where : worker' = [worker EXCEPT ![c] = [at |-> where, name |-> Nil]] /\ where # "none" /\ where # "serve"
                      /\ (where = "pool" => worker[c].at = "serve" /\ portsUsedNum' = portsUsedNum)
        /\ \A y \in Controls : y # c => portsUsedNum'[y] = portsUsedNum[y]
    BY <1>7 DEF WorkerWakes, ClosePool, DelOneProxy, WorkerRemoves, WorkerFinishes, WorkerAt, TypeOK
  <2>2. worker'[c].at \notin {"none", "serve"} /\ (worker'[c].at = "pool" => worker[c].at = "serve" /\ portsUsedNum' = portsUsedNum)
    BY <2>1 DEF TypeOK
  <2>3. CASE x = c
    BY <1>f, <2>1, <2>2, <2>3 DEF Counting
  <2>4. CASE x # c
    BY <1>k, <2>1, <2>4 DEF TypeOK
  <2> QED
    BY <2>3, <2>4
<1>8. ASSUME NEW n \in Names, CloseOneProxy(c, n) PROVE Counting(x)'
  <2>1. UNCHANGED <<portsUsedNum, reader>> /\ n \in proxies[c] /\ proxies' = [proxies EXCEPT ![c] = @ \ {n}]
        /\ worker' = [worker EXCEPT ![c] = [at |-> "del", name |-> n]]
    BY <1>8 DEF CloseOneProxy
  <2>2. worker'[c].at = "del" /\ proxies'[c] = proxies[c] \ {n}
    BY <2>1 DEF TypeOK
  <2>3. CASE x = c
    BY <1>b, <2>1, <2>2, <2>3 DEF Counting
  <2>4. CASE x # c
    BY <1>k, <2>1, <2>4 DEF TypeOK
  <2> QED
    BY <2>3, <2>4
<1>9. ASSUME \/ (\E w \in Who : Login(c, w)) \/ Add(c) \/ AddRefused(c) \/ Replaced(c) \/ Activate(c)
             \/ ActivateFails(c) \/ CompleteFails(c) \/ LoginRemoves(c) \/ LoginCloses(c) \/ HeartbeatTimeout(c)
             \/ ShutdownCloses(c)
      PROVE  Counting(x)'
  <2>1. UNCHANGED <<reader, worker, proxies, portsUsedNum>>
    BY <1>9
       DEF Login, Add, AddRefused, Replaced, Activate, ActivateFails, CompleteFails, LoginRemoves, LoginCloses,
           HeartbeatTimeout, ShutdownCloses
  <2> QED
    BY <1>k, <2>1
<1> QED
  BY <1>1, <1>2, <1>3, <1>4, <1>5, <1>6, <1>7, <1>8, <1>9 DEF ControlStep, LoginStep, WorkerStep, ReaderStep, HandlerStep

\* A work connection waits in a pool only until the pool is closed.
LEMMA PoolingStep ==
    ASSUME Inv, Next
    PROVE  Pooling'
<1> TypeOK /\ Pooling
  BY DEF Inv
<1> SUFFICES ASSUME NEW w \in WorkConns, work'[w].at = "pool"
             PROVE  worker'[work'[w].ctl].at \in {"serve", "pool"}
  BY DEF Pooling
<1>p. \A c : At("pool", c).at = "pool" /\ At("pool", c).ctl = c /\ At("verify", c).at = "verify" /\ At("idle", Nil).at = "idle"
  BY DEF At
<1>t. /\ work[w].at = "pool" => work[w] = At("pool", work[w].ctl) /\ work[w].ctl \in Controls /\ worker[work[w].ctl].at \in {"serve", "pool"}
      /\ work[w].at = "verify" => work[w].ctl \in Controls
  <2>1. work[w] \in Places
    BY DEF TypeOK
  <2>2. work[w].at = "pool" => work[w] = At("pool", work[w].ctl) /\ work[w].ctl \in Controls
    BY <2>1 DEF Places, At
  <2>3. work[w].at = "verify" => work[w].ctl \in Controls
    BY <2>1 DEF Places, At
  <2> QED
    BY <2>2, <2>3 DEF Pooling
<1>1. ASSUME NEW c \in Controls, ControlStep(c), ~ClosePool(c) PROVE worker'[work'[w].ctl].at \in {"serve", "pool"}
  <2>1. work' = work
    BY <1>1, Frames
       DEF ControlStep, LoginStep, WorkerStep, Login, Add, AddRefused, Replaced, Activate, ActivateFails, CompleteLogin,
           CompleteFails, LoginRemoves, LoginCloses, HeartbeatTimeout, WorkerWakes, CloseOneProxy, DelOneProxy,
           WorkerRemoves, WorkerFinishes, ShutdownCloses
  <2>2. worker' = worker \/ worker' = [worker EXCEPT ![c].at = "serve"] \/ worker' = [worker EXCEPT ![c] = [at |-> "pool", name |-> Nil]]
        \/ (worker[c].at \notin {"serve", "pool"} /\ \A y \in Controls : y # c => worker'[y] = worker[y])
    BY <1>1, Frames
       DEF TypeOK, ControlStep, LoginStep, WorkerStep, Login, Add, AddRefused, Replaced, Activate, ActivateFails, CompleteLogin,
           startLocked, CompleteFails, LoginRemoves, LoginCloses, HeartbeatTimeout, WorkerWakes, WorkerAt, CloseOneProxy,
           DelOneProxy, WorkerRemoves, WorkerFinishes, ShutdownCloses
  <2>3. PICK y \in Controls : y = work[w].ctl /\ worker[y].at \in {"serve", "pool"}
    BY <1>t, <2>1
  <2>4. worker'[y].at \in {"serve", "pool"}
    <3>1. CASE y # c
      BY <2>2, <2>3, <3>1 DEF TypeOK
    <3>2. CASE y = c /\ worker' = [worker EXCEPT ![c].at = "serve"]
      BY <3>2 DEF TypeOK
    <3>3. CASE y = c /\ worker' = [worker EXCEPT ![c] = [at |-> "pool", name |-> Nil]]
      BY <3>3 DEF TypeOK
    <3> QED
      BY <2>2, <2>3, <3>1, <3>2, <3>3
  <2> QED
    BY <2>1, <2>3, <2>4
<1>2. ASSUME NEW c \in Controls, ClosePool(c) PROVE worker'[work'[w].ctl].at \in {"serve", "pool"}
  <2>1. work'[w] = IF work[w] = At("pool", c) THEN At("idle", Nil) ELSE work[w]
    BY <1>2 DEF ClosePool
  <2>2. work'[w] = work[w] /\ work[w] # At("pool", c)
    BY <1>p, <2>1
  <2>3. work[w].ctl # c
    BY <1>t, <2>2
  <2>4. \A y \in Controls : y # c => worker'[y] = worker[y]
    BY <1>2 DEF ClosePool, WorkerAt, TypeOK
  <2> QED
    BY <1>t, <2>2, <2>3, <2>4
<1>3. ASSUME WorkStep PROVE worker'[work'[w].ctl].at \in {"serve", "pool"}
  <2>1. worker' = worker
    BY <1>3, Frames
  <2>2. ASSUME RegisterWorkConn(w) PROVE worker'[work'[w].ctl].at \in {"serve", "pool"}
    <3>1. PICK c \in Controls : c = work[w].ctl
      BY <1>t, <2>2 DEF RegisterWorkConn
    <3>2. work'[w] = At("pool", c) /\ state[c] = "running"
      BY <2>2, <3>1 DEF RegisterWorkConn, MayRegister, TypeOK
    <3> QED
      BY <1>p, <2>1, <3>2 DEF Inv, Life
  <2>3. ASSUME ~RegisterWorkConn(w) PROVE work'[w] = work[w]
    <3>1. ASSUME NEW v \in WorkConns, NEW c \in Controls, NEW wire, NewWorkConn(v, c, wire) PROVE work'[w] = work[w]
      BY <1>p, <3>1 DEF NewWorkConn, TypeOK
    <3>2. ASSUME NEW v \in WorkConns, RegisterWorkConn(v), v # w PROVE work'[w] = work[w]
      BY <3>2 DEF RegisterWorkConn, TypeOK
    <3>3. ASSUME NEW v \in WorkConns, WorkConnRefused(v) \/ GetWorkConn(v) PROVE work'[w] = work[w]
      BY <1>p, <3>3 DEF WorkConnRefused, GetWorkConn, TypeOK
    <3>4. ASSUME (\E c \in Controls, n \in Names : UserArrives(c, n)) \/ GetWorkConnFails PROVE work'[w] = work[w]
      BY <3>4 DEF UserArrives, GetWorkConnFails
    <3> QED
      BY <1>3, <2>3, <3>1, <3>2, <3>3, <3>4 DEF WorkStep
  <2> QED
    BY <1>t, <2>1, <2>2, <2>3
<1>4. ASSUME Shutdown PROVE worker'[work'[w].ctl].at \in {"serve", "pool"}
  BY <1>4, <1>t DEF Shutdown
<1> QED
  BY <1>1, <1>2, <1>3, <1>4, Steps

-----------------------------------------------------------------------------
(* The invariant. *)

\* NewService starts with nothing.
LEMMA InitInv == Init => Inv
<1> SUFFICES ASSUME Init PROVE Inv
  OBVIOUS
<1>1. TypeOK
  <2>1. Reading("none", Nil) \in Readers /\ At("idle", Nil) \in Places /\ At("idle", Nil) \in UserPlaces
    BY DEF Readers, Places, UserPlaces
  <2>2. [at |-> "none", name |-> Nil] \in [at : Workers, name : Names \cup {Nil}]
    BY DEF Workers
  <2>3. worker \in [Controls -> [at : Workers, name : Names \cup {Nil}]] /\ reader \in [Controls -> Readers]
        /\ work \in [WorkConns -> Places] /\ user \in UserPlaces
    BY <2>1, <2>2 DEF Init
  <2>4. /\ login \in [Controls -> Logins] /\ who \in [Controls -> Who \cup {NoOne}]
        /\ state \in [Controls -> States] /\ activated \in [Controls -> BOOLEAN]
        /\ barrier \in [Controls -> Controls \cup {Nil}] /\ replaces \in [Controls -> Controls \cup {Nil}]
        /\ interrupted \in [Controls -> BOOLEAN]
    BY DEF Init, Logins, States
  <2>5. /\ ctlsByRunID \in [RunIDs -> Entries \cup {NoEntry}] /\ closed \in BOOLEAN /\ todo \subseteq Controls
        /\ clients \in [Keys -> ClientInfos \cup {NoInfo}] /\ runIndex \in [RunIDs -> Keys \cup {Nil}]
    BY DEF Init
  <2>6. /\ proxies \in [Controls -> SUBSET Names] /\ portsUsedNum \in [Controls -> 0..MaxPorts]
        /\ listening \subseteq Controls \X Names /\ pxys \in [Names -> Controls \cup {Nil}]
    BY DEF Init
  <2> QED
    BY <2>3, <2>4, <2>5, <2>6 DEF TypeOK
<1>2. ASSUME NEW c \in Controls
      PROVE  Life(c) /\ Entered(c) /\ Handover(c) /\ Endings(c) /\ Proxying(c) /\ Counting(c)
  <2>1. /\ who[c] = NoOne /\ login[c] = "absent" /\ state[c] = "created" /\ ~activated[c] /\ barrier[c] = Nil
        /\ worker[c].at = "none" /\ worker[c].name = Nil /\ reader[c].at = "none" /\ proxies[c] = {} /\ portsUsedNum[c] = 0
        /\ listening = {} /\ (\A n \in Names : pxys[n] = Nil) /\ todo = {}
    BY <1>2 DEF Init, Reading
  <2>2. Life(c) /\ Entered(c) /\ Handover(c) /\ Endings(c)
    BY <2>1 DEF Life, Entered, Handover, Endings, Current, Alive, MayOwn
  <2>3. Proxying(c) /\ Counting(c)
    BY <2>1, FS_EmptySet DEF Proxying, Counting, MayOwn
  <2> QED
    BY <2>2, <2>3
<1>3. Manager /\ Registry
  <2>1. (\A r \in RunIDs : ctlsByRunID[r] = NoEntry) /\ NoEntry.ctl = Nil /\ NoEntry.registryOnline = FALSE /\ todo = {}
        /\ (\A r \in RunIDs : runIndex[r] = Nil) /\ (\A k \in Keys : clients[k].online = FALSE /\ clients[k].run = Nil)
        /\ (\A c \in Controls : ~activated[c])
    BY DEF Init, NoEntry, NoInfo
  <2> QED
    BY <2>1 DEF Manager, Registry, Keys
<1>4. Pooling
  BY DEF Init, Pooling, At
<1> QED
  BY <1>1, <1>2, <1>3, <1>4 DEF Inv

\* Every step keeps the invariant.
LEMMA NextInv == Inv /\ [Next]_vars => Inv'
<1> SUFFICES ASSUME Inv, [Next]_vars PROVE Inv'
  OBVIOUS
<1>1. CASE UNCHANGED vars
  BY <1>1
     DEF vars, lifeVars, managerVars, registryVars, proxyVars, Inv, TypeOK, Life, Entered, Handover, Endings, Proxying,
         Counting, Manager, Registry, Pooling, Alive, MayOwn, Interrupted, Current, Entry, Run
<1>2. CASE Next
  <2>1. TypeOK' /\ Pooling'
    BY <1>2, TypeStep, PoolingStep
  <2>2. ASSUME NEW c \in Controls, ControlStep(c)
        PROVE  /\ (\A x \in Controls : Life(x) /\ Entered(x) /\ Handover(x) /\ Endings(x) /\ Proxying(x) /\ Counting(x))'
               /\ Manager' /\ Registry'
    BY <2>2, LifeControl, EnteredControl, HandoverControl, EndingsControl, ProxyingControl, CountingControl,
       ManagerControl, RegistryControl
  <2>3. ASSUME WorkStep
        PROVE  /\ (\A x \in Controls : Life(x) /\ Entered(x) /\ Handover(x) /\ Endings(x) /\ Proxying(x) /\ Counting(x))'
               /\ Manager' /\ Registry'
    <3>1. UNCHANGED <<login, who, lifeVars, managerVars, registryVars, reader, worker, proxyVars>>
      BY <2>3, Frames
    <3> QED
      BY <3>1
         DEF lifeVars, managerVars, registryVars, proxyVars, Inv, Life, Entered, Handover, Endings, Proxying,
             Counting, Manager, Registry, Alive, MayOwn, Interrupted, Current, Entry, Run
  <2>4. ASSUME Shutdown
        PROVE  /\ (\A x \in Controls : Life(x) /\ Entered(x) /\ Handover(x) /\ Endings(x) /\ Proxying(x) /\ Counting(x))'
               /\ Manager' /\ Registry'
    <3>1. UNCHANGED <<login, who, lifeVars, ctlsByRunID, registryVars, reader, worker, proxyVars>> /\ closed'
          /\ todo' = {ctlsByRunID[r].ctl : r \in RunIDs} \ {Nil}
      BY <2>4 DEF Shutdown
    <3>2. ASSUME NEW x \in Controls PROVE Entered(x)'
      <4>1. Current(x)' <=> Current(x)
        BY <3>1 DEF Current, Entry, Run
      <4>2. Current(x) => x \in todo'
        BY <3>1, Logged DEF Inv, Current, Entry
      <4>3. x \in todo' => Current(x)
        BY <3>1 DEF Inv, Manager, Current, Entry
      <4> QED
        BY <3>1, <4>1, <4>2, <4>3 DEF Inv, Entered, lifeVars
    <3>3. ASSUME NEW x \in Controls PROVE Life(x)' /\ Handover(x)' /\ Endings(x)' /\ Proxying(x)' /\ Counting(x)'
      BY <3>1
         DEF Inv, lifeVars, proxyVars, Life, Handover, Endings, Proxying, Counting, Alive, MayOwn, Interrupted, Current, Entry, Run
    <3>4. Manager' /\ Registry'
      BY <3>1 DEF Inv, lifeVars, registryVars, Manager, Registry, Current, Entry, Run
    <3> QED
      BY <3>2, <3>3, <3>4
  <2> QED
    BY <1>2, <2>1, <2>2, <2>3, <2>4, Steps DEF Inv
<1> QED
  BY <1>1, <1>2

-----------------------------------------------------------------------------
(* The theorems. *)

\* The entries of the manager, the lives of the controls, the hand-over, the registry and
\* the proxies agree in every reachable state, however many clients log in.
THEOREM FrpsInvariant == Spec => []Inv
  BY InitInv, NextInv, PTL DEF Spec

\* A control that is registered or answered shares nothing with another generation of its
\* run: whoever may own something is the current control or what the current one waits for.
THEOREM HandoverIsClean == Spec => []HandoverClean
<1>1. Inv => HandoverClean
  <2> SUFFICES ASSUME Inv, NEW c \in Controls, NEW d \in Controls, c # d, Run(c) = Run(d), Active(c), Owns(d)
               PROVE  FALSE
    BY DEF HandoverClean
  <2>1. MayOwn(d)
    BY OwnersMayOwn
  <2>2. Current(c) /\ activated[c] /\ Entry(d).ctl = c
    BY DEF Active, Current, Entry
  <2>3. barrier[c] = Nil
    BY <2>2 DEF Inv, Life, Handover
  <2> QED
    BY <2>1, <2>2, <2>3 DEF Inv, Handover
<1> QED
  BY <1>1, FrpsInvariant, PTL

\* The registry shows a client online exactly while an entry stands for it.
THEOREM RegistryIsRight == Spec => []RegistryMatches
<1>1. Inv => RegistryMatches
  <2> SUFFICES ASSUME Inv PROVE RegistryMatches
    OBVIOUS
  <2>1. ASSUME NEW c \in Controls, Active(c) PROVE \E k \in Keys : clients[k].online /\ clients[k].ctl = c
    <3>1. Run(c) \in RunIDs /\ Entry(c).registryOnline /\ Entry(c).registryControlID = c
      BY <2>1, Logged DEF Inv, Registry, Active, Current
    <3>2. runIndex[Run(c)] \in Keys /\ clients[runIndex[Run(c)]].run = Run(c)
      BY <3>1 DEF Inv, Registry, TypeOK, Entry
    <3>3. clients[runIndex[Run(c)]].online
      BY <3>1, <3>2 DEF Inv, Registry
    <3> QED
      BY <3>1, <3>2, <3>3 DEF Inv, Registry, Entry
  <2> QED
    BY <2>1 DEF Inv, Registry, RegistryMatches
<1> QED
  BY <1>1, FrpsInvariant, PTL

\* A finished control has left nothing behind, names belong to who runs them and ports
\* are counted once.
THEOREM NothingIsLeft == Spec => []NothingLeft
<1>1. Inv => NothingLeft
  <2> SUFFICES ASSUME Inv PROVE NothingLeft
    OBVIOUS
  <2>1. ASSUME NEW c \in Controls, state[c] = "closed" PROVE ~Owns(c)
    BY <2>1, OwnersMayOwn DEF Inv, Life, Alive, MayOwn
  <2>2. ASSUME NEW c \in Controls, PoolClosed(c) PROVE Pool(c) = {}
    BY <2>2 DEF Inv, Pooling, Pool, PoolClosed, At
  <2>3. ASSUME NEW n \in Names, pxys[n] # Nil
        PROVE  n \in proxies[pxys[n]] \/ reader[pxys[n]] = Reading("del", n) \/ worker[pxys[n]].name = n
    <3>1. pxys[n] \in Controls
      BY <2>3 DEF Inv, TypeOK
    <3>2. reader[pxys[n]].at = "del" => reader[pxys[n]] = Reading("del", reader[pxys[n]].name)
      BY <3>1, ReaderShapes DEF Inv
    <3> QED
      BY <3>1, <3>2 DEF Inv, Proxying
  <2> QED
    BY <2>1, <2>2, <2>3 DEF Inv, Counting, NothingLeft
<1> QED
  BY <1>1, FrpsInvariant, PTL

\* Nobody waits for what will not come: who is waited for is finished, or its worker runs
\* and its connection is or will be closed; so is everybody after a shutdown.
THEOREM HandoffsEnd == Spec => []HandoffEnds
<1>1. Inv => HandoffEnds
  <2> SUFFICES ASSUME Inv, NEW c \in Controls
               PROVE  /\ login[c] \in {"replaced", "wait"} /\ barrier[c] # Nil =>
                            state[barrier[c]] = "closed" \/ Ending(barrier[c])
                      /\ closed /\ todo = {} /\ state[c] \in {"running", "closing"} => Ending(c)
    BY DEF HandoffEnds
  <2>1. ASSUME NEW x \in Controls, state[x] \in {"running", "closing"}, Interrupted(x) PROVE Ending(x)
    BY <2>1 DEF Inv, Life, Alive, Interrupted, Ending
  <2>2. barrier[c] # Nil => barrier[c] \in Controls /\ state[barrier[c]] \in {"closing", "closed"}
                            /\ (state[barrier[c]] = "closed" \/ Interrupted(barrier[c]))
    BY DEF Inv, TypeOK, Handover, Endings
  <2>3. closed /\ todo = {} /\ state[c] \in {"running", "closing"} => Interrupted(c)
    BY DEF Inv, Entered, Endings
  <2> QED
    BY <2>1, <2>2, <2>3
<1> QED
  BY <1>1, FrpsInvariant, PTL
=============================================================================
