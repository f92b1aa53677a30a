--------------------------- MODULE SourcesProofs ---------------------------
(* Proofs about the store of the client's configuration, for any number of handlers,
   calls and crashes. *)
EXTENDS Sources, TLAPS

USE SourcesAssumption

-----------------------------------------------------------------------------
(* The inductive invariant. *)

\* reloadMu is held by the handler that is between a change in memory and its reload, in
\* a process that runs with a store whose sources were not taken away.
Holding == {"tmp", "save", "rename", "reload"}
Unsaved == {"tmp", "save", "rename"}
Locking ==
    /\ \A c \in Callers : call[c].at \in Holding <=> lock = c
    /\ ~Up => \A c \in Callers : call[c] = Idle
    /\ lock # Nil => service.is # "off" /\ service.common.store

\* Memory is what is on the disk, up to the change that the holder of the lock has not
\* saved yet, which it can take back; the disk is what was promised, up to the change that
\* was saved and not answered.
Storing ==
    /\ lock # Nil /\ call[lock].at \in Unsaved =>
          /\ call[lock].old = disk[call[lock].name]
          /\ service.memory = [disk EXCEPT ![call[lock].name] = call[lock].value]
    /\ lock # Nil /\ call[lock].at = "rename" => tmp = service.memory
    /\ lock # Nil /\ call[lock].at = "reload" =>
          disk = [promised EXCEPT ![call[lock].name] = call[lock].value]
    /\ lock = Nil \/ call[lock].at \in Unsaved => disk = promised
    /\ Up /\ (lock = Nil \/ call[lock].at = "reload") => service.memory = LoadStore(service.common)

\* What is published is what the sources say with the store that is on the disk, until a
\* change has been saved.
Settled(s) == s.applied = Wanted(s) \/ ~Applicable(s)
Saved == [service EXCEPT !.memory = LoadStore(service.common)]
Applying ==
    Up => /\ NeedsBinding(service.applied) => service.common.binds
          /\ lock = Nil \/ call[lock].at \in Unsaved => Settled(Saved)

Inv == TypeOK /\ Locking /\ Storing /\ Applying

-----------------------------------------------------------------------------
(* Type correctness. *)

\* The sources and what is selected from them are entries.
LEMMA EntriesType ==
    /\ NoEntries \in Entries /\ EmptyFile.entries \in Entries
    /\ \A file \in Commons : file.entries \in Entries
    /\ \A s, m \in Entries : Aggregate(s, m) \in Entries
    /\ \A file \in Commons, e \in Entries : Filter(file, e) \in Entries
<1>1. NoEntries \in Entries
  BY DEF NoEntries, Entries
<1>2. \A file \in Commons : file.entries \in Entries
  BY <1>1 DEF Commons, EmptyFile
<1>3. \A s, m \in Entries : Aggregate(s, m) \in Entries
  BY DEF Aggregate, Load, Entries
<1>4. \A file \in Commons, e \in Entries : Filter(file, e) \in Entries
  BY DEF Filter, Entries
<1> QED
  BY <1>1, <1>2, <1>3, <1>4 DEF Commons

\* A reload publishes entries and changes nothing else of the service.
LEMMA ReloadedType ==
    ASSUME NEW s \in Services
    PROVE  /\ Reloaded(s) \in Services
           /\ Reloaded(s).is = s.is /\ Reloaded(s).common = s.common /\ Reloaded(s).memory = s.memory
           /\ Reloaded(s).reload = s.reload /\ Reloaded(s).source = s.source
           /\ Reloaded(s).applied = IF Applicable(s) THEN Wanted(s) ELSE s.applied
           /\ Wanted(s) \in Entries
<1>1. Wanted(s) \in Entries
  BY EntriesType DEF Wanted, Services
<1> QED
  BY <1>1 DEF Reloaded, Services

\* A handler that holds the lock works on a request that names an entry and a value.
LEMMA HandlerShapes ==
    ASSUME TypeOK, NEW c \in Callers
    PROVE  /\ call[c].at = "put" => call[c] \in [at : {"put"}, file : Files]
           /\ call[c].at = "write" => call[c] \in [at : {"write"}, file : Files]
           /\ call[c].at = "update" => call[c] \in [at : {"update"}, file : Commons]
           /\ call[c].at = "validate" => call[c] \in Requests({"validate"}, Settings \cup {Nil, Garbled})
           /\ call[c].at = "pointer" => call[c] \in [at : {"pointer"}, name : Names]
           /\ call[c].at \in {"mutate", "tmp", "save", "rename", "reload"} =>
                 call[c] \in Requests({"mutate", "tmp", "save", "rename", "reload"}, Settings \cup {Nil})
  BY DEF TypeOK, Handlers, Requests, Idle

\* The steps of a handler: where it goes is a state of a handler.
LEMMA HandlerType ==
    ASSUME TypeOK, Locking, Storing, NEW c \in Callers, CallStep(c)
    PROVE  TypeOK'
<1> USE DEF TypeOK, Goes, At
<1> USE HandlerShapes
<1>0. call[c].at # "idle" => service \in Services
  BY DEF Locking, Up, Down, Idle
<1>1. ASSUME Truncates(c) PROVE TypeOK'
  <2>1. [call[c] EXCEPT !.at = "write"] \in Handlers
    BY <1>1 DEF Truncates, Handlers
  <2> QED
    BY <1>1, <2>1 DEF Truncates, Commons
<1>2. ASSUME WritesPart(c) PROVE TypeOK'
  BY <1>2 DEF WritesPart, Handlers
<1>3. ASSUME WriteConfigFile(c) PROVE TypeOK'
  BY <1>3 DEF WriteConfigFile, Handlers, Commons
<1>4. ASSUME ReloadFromFile(c) PROVE TypeOK'
  <2>1. Idle \in Handlers /\ (conf # Torn => [at |-> "update", file |-> conf] \in Handlers)
    BY DEF Handlers
  <2>2. call'[c] \in Handlers /\ call' = [call EXCEPT ![c] = call'[c]]
    BY <1>4, <2>1 DEF ReloadFromFile, Parses
  <2> QED
    BY <1>4, <2>2 DEF ReloadFromFile
<1>5. ASSUME UpdateConfigSource(c) PROVE TypeOK'
  <2>1. [ReplaceAll(service, call[c].file) EXCEPT !.reload = call[c].file] \in Services
    BY <1>0, <1>5, EntriesType DEF UpdateConfigSource, ReplaceAll, Services
  <2> QED
    BY <1>0, <1>5, <2>1, ReloadedType DEF UpdateConfigSource, Handlers
<1>6. ASSUME ValidateStore(c) PROVE TypeOK'
  <2>1. Definition(call[c].value) => [call[c] EXCEPT !.at = "mutate"] \in Requests({"mutate"}, Settings \cup {Nil})
    BY <1>6 DEF ValidateStore, Requests, Definition
  <2> QED
    BY <1>6, <2>1 DEF ValidateStore, Handlers, Requests
<1>7. ASSUME NEW op, Changes(c, op) PROVE TypeOK'
  <2>1. CASE StoreOn /\ Exists(c) = (op # "create")
    <3>1. [call[c] EXCEPT !.at = "tmp", !.old = service.memory[call[c].name]] \in Requests({"tmp"}, Settings \cup {Nil})
      BY <1>0, <1>7 DEF Changes, Requests, Services, Entries
    <3>2. [call[c] EXCEPT !.at = "tmp", !.old = service.memory[call[c].name]] \in Handlers
      BY <3>1 DEF Handlers, Requests
    <3>3. [service EXCEPT !.memory[call[c].name] = call[c].value] \in Services
      BY <1>0, <1>7 DEF Changes, Requests, Services, Entries
    <3> QED
      BY <1>7, <2>1, <3>2, <3>3 DEF Changes
  <2> QED
    BY <1>7, <2>1 DEF Changes, Handlers
<1>8. ASSUME OpenTmp(c) \/ WriteTmp(c) \/ Rename(c) PROVE TypeOK'
  <2>1. \A place \in {"save", "rename", "reload"} :
          call[c].at \in {"tmp", "save", "rename"} => [call[c] EXCEPT !.at = place] \in Handlers
    BY DEF Handlers, Requests
  <2>2. call[c].at = "rename" => tmp \in Entries
    BY <1>0 DEF Locking, Holding, Storing, Services
  <2> QED
    BY <1>0, <1>8, <2>1, <2>2 DEF OpenTmp, WriteTmp, Rename, Services
<1>9. ASSUME SaveFails(c) PROVE TypeOK'
  <2>1. Rollback(c) \in Services
    BY <1>0, <1>9 DEF SaveFails, Rollback, Requests, Services, Entries
  <2> QED
    BY <1>9, <2>1 DEF SaveFails, Handlers
<1>10. ASSUME StoreReload(c) PROVE TypeOK'
  BY <1>0, <1>10, ReloadedType DEF StoreReload, Handlers, Requests, Entries
<1>11. ASSUME StoreSourceOrError(c) \/ GetStore(c) PROVE TypeOK'
  <2>1. Idle \in Handlers /\ (call[c].at = "pointer" => [call[c] EXCEPT !.at = "get"] \in Handlers)
    BY DEF Handlers
  <2>2. call'[c] \in Handlers /\ call' = [call EXCEPT ![c] = call'[c]]
    BY <1>11, <2>1 DEF StoreSourceOrError, GetStore
  <2> QED
    BY <1>11, <2>2 DEF StoreSourceOrError, GetStore
<1> QED
  BY <1>1, <1>2, <1>3, <1>4, <1>5, <1>6, <1>7, <1>8, <1>9, <1>10, <1>11
  DEF CallStep, AddEntry, UpdateEntry, RemoveEntry

\* A request that comes in.
Arrives(c) ==
    \/ Stop(c) \/ Reload(c) \/ (\E file \in Files : PutConfig(c, file))
    \/ \E n \in Names, body \in Settings \cup {Garbled} :
        \/ CreateStoreProxy(c, n, body) \/ UpdateStoreProxy(c, n, body)
        \/ CreateStoreVisitor(c, n, body) \/ UpdateStoreVisitor(c, n, body)
    \/ \E n \in Names : DeleteStoreProxy(c, n) \/ DeleteStoreVisitor(c, n) \/ GetStoreProxy(c, n) \/ GetStoreVisitor(c, n)

\* It is given to an idle handler and touches the service only by asking it to stop.
Admitted(c) ==
    /\ Up /\ call[c].at = "idle" /\ calls' \in 0..MaxCalls
    /\ \E next \in Handlers : next.at \notin Holding /\ call' = [call EXCEPT ![c] = next]
    /\ service' = service \/ service' = [service EXCEPT !.is = "stopping"]
    /\ UNCHANGED <<conf, disk, tmp, lock, promised, crashes>>

\* Every request is admitted that way, whatever it asks for.
LEMMA ArrivesShape ==
    ASSUME TypeOK, NEW c \in Callers, Arrives(c)
    PROVE  Admitted(c)
<1> USE DEF TypeOK
<1>1. ASSUME NEW next \in Handlers, next.at \notin Holding, Begins(c, next),
             service' = service \/ service' = [service EXCEPT !.is = "stopping"]
      PROVE  Admitted(c)
  <2>1. Up /\ call[c].at = "idle" /\ calls' \in 0..MaxCalls
    BY <1>1 DEF Begins
  <2>2. call' = [call EXCEPT ![c] = next] /\ UNCHANGED <<conf, disk, tmp, lock, promised, crashes>>
    BY <1>1 DEF Begins
  <2> QED
    BY <1>1, <2>1, <2>2 DEF Admitted
<1>2. CASE Stop(c)
  BY <1>1, <1>2 DEF Stop, Idle, Handlers, Holding
<1>3. CASE Reload(c)
  BY <1>1, <1>3 DEF Reload, Handlers, Holding
<1>4. CASE \E file \in Files : PutConfig(c, file)
  BY <1>1, <1>4 DEF PutConfig, Handlers, Holding
<1>5. ASSUME NEW op \in {"create", "update", "delete"}, NEW n \in Names,
             NEW body \in Settings \cup {Nil, Garbled}, Asks(c, op, n, body)
      PROVE  Admitted(c)
  BY <1>1, <1>5 DEF Asks, Handlers, Requests, Holding
<1>6. ASSUME NEW n \in Names, Reads(c, n)
      PROVE  Admitted(c)
  BY <1>1, <1>6 DEF Reads, Handlers, Holding
<1> QED
  BY <1>2, <1>3, <1>4, <1>5, <1>6
  DEF Arrives, CreateStoreProxy, UpdateStoreProxy, CreateStoreVisitor, UpdateStoreVisitor,
      DeleteStoreProxy, DeleteStoreVisitor, GetStoreProxy, GetStoreVisitor

\* Every step keeps the types.
LEMMA TypeStep == TypeOK /\ Locking /\ Storing /\ [Next]_vars => TypeOK'
<1> SUFFICES ASSUME TypeOK, Locking, Storing, [Next]_vars PROVE TypeOK'
  OBVIOUS
<1> USE DEF TypeOK
<1>1. ASSUME Start PROVE TypeOK'
  <2>1. conf \in Commons
    BY <1>1 DEF Start, Parses
  <2>2. LoadStore(conf) \in Entries
    BY EntriesType DEF LoadStore
  <2>3. Running(conf, LoadStore(conf), Filter(conf, Aggregate(conf.entries, LoadStore(conf)))) \in Services
    BY <2>1, <2>2, EntriesType DEF Running, Services
  <2> QED
    BY <1>1, <2>3 DEF Start
<1>2. ASSUME Ends, crashes' \in 0..MaxCrashes PROVE TypeOK'
  <2>1. promised' \in Entries
    BY <1>2 DEF Ends, Entries
  <2>2. call' \in [Callers -> Handlers]
    BY <1>2 DEF Ends, Handlers
  <2> QED
    BY <1>2, <2>1, <2>2 DEF Ends
<1>3. ASSUME Crash PROVE TypeOK'
  BY <1>2, <1>3 DEF Crash
<1>4. ASSUME Exit PROVE TypeOK'
  BY <1>2, <1>4 DEF Exit
<1>5. ASSUME StopSources PROVE TypeOK'
  BY <1>5 DEF StopSources, Services, Up, Down
<1>6. ASSUME NEW file \in Files, Repair(file) PROVE TypeOK'
  BY <1>6 DEF Repair, Commons
<1>7. ASSUME NEW c \in Callers, Arrives(c) PROVE TypeOK'
  <2>1. [service EXCEPT !.is = "stopping"] \in Services
    BY <1>7, ArrivesShape DEF Admitted, Services, Up, Down
  <2> QED
    BY <1>7, <2>1, ArrivesShape DEF Admitted
<1>8. CASE UNCHANGED vars
  BY <1>8 DEF vars
<1> QED
  BY <1>1, <1>3, <1>4, <1>5, <1>6, <1>7, <1>8, HandlerType DEF Next, Arrives

-----------------------------------------------------------------------------
(* The invariant is inductive. *)

\* A handler moves between places where it does not hold the lock, and at most asks the
\* service to stop.
Inert(c) ==
    /\ Up /\ call[c].at \notin Holding
    /\ \E next : next.at \notin Holding /\ call' = [call EXCEPT ![c] = next]
    /\ service' = service \/ service' = [service EXCEPT !.is = "stopping"]
    /\ UNCHANGED <<disk, tmp, lock, promised>>

\* Such a move disturbs no part of the invariant.
LEMMA InertInv ==
    ASSUME Inv, NEW c \in Callers, Inert(c)
    PROVE  Locking' /\ Storing' /\ Applying'
<1> USE DEF Inv, TypeOK
<1>1. service \in Services /\ service.is # "down"
  BY DEF Inert, Up, Down
<1>2. /\ service'.is = service.is \/ service'.is = "stopping"
      /\ service'.common = service.common /\ service'.memory = service.memory
      /\ service'.applied = service.applied /\ service'.reload = service.reload /\ service'.source = service.source
      /\ service' \in Services
  BY <1>1 DEF Inert, Services
<1>3. Up /\ Up'
  BY <1>1, <1>2 DEF Up
<1>4. \A d \in Callers : d # c => call'[d] = call[d]
  BY DEF Inert
<1>5. call'[c].at \notin Holding /\ lock # c /\ lock' = lock
  BY DEF Inert, Locking
<1>6. lock # Nil => call'[lock] = call[lock] /\ lock \in Callers
  BY <1>4, <1>5
<1>7. Locking'
  BY <1>2, <1>3, <1>4, <1>5, <1>6 DEF Locking
<1>8. Storing'
  BY <1>2, <1>3, <1>5, <1>6 DEF Storing, Inert, LoadStore
<1>9. Saved' \in Services /\ Saved'.applied = Saved.applied /\ Saved'.reload = Saved.reload
      /\ Saved'.source = Saved.source /\ Saved'.memory = Saved.memory /\ Saved'.common = Saved.common
  BY <1>1, <1>2, EntriesType DEF Saved, Services, LoadStore, Inert
<1>10. Settled(Saved)' <=> Settled(Saved)
  BY <1>9 DEF Settled, Wanted, Applicable
<1>11. Applying'
  BY <1>2, <1>3, <1>5, <1>6, <1>10 DEF Applying
<1> QED
  BY <1>7, <1>8, <1>11

\* The process starts, ends or gives up its sources.
LEMMA ProcessInv ==
    ASSUME Inv, TypeOK', Start \/ Ends \/ StopSources \/ \E file \in Files : Repair(file)
    PROVE  Locking' /\ Storing' /\ Applying'
<1> USE DEF Inv, TypeOK
<1>0. ~Up => lock = Nil
  BY DEF Locking, Idle, Holding
<1>1. ASSUME Start PROVE Locking' /\ Storing' /\ Applying'
  <2> DEFINE memory == LoadStore(conf)
             entries == Filter(conf, Aggregate(conf.entries, memory))
  <2>1. conf \in Commons /\ memory \in Entries /\ entries \in Entries
    BY <1>1, EntriesType DEF Start, Parses, LoadStore
  <2>2. /\ service'.is = "on" /\ service'.common = conf /\ service'.reload = conf /\ service'.memory = memory
        /\ service'.source = conf.entries /\ service'.applied = entries /\ service' \in Services
    BY <1>1, <2>1, EntriesType DEF Start, Running, Services
  <2>3. lock = Nil /\ UNCHANGED <<lock, call, disk, promised>>
    BY <1>0, <1>1 DEF Start
  <2>4. Locking'
    BY <1>1, <2>2, <2>3 DEF Locking, Up, Start, Idle, Holding
  <2>5. Storing'
    BY <2>2, <2>3 DEF Storing, LoadStore
  <2>6. NeedsBinding(service.applied)' => service'.common.binds
    BY <1>1, <2>2 DEF Start, NeedsBinding
  <2>7. Saved'.applied = Wanted(Saved')
    BY <2>2, <2>3, EntriesType DEF Saved, Wanted, LoadStore, Services
  <2> QED
    BY <2>4, <2>5, <2>6, <2>7 DEF Applying, Settled
<1>2. ASSUME Ends PROVE Locking' /\ Storing' /\ Applying'
  <2>1. ~Up'
    BY <1>2 DEF Ends, Up, Down
  <2>2. Locking'
    BY <1>2 DEF Ends, Locking, Idle, Holding
  <2>3. disk = promised'
    <3>1. CASE lock = Nil
      BY <1>2, <3>1 DEF Ends, Storing
    <3>2. CASE lock # Nil
      <4>1. lock \in Callers /\ call[lock].at \in Holding
        BY <3>2 DEF Locking
      <4>2. call[lock] \in Requests({"mutate", "tmp", "save", "rename", "reload"}, Settings \cup {Nil})
        BY <4>1, HandlerShapes DEF Holding
      <4>3. call[lock].name \in Names
        BY <4>2 DEF Requests
      <4>4. CASE call[lock].at = "reload"
        BY <1>2, <3>2, <4>3, <4>4 DEF Ends, Storing, Entries
      <4>5. CASE call[lock].at \in Unsaved
        BY <1>2, <3>2, <4>3, <4>5 DEF Ends, Storing, Entries
      <4> QED
        BY <4>1, <4>4, <4>5 DEF Holding, Unsaved
    <3> QED
      BY <3>1, <3>2
  <2> QED
    BY <1>2, <2>1, <2>2, <2>3 DEF Ends, Storing, Applying
<1>3. ASSUME StopSources PROVE Locking' /\ Storing' /\ Applying'
  <2>1. service \in Services /\ lock = Nil
    BY <1>3 DEF StopSources, Up, Down
  <2>2. /\ service'.is = "off" /\ service'.common = service.common /\ service'.reload = service.reload
        /\ service'.memory = service.memory /\ service'.source = service.source
        /\ service'.applied = service.applied /\ service' \in Services
    BY <1>3, <2>1 DEF StopSources, Services
  <2>3. Locking'
    BY <1>3, <2>2 DEF StopSources, Locking, Up
  <2>4. Storing'
    BY <1>3, <2>2 DEF StopSources, Storing, LoadStore, Up
  <2>5. /\ Saved'.applied = Saved.applied /\ Saved'.reload = Saved.reload
        /\ Saved'.source = Saved.source /\ Saved'.memory = Saved.memory /\ Saved'.common = Saved.common
    BY <1>3, <2>1, <2>2, EntriesType DEF StopSources, Saved, Services, LoadStore
  <2>6. Settled(Saved)' <=> Settled(Saved)
    BY <2>5 DEF Settled, Wanted, Applicable
  <2> QED
    BY <1>3, <2>1, <2>2, <2>3, <2>4, <2>6 DEF StopSources, Applying
<1>4. ASSUME NEW file \in Files, Repair(file) PROVE Locking' /\ Storing' /\ Applying'
  BY <1>4 DEF Repair, Locking, Storing, Applying, Up, LoadStore
<1> QED
  BY <1>1, <1>2, <1>3, <1>4

\* What a handler does while it does not hold the lock.
LEMMA OutsideInv ==
    ASSUME Inv, TypeOK', NEW c \in Callers,
           \/ Truncates(c) \/ WritesPart(c) \/ WriteConfigFile(c) \/ ReloadFromFile(c) \/ ValidateStore(c)
           \/ StoreSourceOrError(c) \/ GetStore(c) \/ UpdateConfigSource(c)
    PROVE  Locking' /\ Storing' /\ Applying'
<1> USE DEF Inv, TypeOK, Goes, At
<1>0. Up /\ service \in Services
  BY DEF Truncates, WritesPart, WriteConfigFile, ReloadFromFile, ValidateStore, StoreSourceOrError, GetStore,
         UpdateConfigSource, Locking, Up, Down, Idle
<1>1. ASSUME Truncates(c) PROVE Inert(c)
  BY <1>0, <1>1, HandlerShapes DEF Truncates, Inert, Holding
<1>2. ASSUME WritesPart(c) \/ WriteConfigFile(c) PROVE Inert(c)
  BY <1>0, <1>2 DEF WritesPart, WriteConfigFile, Inert, Holding, Idle
<1>3. ASSUME ReloadFromFile(c) PROVE Inert(c)
  <2>1. \E next : next.at \notin Holding /\ call' = [call EXCEPT ![c] = next]
    <3>1. CASE call' = [call EXCEPT ![c] = Idle]
      BY <3>1 DEF Idle, Holding
    <3>2. CASE call' = [call EXCEPT ![c] = [at |-> "update", file |-> conf]]
      BY <3>2 DEF Holding
    <3> QED
      BY <1>3, <3>1, <3>2 DEF ReloadFromFile
  <2> QED
    BY <1>0, <1>3, <2>1 DEF ReloadFromFile, Inert, Holding
<1>4. ASSUME ValidateStore(c) PROVE Inert(c)
  <2>1. [call[c] EXCEPT !.at = "mutate"].at = "mutate"
    BY <1>4, HandlerShapes DEF ValidateStore, Requests
  <2> QED
    BY <1>0, <1>4, <2>1 DEF ValidateStore, Inert, Holding, Idle
<1>5. ASSUME StoreSourceOrError(c) \/ GetStore(c) PROVE Inert(c)
  <2>1. call[c].at = "pointer" => [call[c] EXCEPT !.at = "get"].at = "get"
    BY HandlerShapes
  <2> QED
    BY <1>0, <1>5, <2>1 DEF StoreSourceOrError, GetStore, Inert, Holding, Idle
<1>6. ASSUME UpdateConfigSource(c), service.is = "off" PROVE Inert(c)
  BY <1>0, <1>6 DEF UpdateConfigSource, Inert, Holding, Idle
<1>7. ASSUME UpdateConfigSource(c), service.is # "off" PROVE Locking' /\ Storing' /\ Applying'
  <2> DEFINE s == [ReplaceAll(service, call[c].file) EXCEPT !.reload = call[c].file]
  <2>1. /\ s \in Services /\ s.is = service.is /\ s.common = service.common /\ s.memory = service.memory
        /\ s.applied = service.applied
    BY <1>0, <1>7, HandlerShapes, EntriesType DEF UpdateConfigSource, ReplaceAll, Services
  <2>2. service' = Reloaded(s)
    BY <1>7 DEF UpdateConfigSource
  <2>3. /\ service'.is = service.is /\ service'.common = service.common /\ service'.memory = service.memory
        /\ service'.reload = s.reload /\ service'.source = s.source
        /\ service'.applied = IF Applicable(s) THEN Wanted(s) ELSE service.applied
        /\ service' \in Services
    BY <2>1, <2>2, ReloadedType
  <2>4. lock = Nil /\ lock' = Nil /\ UNCHANGED <<disk, promised>> /\ Up'
    BY <1>0, <1>7, <2>3 DEF UpdateConfigSource, Up
  <2>5. Locking'
    BY <1>0, <1>7, <2>3, <2>4 DEF UpdateConfigSource, Locking, Idle, Holding
  <2>6. Storing'
    BY <1>0, <2>3, <2>4 DEF Storing, LoadStore
  <2>7. service'.memory = LoadStore(service.common)'
    BY <1>0, <2>3, <2>4 DEF Storing, LoadStore
  <2>8. Saved'.applied = service'.applied /\ Saved'.reload = s.reload /\ Saved'.source = s.source
        /\ Saved'.memory = s.memory /\ Saved'.common = s.common
    BY <2>1, <2>3, <2>7, EntriesType DEF Saved, Services, LoadStore
  <2>9. Settled(Saved)'
    BY <2>3, <2>8 DEF Settled, Wanted, Applicable
  <2>10. NeedsBinding(service'.applied) => service'.common.binds
    BY <1>0, <2>1, <2>3 DEF Applying, Applicable
  <2> QED
    BY <2>5, <2>6, <2>9, <2>10 DEF Applying
<1> QED
  BY <1>1, <1>2, <1>3, <1>4, <1>5, <1>6, <1>7, InertInv

\* A handler takes the lock and changes the entry in memory, or is refused.
LEMMA ChangesInv ==
    ASSUME Inv, TypeOK', NEW c \in Callers, NEW op, Changes(c, op)
    PROVE  Locking' /\ Storing' /\ Applying'
<1> USE DEF Inv, TypeOK, Goes, At
<1>0. Up /\ service \in Services
  BY DEF Changes, Locking, Up, Down, Idle
<1>1. call[c] \in Requests({"mutate", "tmp", "save", "rename", "reload"}, Settings \cup {Nil}) /\ lock = Nil
  BY HandlerShapes DEF Changes
<1>2. CASE ~(StoreOn /\ Exists(c) = (op # "create"))
  <2>1. Inert(c)
    BY <1>0, <1>2 DEF Changes, Inert, Holding, Idle
  <2> QED
    BY <2>1, InertInv
<1>3. CASE StoreOn /\ Exists(c) = (op # "create")
  <2> DEFINE n == call[c].name
  <2>1. /\ service'.is = service.is /\ service'.common = service.common /\ service'.reload = service.reload
        /\ service'.source = service.source /\ service'.applied = service.applied
        /\ service'.memory = [service.memory EXCEPT ![n] = call[c].value] /\ service' \in Services
    BY <1>0, <1>1, <1>3 DEF Changes, Services, Requests, Entries
  <2>2. /\ call'[c].at = "tmp" /\ call'[c].name = n /\ call'[c].value = call[c].value
        /\ call'[c].old = service.memory[n] /\ lock' = c
        /\ \A d \in Callers : d # c => call'[d] = call[d]
    <3> DEFINE next == [call[c] EXCEPT !.at = "tmp", !.old = service.memory[n]]
    <3>1. next.at = "tmp" /\ next.name = n /\ next.value = call[c].value /\ next.old = service.memory[n]
      BY <1>1 DEF Requests
    <3>2. call' = [call EXCEPT ![c] = next] /\ lock' = c
      BY <1>3 DEF Changes
    <3> HIDE DEF next
    <3> QED
      BY <3>1, <3>2
  <2>3. service.common.store /\ service.is # "off" /\ service.memory = disk /\ UNCHANGED <<disk, promised>>
    BY <1>0, <1>1, <1>3 DEF StoreOn, Storing, LoadStore, Changes
  <2>4. Locking'
    BY <1>0, <1>1, <2>1, <2>2, <2>3 DEF Locking, Holding, Up, Services
  <2>5. Storing'
    BY <1>1, <2>1, <2>2, <2>3 DEF Storing, Unsaved
  <2>6. /\ Saved'.applied = Saved.applied /\ Saved'.reload = Saved.reload
        /\ Saved'.source = Saved.source /\ Saved'.memory = Saved.memory /\ Saved'.common = Saved.common
    BY <1>0, <2>1, <2>3, EntriesType DEF Saved, Services, LoadStore
  <2>7. Settled(Saved)' <=> Settled(Saved)
    BY <2>6 DEF Settled, Wanted, Applicable
  <2> QED
    BY <1>0, <1>1, <2>1, <2>4, <2>5, <2>7 DEF Applying
<1> QED
  BY <1>2, <1>3

\* The steps of a handler that holds the lock.
LEMMA HoldingInv ==
    ASSUME Inv, TypeOK', NEW c \in Callers,
           OpenTmp(c) \/ WriteTmp(c) \/ Rename(c) \/ SaveFails(c) \/ StoreReload(c)
    PROVE  Locking' /\ Storing' /\ Applying'
<1> USE DEF Inv, TypeOK, Goes, At
<1> DEFINE n == call[c].name
<1>0. Up /\ service \in Services
  BY DEF OpenTmp, WriteTmp, Rename, SaveFails, StoreReload, Locking, Up, Down, Idle
<1>1. /\ call[c] \in Requests({"mutate", "tmp", "save", "rename", "reload"}, Settings \cup {Nil})
      /\ lock = c /\ call[c].at \in Holding
  BY HandlerShapes DEF OpenTmp, WriteTmp, Rename, SaveFails, StoreReload, Locking, Holding
<1>2. n \in Names /\ service.common.store /\ service.is # "off"
  BY <1>1 DEF Requests, Locking
<1>3. ASSUME NEW place \in Holding, call' = [call EXCEPT ![c] = [call[c] EXCEPT !.at = place]],
             lock' = lock, service' = service
      PROVE  /\ call'[c].at = place /\ call'[c].name = n /\ call'[c].value = call[c].value
             /\ call'[c].old = call[c].old /\ Locking'
  <2>1. /\ call'[c].at = place /\ call'[c].name = n /\ call'[c].value = call[c].value
        /\ call'[c].old = call[c].old
    BY <1>1, <1>3 DEF Requests
  <2>2. \A d \in Callers : call'[d].at \in Holding <=> lock' = d
    BY <1>1, <1>3, <2>1 DEF Locking
  <2> QED
    BY <1>0, <1>2, <1>3, <2>1, <2>2 DEF Locking, Up
<1>4. ASSUME lock' = Nil, call' = [call EXCEPT ![c] = Idle], service' \in Services
      PROVE  Locking'
  BY <1>1, <1>4 DEF Locking, Idle, Holding, Up, Services
<1>5. ASSUME OpenTmp(c) PROVE Locking' /\ Storing' /\ Applying'
  <2>1. /\ call'[c].at = "save" /\ call'[c].name = n /\ call'[c].value = call[c].value
        /\ call'[c].old = call[c].old /\ Locking' /\ UNCHANGED <<disk, promised, service, lock>>
    BY <1>3, <1>5 DEF OpenTmp, Holding
  <2>2. call[c].at = "tmp"
    BY <1>5 DEF OpenTmp
  <2>3. Storing'
    BY <1>1, <2>1, <2>2 DEF Storing, Unsaved
  <2>4. Saved' = Saved /\ Up'
    BY <1>0, <2>1 DEF Saved, LoadStore, Up
  <2> QED
    BY <1>0, <1>1, <2>1, <2>2, <2>3, <2>4 DEF Applying, Unsaved
<1>6. ASSUME WriteTmp(c) PROVE Locking' /\ Storing' /\ Applying'
  <2>1. /\ call'[c].at = "rename" /\ call'[c].name = n /\ call'[c].value = call[c].value
        /\ call'[c].old = call[c].old /\ Locking' /\ UNCHANGED <<disk, promised, service, lock>>
    BY <1>3, <1>6 DEF WriteTmp, Holding
  <2>2. call[c].at = "save" /\ tmp' = service.memory
    BY <1>6 DEF WriteTmp
  <2>3. Storing'
    BY <1>1, <2>1, <2>2 DEF Storing, Unsaved
  <2>4. Saved' = Saved /\ Up'
    BY <1>0, <2>1 DEF Saved, LoadStore, Up
  <2> QED
    BY <1>0, <1>1, <2>1, <2>2, <2>3, <2>4 DEF Applying, Unsaved
<1>7. ASSUME Rename(c) PROVE Locking' /\ Storing' /\ Applying'
  <2>1. /\ call'[c].at = "reload" /\ call'[c].name = n /\ call'[c].value = call[c].value
        /\ Locking' /\ UNCHANGED <<promised, service, lock>>
    BY <1>3, <1>7 DEF Rename, Holding
  <2>2. call[c].at = "rename" /\ disk' = service.memory /\ disk = promised
        /\ service.memory = [disk EXCEPT ![n] = call[c].value]
    BY <1>1, <1>7 DEF Rename, Storing, Unsaved
  <2>3. Storing'
    BY <1>0, <1>1, <1>2, <2>1, <2>2 DEF Storing, Unsaved, LoadStore
  <2> QED
    BY <1>0, <1>1, <2>1, <2>3 DEF Applying, Unsaved
<1>8. ASSUME SaveFails(c) PROVE Locking' /\ Storing' /\ Applying'
  <2>1. /\ call[c].at \in Unsaved /\ lock' = Nil /\ call' = [call EXCEPT ![c] = Idle]
        /\ UNCHANGED <<disk, promised>> /\ service' = Rollback(c)
    BY <1>8 DEF SaveFails, Unsaved
  <2>2. service.memory = [disk EXCEPT ![n] = call[c].value] /\ call[c].old = disk[n] /\ disk = promised
    BY <1>1, <2>1 DEF Storing
  <2>3. /\ service'.is = service.is /\ service'.common = service.common /\ service'.reload = service.reload
        /\ service'.source = service.source /\ service'.applied = service.applied
        /\ service'.memory = [service.memory EXCEPT ![n] = call[c].old] /\ service' \in Services
    BY <1>0, <1>1, <1>2, <2>1 DEF Rollback, Services, Requests, Entries
  <2>4. service'.memory = disk
    BY <1>2, <2>2, <2>3 DEF Entries
  <2>5. Locking'
    BY <1>4, <2>1, <2>3
  <2>6. Storing'
    BY <1>2, <2>1, <2>2, <2>3, <2>4 DEF Storing, LoadStore
  <2>7. /\ Saved'.applied = Saved.applied /\ Saved'.reload = Saved.reload
        /\ Saved'.source = Saved.source /\ Saved'.memory = Saved.memory /\ Saved'.common = Saved.common
    BY <1>0, <1>2, <2>1, <2>3, EntriesType DEF Saved, Services, LoadStore
  <2>8. Settled(Saved)' <=> Settled(Saved)
    BY <2>7 DEF Settled, Wanted, Applicable
  <2> QED
    BY <1>0, <1>1, <2>1, <2>3, <2>5, <2>6, <2>8 DEF Applying
<1>9. ASSUME StoreReload(c) PROVE Locking' /\ Storing' /\ Applying'
  <2>1. /\ call[c].at = "reload" /\ lock' = Nil /\ call' = [call EXCEPT ![c] = Idle] /\ UNCHANGED disk
        /\ service' = Reloaded(service) /\ promised' = [promised EXCEPT ![n] = call[c].value]
    BY <1>9 DEF StoreReload
  <2>2. /\ service'.is = service.is /\ service'.common = service.common /\ service'.memory = service.memory
        /\ service'.reload = service.reload /\ service'.source = service.source
        /\ service'.applied = IF Applicable(service) THEN Wanted(service) ELSE service.applied
        /\ service' \in Services
    BY <1>0, <2>1, ReloadedType
  <2>3. disk = promised' /\ service.memory = LoadStore(service.common)
    BY <1>0, <1>1, <2>1 DEF Storing
  <2>4. Locking'
    BY <1>4, <2>1, <2>2
  <2>5. Storing'
    BY <2>1, <2>2, <2>3 DEF Storing, LoadStore
  <2>6. /\ Saved'.applied = service'.applied /\ Saved'.reload = service.reload
        /\ Saved'.source = service.source /\ Saved'.memory = service.memory /\ Saved'.common = service.common
    BY <1>0, <2>1, <2>2, <2>3, EntriesType DEF Saved, Services, LoadStore
  <2>7. Settled(Saved)'
    BY <2>2, <2>6 DEF Settled, Wanted, Applicable
  <2>8. NeedsBinding(service'.applied) => service'.common.binds
    BY <1>0, <2>2 DEF Applying, Applicable
  <2> QED
    BY <2>4, <2>5, <2>7, <2>8 DEF Applying
<1> QED
  BY <1>5, <1>6, <1>7, <1>8, <1>9

-----------------------------------------------------------------------------
(* Theorems. *)

\* The invariant holds when the client starts.
LEMMA InitInv == Init => Inv
<1> SUFFICES ASSUME Init PROVE Inv
  OBVIOUS
<1>1. TypeOK
  BY EntriesType DEF Init, TypeOK, Handlers, Commons
<1>2. Locking /\ Storing /\ Applying
  BY DEF Init, Locking, Storing, Applying, Up, Down, Idle, Holding
<1> QED
  BY <1>1, <1>2 DEF Inv

\* Every step of a handler, of the service and of a crash keeps it.
LEMMA NextInv == Inv /\ [Next]_vars => Inv'
<1> SUFFICES ASSUME Inv, [Next]_vars PROVE Inv'
  OBVIOUS
<1>1. TypeOK'
  BY TypeStep DEF Inv
<1>2. CASE Start \/ Crash \/ StopSources \/ Exit \/ \E file \in Files : Repair(file)
  BY <1>1, <1>2, ProcessInv DEF Inv, Crash, Exit
<1>3. ASSUME NEW c \in Callers, Arrives(c) PROVE Inv'
  <2>1. Inert(c)
    BY <1>3, ArrivesShape DEF Admitted, Inert, Inv, Holding
  <2> QED
    BY <1>1, <2>1, InertInv DEF Inv
<1>4. ASSUME NEW c \in Callers, CallStep(c) PROVE Inv'
  BY <1>1, <1>4, OutsideInv, ChangesInv, HoldingInv
  DEF Inv, CallStep, AddEntry, UpdateEntry, RemoveEntry
<1>5. CASE UNCHANGED vars
  <2>1. Locking' /\ Storing' /\ Applying'
    BY <1>5 DEF vars, Inv, Locking, Storing, Applying, Up, Saved, LoadStore
  <2> QED
    BY <1>1, <2>1 DEF Inv
<1> QED
  BY <1>2, <1>3, <1>4, <1>5 DEF Next, Arrives

\* The invariant holds in every state of the client, its handlers and its two files.
THEOREM SourcesInvariant == Spec => []Inv
  BY InitInv, NextInv, PTL DEF Spec

\* The store survives: whatever the answers of the admin API promised is on the disk, and
\* memory is what is on the disk whenever it may be read, over failed writes, crashes at any
\* step of a save and restarts (StoreSource.saveToFileUnlocked, withStoreMutationAndReload).
THEOREM StoreIsDurable == Spec => []StoreDurable
<1>1. Inv => StoreDurable
  <2> SUFFICES ASSUME Inv PROVE StoreDurable
    OBVIOUS
  <2>1. lock # Nil => lock \in Callers /\ call[lock].at \in Holding
    BY DEF Inv, TypeOK, Locking
  <2>2. ~Saving => lock = Nil \/ call[lock].at = "reload"
    BY <2>1 DEF Saving, Holding
  <2> QED
    BY <2>1, <2>2 DEF Inv, Storing, StoreDurable, LoadStore, Holding, Unsaved
<1> QED
  BY <1>1, SourcesInvariant, PTL

\* What is aggregated and filtered for a name: the entry of the store unless it is missing or
\* disabled, else that of the configuration file, if start selects the name at all.
LEMMA WantedRuns ==
    ASSUME NEW s \in Services
    PROVE  \A n \in Names : Runs(s, n, Wanted(s)[n])
<1> SUFFICES ASSUME NEW n \in Names PROVE Runs(s, n, Wanted(s)[n])
  OBVIOUS
<1>1. s.memory[n] \in Settings \cup {Nil} /\ s.source[n] \in Settings \cup {Nil}
  BY DEF Services, Entries
<1>2. \A x \in Settings \cup {Nil} : IsEnabled(x) <=> x \in Settings \ Disabled
  BY DEF IsEnabled
<1>3. Aggregate(s.source, s.memory)[n] =
        IF s.memory[n] \in Settings \ Disabled THEN s.memory[n]
        ELSE IF s.source[n] \in Settings \ Disabled THEN s.source[n] ELSE Nil
  BY <1>1, <1>2 DEF Aggregate, Load
<1>4. Wanted(s)[n] = IF (s.reload.start = {} \/ n \in s.reload.start) /\ IsEnabled(Aggregate(s.source, s.memory)[n])
                     THEN Aggregate(s.source, s.memory)[n] ELSE Nil
  BY DEF Wanted, Filter
<1> QED
  BY <1>1, <1>2, <1>3, <1>4 DEF Runs

\* Between reloads the published configuration is what the sources say, or this process
\* cannot run it; it never runs an entry that needs a binding it cannot ask for
\* (reloadConfigFromSourcesLocked, UpdateAllConfigurer).
THEOREM AppliedIsWanted == Spec => []AppliedIsAggregated
<1>1. Inv => AppliedIsAggregated
  <2> SUFFICES ASSUME Inv, Up PROVE AppliedIsAggregated
    BY DEF AppliedIsAggregated
  <2>1. service \in Services
    BY DEF Inv, TypeOK, Up, Down
  <2>2. lock = Nil => Saved = service
    BY <2>1 DEF Inv, Storing, Saved, Services
  <2>3. lock = Nil => Settled(service)
    BY <2>2 DEF Inv, Applying
  <2> QED
    BY <2>1, <2>3, WantedRuns DEF AppliedIsAggregated, Settled, Inv, Applying
<1> QED
  BY <1>1, SourcesInvariant, PTL
=============================================================================
