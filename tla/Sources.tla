------------------------------- MODULE Sources -------------------------------
(***************************************************************************)
(* Where the configuration of the Go client comes from: the configuration   *)
(* file, the store that the admin API changes and that is kept in a file of *)
(* its own, their aggregation, and what of it is published to the service   *)
(* (client/config_manager.go, client/http, pkg/config/source).              *)
(*                                                                          *)
(* Several handlers of the API run at once.  reloadMu is held from the      *)
(* change of a store entry to the end of the reload that follows it; the    *)
(* steps in between differ in what a crash leaves on the disk.  A process   *)
(* that ends loses everything but the two files.                            *)
(***************************************************************************)
EXTENDS Naturals, FiniteSets

CONSTANTS
    ProxyNames, VisitorNames,
    Settings,       \* what an entry may say
    Disabled,       \* settings with enabled = false
    Unsound,        \* settings that validation refuses
    Xtcp,           \* settings that need an XTCP binding
    VnetUsers,      \* settings that need the virtual network
    Files,          \* configuration files: [start, vnet, binds, store, entries]
    Callers,        \* handlers of the admin API
    MaxCalls,       \* bound on the calls
    MaxCrashes,     \* bound on the crashes
    Garbled,        \* a body that is not the definition of an entry
    Torn,           \* a file that is only partly written
    Nil

Names == ProxyNames \cup VisitorNames
NoEntries == [n \in Names |-> Nil]
Entries == [Names -> Settings \cup {Nil}]

ASSUME SourcesAssumption ==
    /\ Disabled \cup Unsound \cup Xtcp \cup VnetUsers \subseteq Settings /\ {Nil, Torn, Garbled} \cap Settings = {}
    /\ ProxyNames \cap VisitorNames = {}
    /\ Files \subseteq [start : SUBSET Names, vnet : BOOLEAN, binds : BOOLEAN, store : BOOLEAN, entries : Entries]
    /\ Nil \notin Callers /\ MaxCalls \in Nat /\ MaxCrashes \in Nat

VARIABLES
    conf,           \* the configuration file: a file, or Torn while or after it is rewritten
    disk,           \* the entries in the file of the store
    tmp,            \* the temporary file next to it: absent, being written, or entries
    service,        \* the service, see Running
    lock,           \* who holds reloadMu across steps
    call,           \* [Callers -> the state of the handler]
    promised,       \* the store as the answers of the API tell it
    calls, crashes

vars == <<conf, disk, tmp, service, lock, call, promised, calls, crashes>>

-----------------------------------------------------------------------------
(* Sources. *)

\* A file that is truncated for being rewritten: nothing but defaults.
EmptyFile == [start |-> {}, vnet |-> FALSE, binds |-> FALSE, store |-> FALSE, entries |-> NoEntries]
IsEnabled(s) == s # Nil /\ s \notin Disabled

\* baseSource.Load; then Aggregator.Load, where a disabled entry hides nothing.
Load(source) == [n \in Names |-> IF IsEnabled(source[n]) THEN source[n] ELSE Nil]
Aggregate(source, memory) ==
    [n \in Names |-> IF Load(memory)[n] # Nil THEN Load(memory)[n] ELSE Load(source)[n]]

\* FilterClientConfigurers: start selects among the entries of all sources.
Filter(common, entries) ==
    [n \in Names |-> IF (common.start = {} \/ n \in common.start) /\ IsEnabled(entries[n]) THEN entries[n] ELSE Nil]

\* LoadClientConfigResult, and the validation of what it returns.
Parses(content) == content # Torn
Validates(entries) == \A n \in Names : entries[n] \notin Unsound

\* configsNeedXTCPBinding, GetClientConfigRequirements.
NeedsBinding(entries) == \E n \in Names : entries[n] \in Xtcp
NeedsVnet(common, entries) == common.vnet \/ \E n \in Names : entries[n] \in VnetUsers

\* Service: the file it was started with, the last one it reloaded, its sources and the
\* published configuration; "off" is after stop took the sources away.
Running(file, memory, entries) ==
    [is |-> "on", common |-> file, reload |-> file, source |-> file.entries, memory |-> memory, applied |-> entries]
Down == [is |-> "down"]
Up == service.is # "down"

\* reloadConfigFromSourcesLocked with UpdateAllConfigurer: what cannot be applied by this
\* process changes nothing.
Wanted(s) == Filter(s.reload, Aggregate(s.source, s.memory))
Applicable(s) ==
    /\ NeedsVnet(s.reload, Wanted(s)) => s.common.vnet
    /\ NeedsBinding(Wanted(s)) => s.common.binds
Mut_Reloaded(s) == [s EXCEPT !.applied = IF NeedsVnet(s.reload, Wanted(s)) => s.common.vnet THEN Wanted(s) ELSE @]
Reloaded(s) == [s EXCEPT !.applied = IF Applicable(s) THEN Wanted(s) ELSE @]

\* A handler: idle, writing or reloading the configuration file, or at work on one entry.
Idle == [at |-> "idle"]
Commons == Files \cup {EmptyFile}
Requests(places, values) ==
    [at : places, op : {"create", "update", "delete"}, name : Names, value : values, old : Settings \cup {Nil}]
Handlers ==
    {Idle} \cup [at : {"put", "write"}, file : Files] \cup [at : {"read"}] \cup [at : {"update"}, file : Commons]
        \cup Requests({"validate"}, Settings \cup {Nil, Garbled})
        \cup Requests({"mutate", "tmp", "save", "rename", "reload"}, Settings \cup {Nil})
        \cup [at : {"pointer", "get"}, name : Names]
Services ==
    [is : {"on", "stopping", "off"}, common : Commons, reload : Commons, source : Entries, memory : Entries, applied : Entries]

TypeOK ==
    /\ conf \in Commons \cup {Torn} /\ disk \in Entries /\ tmp \in Entries \cup {Nil, Torn}
    /\ service \in Services \cup {Down} /\ promised \in Entries
    /\ lock \in Callers \cup {Nil} /\ call \in [Callers -> Handlers]
    /\ calls \in 0..MaxCalls /\ crashes \in 0..MaxCrashes

Init ==
    /\ conf \in Files /\ disk = NoEntries /\ tmp = Nil /\ service = Down
    /\ lock = Nil /\ call = [c \in Callers |-> Idle] /\ promised = NoEntries /\ calls = 0 /\ crashes = 0

-----------------------------------------------------------------------------
(* The process. *)

\* NewStoreSource, when the configuration has a store: what was renamed to its place.
LoadStore(common) == IF common.store THEN disk ELSE NoEntries

\* runClientWithAggregator and NewService.  A configuration that is not accepted ends the
\* process at once.
Start ==
    LET memory == LoadStore(conf)
        entries == Filter(conf, Aggregate(conf.entries, memory))
    IN  /\ ~Up /\ Parses(conf)
        /\ Validates(entries) /\ (NeedsBinding(entries) => conf.binds)
        /\ service' = Running(conf, memory, entries)
        /\ UNCHANGED <<conf, disk, tmp, lock, call, promised, calls, crashes>>

\* Whoever was not answered cannot tell whether the change was made.
Ends ==
    /\ service' = Down /\ lock' = Nil /\ call' = [c \in Callers |-> Idle]
    /\ promised' = IF lock # Nil /\ disk[call[lock].name] \in {call[lock].old, call[lock].value}
                   THEN [promised EXCEPT ![call[lock].name] = disk[call[lock].name]]
                   ELSE promised
    /\ UNCHANGED <<conf, disk, tmp, calls>>
Crash ==
    /\ Up /\ crashes < MaxCrashes /\ crashes' = crashes + 1
    /\ Ends

\* stop takes the sources away once no reload is running; the process ends.
StopSources ==
    /\ Up /\ service.is = "stopping" /\ lock = Nil
    /\ service' = [service EXCEPT !.is = "off"]
    /\ UNCHANGED <<conf, disk, tmp, lock, call, promised, calls, crashes>>
Exit ==
    /\ Up /\ service.is = "off" /\ Ends
    /\ UNCHANGED crashes

\* Somebody repairs the file while the client does not run.
Repair(file) ==
    /\ ~Up /\ ~Parses(conf) /\ conf' = file
    /\ UNCHANGED <<disk, tmp, service, lock, call, promised, calls, crashes>>

-----------------------------------------------------------------------------
(* The admin API. *)

Begins(c, first) ==
    /\ Up /\ call[c].at = "idle" /\ calls < MaxCalls /\ calls' = calls + 1
    /\ call' = [call EXCEPT ![c] = first]
    /\ UNCHANGED <<conf, disk, tmp, lock, promised, crashes>>
Goes(c, next) ==
    /\ call' = [call EXCEPT ![c] = next]
    /\ UNCHANGED <<calls, crashes>>
At(c, place) == call[c].at = place

\* POST /api/stop.
Stop(c) ==
    /\ Begins(c, Idle) /\ service.is = "on"
    /\ service' = [service EXCEPT !.is = "stopping"]

\* PUT /api/config: os.WriteFile truncates the file and writes it in place.
PutConfig(c, file) == Begins(c, [at |-> "put", file |-> file]) /\ UNCHANGED service
Truncates(c) ==
    /\ At(c, "put") /\ conf' = EmptyFile
    /\ Goes(c, [call[c] EXCEPT !.at = "write"])
    /\ UNCHANGED <<disk, tmp, service, lock, promised>>
WritesPart(c) ==
    /\ At(c, "write") /\ conf' = Torn
    /\ \/ Goes(c, call[c])
       \/ Goes(c, Idle)
    /\ UNCHANGED <<disk, tmp, service, lock, promised>>
WriteConfigFile(c) ==
    /\ At(c, "write") /\ conf' = call[c].file
    /\ Goes(c, Idle)
    /\ UNCHANGED <<disk, tmp, service, lock, promised>>

\* GET /api/reload: ReloadFromFile reads and validates before it takes the lock.
Reload(c) == Begins(c, [at |-> "read"]) /\ UNCHANGED service
ReloadFromFile(c) ==
    /\ At(c, "read")
    /\ IF Parses(conf)
       THEN Goes(c, IF Validates(Filter(conf, conf.entries)) THEN [at |-> "update", file |-> conf] ELSE Idle)
       ELSE Goes(c, Idle)
    /\ UNCHANGED <<conf, disk, tmp, service, lock, promised>>
ReplaceAll(s, file) == [s EXCEPT !.source = file.entries]
UpdateConfigSource(c) ==
    /\ At(c, "update") /\ lock = Nil
    /\ service' = IF service.is = "off" THEN service
                  ELSE Reloaded([ReplaceAll(service, call[c].file) EXCEPT !.reload = call[c].file])
    /\ Goes(c, Idle)
    /\ UNCHANGED <<conf, disk, tmp, lock, promised>>

\* Requests that change the store; a removal asks for Nil.
Asks(c, op, name, body) ==
    /\ Begins(c, [at |-> "validate", op |-> op, name |-> name, value |-> body, old |-> Nil])
    /\ UNCHANGED service
CreateStoreProxy(c, name, body) == name \in ProxyNames /\ Asks(c, "create", name, body)
UpdateStoreProxy(c, name, body) == name \in ProxyNames /\ Asks(c, "update", name, body)
DeleteStoreProxy(c, name) == name \in ProxyNames /\ Asks(c, "delete", name, Nil)
CreateStoreVisitor(c, name, body) == name \in VisitorNames /\ Asks(c, "create", name, body)
UpdateStoreVisitor(c, name, body) == name \in VisitorNames /\ Asks(c, "update", name, body)
DeleteStoreVisitor(c, name) == name \in VisitorNames /\ Asks(c, "delete", name, Nil)

\* Before any lock: a body of exactly one block of its type, for the name of the path; and
\* a configuration that is valid by itself.
Definition(body) == body # Garbled
Valid(value) == value \notin Unsound
ValidateStore(c) ==
    /\ At(c, "validate")
    /\ Goes(c, IF Definition(call[c].value) /\ Valid(call[c].value) THEN [call[c] EXCEPT !.at = "mutate"] ELSE Idle)
    /\ UNCHANGED <<conf, disk, tmp, service, lock, promised>>

\* withStore...MutationAndReload: ErrStoreDisabled, ErrAlreadyExists and ErrNotFound leave
\* everything as it is; else the entry changes in memory under reloadMu.
StoreOn == service.is # "off" /\ service.common.store
Exists(c) == service.memory[call[c].name] # Nil
Changes(c, op) ==
    /\ At(c, "mutate") /\ call[c].op = op /\ lock = Nil
    /\ IF StoreOn /\ Exists(c) = (op # "create")
       THEN /\ service' = [service EXCEPT !.memory[call[c].name] = call[c].value]
            /\ lock' = c
            /\ Goes(c, [call[c] EXCEPT !.at = "tmp", !.old = service.memory[call[c].name]])
       ELSE Goes(c, Idle) /\ UNCHANGED <<service, lock>>
    /\ UNCHANGED <<conf, disk, tmp, promised>>
AddEntry(c) == Changes(c, "create")
UpdateEntry(c) == Changes(c, "update")
RemoveEntry(c) == Changes(c, "delete")

\* saveToFileUnlocked: a temporary file is opened, written, synced and renamed.
OpenTmp(c) ==
    /\ At(c, "tmp") /\ tmp' = Torn
    /\ Goes(c, [call[c] EXCEPT !.at = "save"])
    /\ UNCHANGED <<conf, disk, service, lock, promised>>
WriteTmp(c) ==
    /\ At(c, "save") /\ tmp' = service.memory
    /\ Goes(c, [call[c] EXCEPT !.at = "rename"])
    /\ UNCHANGED <<conf, disk, service, lock, promised>>
Rename(c) ==
    /\ At(c, "rename") /\ disk' = tmp /\ tmp' = Nil
    /\ Goes(c, [call[c] EXCEPT !.at = "reload"])
    /\ UNCHANGED <<conf, service, lock, promised>>

\* Any of these steps may fail: the temporary file is removed, if that succeeds, and the
\* entry in memory is as before.
Mut_Rollback(c) == service
Rollback(c) == [service EXCEPT !.memory[call[c].name] = call[c].old]
SaveFails(c) ==
    /\ call[c].at \in {"tmp", "save", "rename"}
    /\ tmp' \in (IF At(c, "tmp") THEN {tmp} ELSE {tmp, Nil})
    /\ service' = Rollback(c)
    /\ lock' = Nil /\ Goes(c, Idle)
    /\ UNCHANGED <<conf, disk, promised>>

\* withStoreMutationAndReload: an entry that cannot be applied stays in the store.
StoreReload(c) ==
    /\ At(c, "reload")
    /\ service' = Reloaded(service)
    /\ promised' = [promised EXCEPT ![call[c].name] = call[c].value]
    /\ lock' = Nil /\ Goes(c, Idle)
    /\ UNCHANGED <<conf, disk, tmp>>

\* Reading an entry: the source is fetched under reloadMu and read under its own lock, which
\* a change holds until it is saved.
Reads(c, name) == Begins(c, [at |-> "pointer", name |-> name]) /\ UNCHANGED service
GetStoreProxy(c, name) == name \in ProxyNames /\ Reads(c, name)
GetStoreVisitor(c, name) == name \in VisitorNames /\ Reads(c, name)
StoreSourceOrError(c) ==
    /\ At(c, "pointer") /\ lock = Nil
    /\ Goes(c, IF StoreOn THEN [call[c] EXCEPT !.at = "get"] ELSE Idle)
    /\ UNCHANGED <<conf, disk, tmp, service, lock, promised>>
Saving == \E c \in Callers : call[c].at \in {"tmp", "save", "rename"}
GetStore(c) ==
    /\ At(c, "get") /\ ~Saving
    /\ Goes(c, Idle)
    /\ UNCHANGED <<conf, disk, tmp, service, lock, promised>>

CallStep(c) ==
    \/ Truncates(c) \/ WritesPart(c) \/ WriteConfigFile(c)
    \/ ReloadFromFile(c) \/ UpdateConfigSource(c)
    \/ ValidateStore(c) \/ AddEntry(c) \/ UpdateEntry(c) \/ RemoveEntry(c)
    \/ OpenTmp(c) \/ WriteTmp(c) \/ Rename(c) \/ SaveFails(c) \/ StoreReload(c)
    \/ StoreSourceOrError(c) \/ GetStore(c)

Next ==
    \/ Start \/ Crash \/ StopSources \/ Exit \/ (\E file \in Files : Repair(file))
    \/ \E c \in Callers :
        \/ Stop(c) \/ Reload(c) \/ (\E file \in Files : PutConfig(c, file))
        \/ \E n \in Names, body \in Settings \cup {Garbled} :
            \/ CreateStoreProxy(c, n, body) \/ UpdateStoreProxy(c, n, body)
            \/ CreateStoreVisitor(c, n, body) \/ UpdateStoreVisitor(c, n, body)
        \/ \E n \in Names : DeleteStoreProxy(c, n) \/ DeleteStoreVisitor(c, n) \/ GetStoreProxy(c, n) \/ GetStoreVisitor(c, n)
        \/ CallStep(c)

Spec == Init /\ [][Next]_vars

-----------------------------------------------------------------------------
(* Properties. *)

\* Whenever the store may be read its memory is what is on the disk, and the disk is always
\* what the answers of the API say, across failed writes, crashes and restarts: a change is
\* on the disk before it is answered and applied, one that failed has left nothing.
StoreDurable ==
    /\ disk = IF lock # Nil /\ call[lock].at = "reload"
              THEN [promised EXCEPT ![call[lock].name] = call[lock].value] ELSE promised
    /\ Up /\ ~Saving => service.memory = IF service.common.store THEN disk ELSE NoEntries

\* Between reloads the published configuration is what the sources say: for a name that
\* start selects, the entry of the store unless it is missing or disabled, else the one of the
\* file that was loaded last; or the process cannot run that.  It never runs an entry that
\* needs a binding it cannot ask for.
Runs(s, n, setting) ==
    setting = IF s.reload.start # {} /\ n \notin s.reload.start THEN Nil
              ELSE IF s.memory[n] \in Settings \ Disabled THEN s.memory[n]
              ELSE IF s.source[n] \in Settings \ Disabled THEN s.source[n]
              ELSE Nil
AppliedIsAggregated ==
    Up => /\ lock = Nil => \/ \A n \in Names : Runs(service, n, service.applied[n])
                           \/ ~Applicable(service)
          /\ NeedsBinding(service.applied) => service.common.binds
=============================================================================
