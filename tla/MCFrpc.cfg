\* One proxy, one visitor; two work connections may be on their way into a proxy.
CONSTANTS
    Ids = {1, 2, 3}
    px = px
    vs = vs
    Proxies = {px}
    Visitors = {vs}
    Configs <- SomeConfigs
    Changes <- SomeChanges
    Starts <- SomeStarts
    Binding = {"xtcp"}
    Monitored = {"web"}
    Used = {"tcp", "stcp", "udp", "sudp"}
    Udp = {"udp"}
    Sudp = {"sudp"}
    MaxFlows = 2
    MaxFailed = 2
    MaxCuts = 1
    MaxReloads = 2
    MaxStops = 1
    MaxPending = 2
    Nil = Nil
SPECIFICATION Spec
INVARIANTS
    NothingOutlives
    ServerAgrees
PROPERTIES
    Settles
CHECK_DEADLOCK FALSE
