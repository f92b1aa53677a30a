SPECIFICATION Spec
CONSTANTS
    Conns = {c1, c2}
    Nil = Nil
    Clients <- AllClients
    Servers <- AllServers
INVARIANTS
    SessionAgrees
    BootstrapSettled
PROPERTIES
    BootstrapEnds
CHECK_DEADLOCK FALSE
