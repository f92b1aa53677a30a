CONSTANTS
    ControlA = ControlA
    ControlB = ControlB
    Visitor = Visitor
    V = Visitor
    Providers <- MCProviders
    Users = {u}
    Keeper = Keeper
    Addrs <- MCAddrs
    LocalIPs <- MCLocalIPs
    MaxAttempts = 2
    MaxEnds = 1
    Instances <- MCInstances
    Nil = Nil
SPECIFICATION Spec
INVARIANT RendezvousSound
PROPERTY RendezvousEnds
CHECK_DEADLOCK FALSE
