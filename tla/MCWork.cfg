\* All five kinds of work set, two slots, one local socket; two bytes from the stream, so
\* that a write may be partial, and one from the socket.
CONSTANTS
    Roles <- AllRoles
    NumSlots = 2
    SocketLimit = 1
    PendingLimit = 1
    BufferSize = 2
    ResponseTime = 1
    ConnectTime = 1
    StallTime = 1
    IdleTime = 1
    CleanupTime = 1
    MaxElapsed = 1
    StreamBytes = 2
    LocalBytes = 1
SPECIFICATION Spec
INVARIANTS
    SocketBound
    BufferOwned
    SettledOnce
    EndsWhole
