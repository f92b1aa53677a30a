\* Two stops and a destroy against the worker, with READY reached.
CONSTANTS
    Callers = {a}
    NoCaller = none
    Capacity = 4
    TicketMax = 2
    Randoms = {500}
    MaxPongs = 1
SPECIFICATION FairSpec
INVARIANTS
    StopOkIsQuiet
    Handshake
    OwnershipOrder
PROPERTIES
    StopReturns
