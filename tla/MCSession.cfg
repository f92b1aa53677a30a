\* Three roles, frames whole or split, a server whose last message may be anything.
SPECIFICATION LiveSpec
CONSTANTS
    Roles = {"provider", "visitor", "xtcp visitor"}
    Turns = 2
    RxUnits = 3
    LoginWrites = 1
    SignalRecords = 2
    ResponseTime = 1
    HeartbeatTime = 2
    MaxElapsed = 1
    MaxInFlight = 1
    Splits = {"proxy"}
    Rogue = {"signal"}
INVARIANTS
    ServerNeverAccused
    FramesContiguous
    FreedClean
PROPERTIES
    EndIsExact
    PhasesEnd
