\* Three logins, of which up to three share a run id and two a client id.
CONSTANTS
    Controls = {c1, c2, c3}
    RunIDs = {"r", "s"}
    ClientIDs = {"x"}
    NoClient = "none"
    Wires = {"v1", "v2"}
    Who <- ThreeLogins
    Names = {"p"}
    WorkConns = {w}
    Capacity = 1
    MaxPorts = 1
    Nil = nil
SYMMETRY AnyOrder
CHECK_DEADLOCK FALSE
SPECIFICATION Spec
INVARIANTS
    HandoverClean
    RegistryMatches
    NothingLeft
    HandoffEnds
