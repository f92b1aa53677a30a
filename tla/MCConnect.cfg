\* One connection, up to two refused stack calls.
CONSTANT MaxRefusals = 2
SPECIFICATION FairSpec
INVARIANTS
    RequestOutlivesThread
    FdIsOurs
    CloseMatchesResult
PROPERTIES
    DrainEnds
