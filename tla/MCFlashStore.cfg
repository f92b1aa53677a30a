\* Two readers, two sectors, two leases per boot, one power loss.
CONSTANTS
    Users = {a, b}
    NoUser = none
    Sectors = 2
    MaxLease = 2
    MaxCrashes = 1
    MaxStrays = 1
SPECIFICATION FairSpec
INVARIANTS
    LeasesMatch
PROPERTIES
    ImplementsScratchStore
    LeaseReturned
