SPECIFICATION FairSpec
CONSTANTS
    u1 = u1
    u2 = u2
    Users = {u1, u2}
    Holders = {}
    SuspendAt = 2
    DeleteAfter = 1
    MaxTime = 4
INVARIANTS
    TypeOK
PROPERTIES
    RemovedWasSuspended
    UnusedKept
    IdleIsSuspended
