SPECIFICATION FairSpec
CONSTANTS
    u1 = u1
    u2 = u2
    Users = {u1, u2}
    SuspendAt = 1
    DeleteAfter = 1
    Holders = {u1}
    MaxTime = 3
PROPERTIES
    IdleIsSuspended
