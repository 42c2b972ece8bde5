SPECIFICATION Spec
CONSTANTS
    u1 = u1
    u2 = u2
    Users = {u1, u2}
    SuspendAt = 1
    DeleteAfter = 1
    Holders = {}
    MaxTime = 3
PROPERTIES
    SuspendedWereIdle
