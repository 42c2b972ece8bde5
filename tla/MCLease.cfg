SPECIFICATION FairSpec
CONSTANTS
    v1 = v1
    v2 = v2
    t1 = t1
    t2 = t2
    NoVm = NoVm
    VMs = {v1, v2}
    Threads = {t1, t2}
    MaxSession <- MCMaxSession
    HardLimit = 1
    CloneTime = 1
    LastStart = 1
    MaxTime = 3
INVARIANTS
    TypeOK
    LeaseWithinQuota
    LeaseIsReserved
PROPERTIES
    KeyIsCleared
    LifecycleSpec
    SessionsEnd
