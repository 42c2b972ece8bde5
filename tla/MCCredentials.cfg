SPECIFICATION Spec
CONSTANTS
    t1 = t1
    t2 = t2
    t3 = t3
    Threads = {t1, t2}
    MaxAttempts = 2
    AlertAt = 3
    Lockout = 1
    MaxTime = 2
    MaxWrong = 5
SYMMETRY Symmetry
INVARIANTS
    TypeOK
    AlertIsNotMissed
    LockIsEarned

    
