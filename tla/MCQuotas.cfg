SPECIFICATION Spec
CONSTANTS
    u1 = u1
    a1 = a1
    v1 = v1
    v2 = v2
    v3 = v3
    t1 = t1
    t2 = t2
    NoVm = NoVm
    Users = {u1, a1}
    Admins = {a1}
    VMs = {v1, v2, v3}
    Owner <- MCOwner
    Base <- MCBase
    HardLimit = 2
    Threads = {t1, t2}
    Sizes = {1, 2, 3}
    Grants <- MCGrants
    Policies <- MCPolicies
SYMMETRY Symmetry
INVARIANTS
    TypeOK
    WithinLimits
    CountWithinPeak
PROPERTIES
    GrantsKeepOthers
