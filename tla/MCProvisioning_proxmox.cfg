SPECIFICATION FairSpec
CONSTANTS
    v1 = v1
    v2 = v2
    v3 = v3
    u1 = u1
    u2 = u2
    h1 = h1
    h2 = h2
    NoVm = NoVm
    VMs = {v1, v2}
    Users = {u1, u2}
    Owner <- MCOwner2
    MaxVms <- MCMaxVms
    Handlers = {h1}
    Jobs = {"expire_vms", "monitor_vms", "delete_old_vms"}
    OutOfBand = TRUE
INVARIANTS
    TypeOK
    RowOwnsMachine
    StoppedIsOff
    DeleteDestroys
PROPERTIES
    LifecycleSpec
    CallsReturn
    VanishedIsNoticed
