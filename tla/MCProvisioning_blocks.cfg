SPECIFICATION Spec
CONSTANTS
    v1 = v1
    v2 = v2
    v3 = v3
    u1 = u1
    u2 = u2
    h1 = h1
    h2 = h2
    NoVm = NoVm
    VMs = {v1, v2, v3}
    Users = {u1, u2}
    Owner <- MCOwner3
    MaxVms <- MCMaxVms
    Handlers = {h1}
    Jobs = {}
    OutOfBand = FALSE
INVARIANT LoopNeverBlocks
