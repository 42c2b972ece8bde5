SPECIFICATION Spec
CONSTANTS
    VMs = {v1, v2}
    Nodes = {n1, n2}
    Fallback = n1
    Isos = {i1}
    NoNode = NoNode
    Phys <- MCPhys
    Numbers <- MCNumbers
SYMMETRY Symmetric
INVARIANTS TypeOK RowFound StoppedIsOff
PROPERTY TemplatesKept
