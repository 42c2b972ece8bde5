SPECIFICATION Spec
CONSTANTS
    p1 = p1
    p2 = p2
    p3 = p3
    t1 = t1
    t2 = t2
    base = base
    Nobody = Nobody
    People = {p1, p2}
    Base <- MCBase
    Threads = {t1, t2}
INVARIANTS
    TypeOK
    UsernamesFit
PROPERTIES
    NewsIsTrue
    DirectorySpec
SYMMETRY Symmetry
