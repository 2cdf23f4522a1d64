SPECIFICATION Spec
CONSTANTS
    Threads = {t1, t2}
    Lower = {l1, l2}
    Upper = {u1, u2}
    Mounts = {m1}
    l1 = l1
    LowerRoot <- OneRoot
    Parent <- OneTree
    NoThread = NoThread
    Null = Null
    ForceFlags = {TRUE}
    LowerFaults = TRUE
SYMMETRY Interchangeable
INVARIANTS
    DirectoryStaysLocked
