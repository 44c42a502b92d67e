SPECIFICATION Spec
CONSTANTS
    Cores = {c1, c2}
    c1 = c1
    c2 = c2
    NumThreads = 2
    Cookies = {k1, k2, k3}
    k3 = k3
    k1 = k1
    k2 = k2
SYMMETRY Symmetry
CHECK_DEADLOCK FALSE
INVARIANTS
    TypeOK
    OneCorePerThread
    UserMapFollowsThread
    RegsOnlyFromRpc
    NoShmLeak
