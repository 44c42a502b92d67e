CONSTANTS
    Clients = {c1, c2}
    c1 = c1
    c2 = c2
    Names = {n1, n2}
    Data = {d1, d2}
    NumFiles = 2
    OpenFlags <- OpenedWith
    CreateFlags <- CreatedWith
    Enumerators = {c1, c2}
    None = None
SYMMETRY Symmetry
SPECIFICATION Spec
INVARIANTS TypeOK NoHalt Recoverable DirhRefsMatch
PROPERTY ImplementsAtomicStore
