CONSTANTS
    Threads = {t1, t2}
    Shared = Shared
    Kept = Kept
    Solo = Solo
    Own = Own
    Pta = Pta
    Uuids = {Shared, Own, Pta}
    Pseudo = {Pta}
    Flags <- FlagsOf
    MayCall <- NoCalls
    MayPanic = {}
    NumSessions = 3
    NumCtxs = 2
    MaxId = 2
    CloseRaces = FALSE
    SecureDataPath = TRUE
    NoThread = NoThread
    NoCtx = NoCtx
    NoSess = NoSess
SYMMETRY Symmetry
SPECIFICATION Spec
INVARIANTS TypeOK CtxRefsMatchSessions NoHang
