CONSTANTS
    Threads = {t1, t2, t3}
    Shared = Shared
    Kept = Kept
    Solo = Solo
    Own = Own
    Pta = Pta
    Uuids = {Kept}
    Pseudo = {}
    Flags <- FlagsOf
    MayCall <- NoCalls
    MayPanic = {}
    NumSessions = 1
    NumCtxs = 1
    MaxId = 1
    CloseRaces = TRUE
    SecureDataPath = FALSE
    NoThread = NoThread
    NoCtx = NoCtx
    NoSess = NoSess
SPECIFICATION FairSpec
INVARIANTS NoHang
PROPERTY UnlinkCompletes
