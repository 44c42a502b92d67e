CONSTANTS
    Threads = {t1, t2}
    Shared = Shared
    Kept = Kept
    Solo = Solo
    Own = Own
    Pta = Pta
    Uuids = {Shared, Solo}
    Pseudo = {}
    Flags <- FlagsOf
    MayCall <- SharedCallsBoth
    MayPanic = {Solo}
    NumSessions = 3
    NumCtxs = 2
    MaxId = 3
    CloseRaces = FALSE
    SecureDataPath = FALSE
    NoThread = NoThread
    NoCtx = NoCtx
    NoSess = NoSess
SYMMETRY Symmetry
SPECIFICATION Spec
INVARIANTS SiCountMatches OneThreadPerTa NoDanglingCtx NothingLeftBehind
CHECK_DEADLOCK FALSE
