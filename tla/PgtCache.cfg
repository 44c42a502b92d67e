CONSTANTS
    Threads = {t1, t2}
    Ctxs = {a, b}
    NumPgts = 3
    Regions <- RegionSet
    Touched = {0, 2}
    NoCtx = NoCtx
SPECIFICATION FairSpec
INVARIANTS TypeOK RunsOnOwnTables NoStaleTable UnpagedEntriesConfined
PROPERTY WaiterServed
