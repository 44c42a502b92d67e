CONSTANTS
    Threads = {t1, t2, t3}
    Condvars = {cv1}
    NoThread = NoThread
    NoCv = NoCv
SYMMETRY Symmetry
SPECIFICATION Spec
INVARIANTS TypeOK HoldersMatchState NoPanic NoLostWakeup
    NoSpuriousCondvarWakeup
PROPERTIES ImplementsRWLock WritersWokenInOrder
