CONSTANTS
    Threads = {t1, t2, t3}
    t1 = t1
    t2 = t2
    t3 = t3
    Cookies = {k1}
    Objs = {o1, o2}
    MMs = {m1}
    NwPins = TRUE
    NoObj = NoObj
    NoMM = NoMM
    NoCookie = NoCookie
SPECIFICATION FairSpec
INVARIANTS TypeOK NoPanic NoUseAfterFree
PROPERTY ReleaseAnswered
CHECK_DEADLOCK FALSE
