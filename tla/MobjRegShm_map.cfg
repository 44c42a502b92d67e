CONSTANTS
    Threads = {t1, t2}
    t1 = t1
    t2 = t2
    Cookies = {k1}
    Objs = {o1}
    MMs = {m1, m2}
    NwPins = TRUE
    NoObj = NoObj
    NoMM = NoMM
    NoCookie = NoCookie
SPECIFICATION Spec
INVARIANTS MapKept
CHECK_DEADLOCK FALSE
