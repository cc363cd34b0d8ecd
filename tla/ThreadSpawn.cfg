SPECIFICATION FairSpec
CONSTANTS
    Tids = {t1, t2, t3}
    Main = t1
    Flags <- BothFlags
    Words = {w1, w2}
    Spurious = FALSE
    NoTid = none
INVARIANTS ArgsAlive EndedCleared
PROPERTIES CloneResult CloneReturns
