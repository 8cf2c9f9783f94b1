SPECIFICATION Spec
CONSTANTS
    t1 = t1
    t2 = t2
    t3 = t3
    Threads = {t1, t2, t3}
    None = None
    MAXGROUP = 2
    BOUNDED = 2
    ONE_WRITER = 5
    MAXSENDS = 3
    MAXRECVS = 3
    MAXTOKENS = 3
    MAXN = 2
    SMUTEXCALLS = 5
    PARKCALLS = 8
    BARRIERCALLS = 7
    SPINCALLS = 8
INVARIANTS TypeOK HoldersExact CountsExact NoLostWakeup FlagsHaveWriter
PROPERTIES EveryCallReturns
CHECK_DEADLOCK FALSE
