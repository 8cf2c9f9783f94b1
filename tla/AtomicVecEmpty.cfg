SPECIFICATION Spec
CONSTANTS
    t1 = t1
    t2 = t2
    t3 = t3
    Threads = {t1, t2, t3}
    CAP = 3
    RECLAIM = 1
    FORCE = 2
    POOL = 1
    WORD = 30
    PREFILL = 0
    NBLOCKS = 6
    MAXPUSHES = 2
    MAXCALLS = 5
    MAXARG = 1
    Ops = {"push", "pop"}
    None = None
INVARIANT EmptyPopIsNone
CHECK_DEADLOCK FALSE
