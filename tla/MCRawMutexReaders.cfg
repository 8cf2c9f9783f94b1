\* Two threads are enough to leave a reader asleep on a free lock.
SPECIFICATION FairSpec
CONSTANTS
    t1 = t1
    t2 = t2
    Threads = {t1, t2}
    Readers = {t1, t2}
    Writers = {t1, t2}
    Downgraders = {}
    BulkReleasers = {}
    ONE_WRITER = 4
PROPERTY SleepingReadersWake
