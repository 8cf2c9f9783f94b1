\* The reader that parks while a writer downgrades leaves its flag behind.
SPECIFICATION Spec
CONSTANTS
    t1 = t1
    t2 = t2
    Threads = {t1, t2}
    Readers = {t1, t2}
    Writers = {t1, t2}
    Downgraders = {t1, t2}
    BulkReleasers = {}
    ONE_WRITER = 4
INVARIANT QuiescentUnlocked
