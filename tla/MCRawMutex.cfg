\* Every operation, with room for two readers only.
SPECIFICATION Spec
CONSTANTS
    t1 = t1
    t2 = t2
    t3 = t3
    Threads = {t1, t2, t3}
    Readers = {t1, t2, t3}
    Writers = {t1, t2, t3}
    Downgraders = {t1, t2, t3}
    BulkReleasers = {t1, t2, t3}
    ONE_WRITER = 3
SYMMETRY Symmetry
INVARIANTS HoldersExact ParkedFlagHasWriter NoStrandedWriter
PROPERTY WriterPreference
