SPECIFICATION Spec
CONSTANTS
    t1 = t1
    t2 = t2
    t3 = t3
    u1 = u1
    u2 = u2
    g1 = g1
    Which = {"array", "map", "atomic", "rwlock", "cell"}
    Many = {t1, t2, t3}
    Few = {u1, u2}
    One = {g1}
    Keys = {1, 4, 9}
    Args = {1, 3}
    Transfers = TRUE
    MAXRESETS = 2
    None = None
SYMMETRY Symmetry
INVARIANTS
    TypeOK StoragePinned GuardsSeeValues LocksExact CountsExact EndsOnce SizesExact VecKeysOnce
    UpdatesAtomic
PROPERTIES ImplementsDictionary
CHECK_DEADLOCK FALSE
