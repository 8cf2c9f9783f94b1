SPECIFICATION Spec
CONSTANTS
    t1 = t1
    t2 = t2
    t3 = t3
    u1 = u1
    u2 = u2
    Three = {t1, t2, t3}
    Two = {u1, u2}
    QUEUECALLS = 5
    BULKCALLS = 5
    BACKLOGCALLS = 7
    None = None
SYMMETRY Symmetry
INVARIANTS ResultsExact NoRetiredAccess BlocksOwnedOnce QuietContents BacklogBounded
CHECK_DEADLOCK FALSE
