\* Capacities 1 and 2; positions wrap after the second push.
SPECIFICATION Spec
CONSTANTS
    t1 = t1
    t2 = t2
    t3 = t3
    v1 = v1
    v2 = v2
    v3 = v3
    Threads = {t1, t2, t3}
    Values = {v1, v2, v3}
    NULL = NULL
    Capacities = {1, 2}
    WORD = 16
    START = 14
    MAX_PUSH = 5
SYMMETRY Symmetry
INVARIANTS TypeOK NoSlotRace SlotsOwnQueue
PROPERTIES ImplementsFifo FailuresJustified
