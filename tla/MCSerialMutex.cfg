SPECIFICATION Spec
CONSTANTS
    t1 = t1
    t2 = t2
    t3 = t3
    g1 = g1
    g2 = g2
    g3 = g3
    Threads = {t1, t2, t3}
    Guards = {g1, g2, g3}
    COUNT = 2
    None = None
SYMMETRY Symmetry
INVARIANTS NoAliasing WordCountsGuards NoLostWakeup
PROPERTIES RegistrationHandedOn ImplementsSerialLock
