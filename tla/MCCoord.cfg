\* Four threads, two private lanes and the overflow lane.
SPECIFICATION Spec
CONSTANTS
    Threads = {1, 2, 3, 4}
    LANES = 2
    None = None
INVARIANTS TypeOK LanesExact
PROPERTY ImplementsPins
