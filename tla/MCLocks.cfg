SPECIFICATION Spec
CONSTANTS
    Threads = {1, 2, 3}
    g1 = g1
    Guards = {g1}
    COUNT = 1
    Readers = {3}
    Writers = {1, 2}
    ONE_WRITER = 5
    LANES = 1
    None = None
PROPERTIES WaitersProceed
