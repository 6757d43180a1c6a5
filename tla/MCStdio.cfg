CONSTANTS
    t1 = t1  t2 = t2
    Threads = {t1, t2}
    NoThread = NoThread
    NStream = 2
    BufSize = 3
    NoStream = NoStream
    MaxFiles = 3
    MaxBytes = 4
    MaxCalls = 5
    MaxFaults = 1
SYMMETRY Symmetry
SPECIFICATION Spec
INVARIANTS DataKept FileOwned
