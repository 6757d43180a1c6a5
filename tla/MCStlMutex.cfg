SPECIFICATION Spec
CONSTANTS
    Threads = {t1, t2, t3}
    NoThread = NoThread
    MaxCount = 2
SYMMETRY ThreadSymmetry
INVARIANTS
    TypeOK
    MutualExclusion
    OwnerExact
    NoStrandedLock
    NotRecursive
PROPERTIES
    MonitorSpec
