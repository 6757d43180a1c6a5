SPECIFICATION Spec
CONSTANTS
    Threads = {t1, t2}
    NoThread = NoThread
    InitialCount = 2
    MinimumIncrement = 1
    MaximumIncrement = 2
    MaxRegistered = 5
    MaxRuns = 2
CHECK_DEADLOCK FALSE
INVARIANTS
    TypeOK
    EachOnce
    BlockSafe
PROPERTIES
    StackSpec
    ExecutionEnds
