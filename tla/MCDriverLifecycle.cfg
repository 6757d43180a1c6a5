SPECIFICATION Spec
CONSTANT MaxCallbacks = 3
CHECK_DEADLOCK FALSE
INVARIANTS
    TypeOK
    UsesLive
    NothingLeft
    RollbackComplete
    UnloadHooked
