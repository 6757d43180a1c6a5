SPECIFICATION Spec
CONSTANTS
    Foreign = {f1, f2}
    Created = {c1, c2}
    None = None
SYMMETRY Symmetry
CHECK_DEADLOCK FALSE
INVARIANTS
    TypeOK
    SentinelGuards
    PtdOwned
    ParameterOwned
    ReleasedOnce
