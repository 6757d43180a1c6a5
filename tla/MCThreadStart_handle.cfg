SPECIFICATION Spec
CONSTANTS
    Foreign = {f1}
    Created = {c1}
    None = None
SYMMETRY Symmetry
CHECK_DEADLOCK FALSE
INVARIANT HandleClosedByThread
