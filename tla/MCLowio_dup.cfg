CONSTANTS
    t1 = t1  t2 = t2
    h1 = h1  h2 = h2
    Threads = {t1, t2}
    NoThread = NoThread
    Elts = 4
    Arrays = 2
    Handles = {h1, h2}
    Invalid = Invalid
    NoConsole = NoConsole
    Ops = {"close", "use", "dup", "dup2"}
    Files = {0, 1, 3, 5}
    MaxCalls = 4
SYMMETRY Symmetry
SPECIFICATION Spec
INVARIANTS HandleOwned OnlyDupDeadlocks
PROPERTY UseStable
CHECK_DEADLOCK FALSE
