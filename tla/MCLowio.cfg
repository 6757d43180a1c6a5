CONSTANTS
    t1 = t1  t2 = t2
    h1 = h1  h2 = h2
    Threads = {t1, t2}
    NoThread = NoThread
    Elts = 3
    Arrays = 2
    Handles = {h1, h2}
    Invalid = Invalid
    NoConsole = NoConsole
    Ops = {"open", "reopen", "osfhandle", "close", "dup"}
    Files = {0, 1, 3, 4}
    MaxCalls = 4
SYMMETRY Symmetry
SPECIFICATION Spec
INVARIANTS TypeOK HandleOwned NoCircularWait
CHECK_DEADLOCK FALSE
