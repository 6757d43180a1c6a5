CONSTANTS
    t1 = t1  t2 = t2
    h1 = h1  h2 = h2
    Threads = {t1, t2}
    NoThread = NoThread
    Elts = 3
    Arrays = 2
    Handles = {h1, h2}
    Invalid = Invalid
    NoConsole = NoConsole
    Ops = {"open", "dup2"}
    Files = {0, 3}
    MaxCalls = 3
SYMMETRY Symmetry
SPECIFICATION Spec
INVARIANT NewEntryFree
CHECK_DEADLOCK FALSE
