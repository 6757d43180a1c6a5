CONSTANTS
    Main = Main  None = None
    w1 = w1  w2 = w2  s1 = s1  s2 = s2
    Workers = {w1, w2}
    Created = {w1}
    Ids = {1, 2}
    States = {s1, s2}
    Items = 1
    Blocks = 2
SPECIFICATION Spec
INVARIANTS FrameAlive TableExact ReleasedAtExit
PROPERTY CallsReturn
CHECK_DEADLOCK FALSE
