CONSTANTS
    Width = 3
    MaxReq = 5
    b1 = b1  b2 = b2
    Blocks = {b1, b2}
    Null = Null
SPECIFICATION Spec
INVARIANTS BigEnough Accounted
PROPERTIES ReallocKeeps NewThrows CallsEnd
