CONSTANTS
    CR = CR  LF = LF  CtrlZ = CtrlZ  x = x  y = y
    Letters = {x, y}
    LowLF = {y}
    Handles = {"file", "pipe"}
    Modes = {"ansi", "utf16le"}
    BufSize = 3
    MaxDisk = 4
    MaxFile = 6
    MaxRead = 3
    MaxWrite = 3
SPECIFICATION Spec
INVARIANT ReadsText
PROPERTY WritesText
CHECK_DEADLOCK FALSE
