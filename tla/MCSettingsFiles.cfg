SPECIFICATION Spec
CONSTANTS
    a = a
    b = b
    v = v
    w = w
    Parts <- MCParts
    Empty = Empty
    Cut = Cut
    Keys = {a, b}
    Texts <- MCTexts
    JsonKeys = {k1, k2}
    JsonValues = {v1, v2}
    Absent = Absent
    FileLength = 3
    BufLen = 2
    MaxCalls = 3
    MaxCrashes = 2
INVARIANTS
    SettingsKept
    JsonKept
    MoveKeepsFile
CHECK_DEADLOCK FALSE
