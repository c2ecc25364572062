SPECIFICATION ScanSpec
CONSTANTS
    p = p
    q = q
    Threads <- Two
    Keys = {0, 1, 2, 3, 4, 5, 6}
    MaxKey = 9
    Scripts <- RotatedScripts
INVARIANTS
    InsertedIsFound
CHECK_DEADLOCK FALSE
