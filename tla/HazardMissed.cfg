SPECIFICATION Spec
CONSTANTS
    a = a
    b = b
    c = c
    NoRecord = NoRecord
    Records = {a, b, c}
    Plan <- Unprotecting
    MinOps = 1
    Slots = 2
    ScanBlocks = 3
    SignalBlocks = 3
    MinEpochOps = 2
    Capacity = 1
    Arena = 8
    Threshold = 3
    MaxSpare = 2
    Unprotects = {0, 1}
PROPERTIES
    FreedHasNoHazard
CHECK_DEADLOCK FALSE
