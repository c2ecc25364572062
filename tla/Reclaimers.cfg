SPECIFICATION Spec
CONSTANTS
    a = a
    b = b
    c = c
    NoRecord = NoRecord
    Records = {a, b}
    Plan <- Everyone
    MinOps = 1
    Slots = 2
    ScanBlocks = 3
    SignalBlocks = 3
    MinEpochOps = 2
    Capacity = 1
    Arena = 8
    Threshold = 3
    MaxSpare = 2
    Unprotects = {1}
INVARIANTS
    HeldIsNotFreed
    OnePlace
CHECK_DEADLOCK FALSE
