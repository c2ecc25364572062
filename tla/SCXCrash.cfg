SPECIFICATION CrashSpec
CONSTANTS
    p = p
    q = q
    w = w
    n1 = n1
    n2 = n2
    n3 = n3
    n4 = n4
    DummyTid = DummyTid
    Threads <- Two
    Nodes <- Chain
    Footprints <- CrashFootprints
    MaxOps <- CrashOps
    Survivors = {p}
INVARIANTS
    SequenceParity
    HandlesPublished
PROPERTIES
    SurvivorCommits
    CallsReturn
CHECK_DEADLOCK FALSE
