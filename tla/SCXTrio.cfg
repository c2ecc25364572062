SPECIFICATION Spec
CONSTANTS
    p = p
    q = q
    w = w
    n1 = n1
    n2 = n2
    n3 = n3
    n4 = n4
    DummyTid = DummyTid
    Threads <- Three
    Nodes <- Four
    Footprints <- TrioFootprints
    MaxOps <- TrioOps
    Survivors = {}
INVARIANTS
    TypeOK
    OutcomeIsTrue
    ResultIsTrue
    SomeoneWins
PROPERTIES
    FinalizedIsForever
    AtomicSpec
CHECK_DEADLOCK FALSE
