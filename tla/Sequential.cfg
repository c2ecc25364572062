SPECIFICATION SeqSpec
CONSTANTS
    Sizes = {4, 9, 10, 12, 15, 17, 20, 30, 31}
    MaxProcesses = 6
    MaxRebalancers = 5
    MaxElement = 5
    MaxHash = 3
    Capacity = 2
    MaxTreeKey = 7
INVARIANTS
    ChecksPass
    TidsAreOwn
    KeepsOrder
    Converges
    TablesAreSets
    SequentialIsSet
CHECK_DEADLOCK FALSE
