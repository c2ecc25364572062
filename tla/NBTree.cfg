SPECIFICATION ScanFairSpec
CONSTANTS
    p = p
    q = q
    Threads <- Two
    Keys = {0, 1, 2, 3, 4, 5, 6}
    MaxKey = 9
    Scripts <- TreeScripts
INVARIANTS
    RemovedIsFinalized
    WeightsMakeSense
    QuietIsBalanced
    RebalancingEnds
PROPERTIES
    OperationsEnd
    IsKeySet
    ScansSettle
CHECK_DEADLOCK FALSE
