SPECIFICATION Spec
CONSTANTS
    Nothing = Nothing
    Threads = {1, 2, 3}
    Tids = {1, 2, 3}
    Addresses <- AllAddresses
    Buckets <- TwoBuckets
    Key <- NodeKey
    Apply <- RangeApply
    Cases <- RangeCases
INVARIANTS
    Linearizable
    ScanFindsDeletion
    DeletedIsFound
PROPERTIES
    ProgramsEnd
CHECK_DEADLOCK FALSE
