SPECIFICATION Spec
CONSTANTS
    Nothing = Nothing
    Threads = {1, 2, 3}
    Tids = {1, 2, 3}
    Addresses = {1, 2}
    Apply <- MultiwordApply
    Programs <- SmallPrograms
    Objects = {1, 2, 3}
    FirstData <- Linked
    RLU_MAX_WRITE_SETS = 4
    MAX_VERSION = 99
    MaxWriteSets = 2
INVARIANTS
    Linearizable
    QuietIsPlain
    SectionSeesOneState
    FreedIsUnused
PROPERTIES
    ProgramsEnd
CHECK_DEADLOCK FALSE
