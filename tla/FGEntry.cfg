SPECIFICATION Spec
CONSTANTS
    p = p
    q = q
    r = r
    Workers <- Two
    Rebalancer = r
    Keys = {0, 1, 2, 3, 4, 5, 6}
    MaxKey = 9
    Scripts <- EntryScripts
INVARIANTS
    LockedOnEntry
