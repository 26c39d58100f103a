SPECIFICATION FairSpec
CONSTANTS
    None = None
    c1 = c1
    Conns = {c1}
    MaxVersion = 2
    MaxCommands = 3
    MaxStarts = 2
INVARIANTS
    CacheNotBehindSidebar
    DiskFollowsMemory
PROPERTIES
    SpinnerStops
CHECK_DEADLOCK FALSE
