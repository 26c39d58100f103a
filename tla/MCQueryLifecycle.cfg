SPECIFICATION FairSpec
CONSTANTS
    MaxRuns = 2
    MaxStmts = 2
    EventCap = 2
    TimeoutSettings = {TRUE, FALSE}
INVARIANTS
    NoOrphanRun
    StartedBeforeEnd
    HistoryBeforeNews
PROPERTIES
    PromiseKept
    StoppableRunEnds
    SpinnerStops
