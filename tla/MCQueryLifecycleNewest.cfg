SPECIFICATION Spec
CONSTANTS
    MaxRuns = 2
    MaxStmts = 1
    EventCap = 2
    TimeoutSettings = {FALSE}
INVARIANTS
    NewestResultShown
