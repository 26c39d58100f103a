SPECIFICATION Spec
CONSTANTS
    a = a
    b = b
    k1 = k1
    k2 = k2
    NoConn = NoConn
    NoKey = NoKey
    Conns = {a, b}
    SshConns = {a}
    Keys = {k1, k2}
    EventCap = 1
    MaxCommands = 4
    MaxPorts = 2
    MaxMishaps = 1
INVARIANTS
    TunnelsApproved
    ApprovalReachable
    NoOrphanPool
    UiFlagFresh
PROPERTIES
    FlagsSurviveReconnect
SYMMETRY KeySymmetry
CHECK_DEADLOCK FALSE
