SPECIFICATION Spec
CONSTANTS
    a = a
    b = b
    p1 = p1
    p2 = p2
    AllRows = AllRows
    NoConn = NoConn
    NoText = NoText
    Conns = {a, b}
    Texts <- MCTexts
    Sizes = {p1, p2}
    MaxCommands = 3
SYMMETRY GateSymmetry
INVARIANTS
    ReadOnlyRespected
    DangerLetThrough
    ParamsReachable
    PageFollowsToolbar
CHECK_DEADLOCK FALSE
