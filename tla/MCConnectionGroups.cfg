SPECIFICATION Spec
CONSTANTS
    a = a
    g1 = g1
    g2 = g2
    n1 = n1
    n2 = n2
    o1 = o1
    o2 = o2
    NoConn = NoConn
    NoGroup = NoGroup
    Conns = {a}
    GroupIds = {g1, g2}
    Names = {n1, n2}
    Colors = {o1, o2}
    DefaultName = n1
    DefaultColor = o1
    UndoMax = 2
    EventCap = 1
    MaxInFlight = 1
    MaxCommands = 4
    MaxMishaps = 1
SYMMETRY GroupSymmetry
INVARIANTS
    SidebarFresh
PROPERTIES
    UndoExact
CHECK_DEADLOCK FALSE
