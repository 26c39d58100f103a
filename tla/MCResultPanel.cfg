SPECIFICATION PanelFairSpec
CONSTANTS
    None = None
    orders = orders
    users = users
    c1 = c1
    c2 = c2
    f = f
    Tables = {orders, users}
    Columns = {c1, c2}
    Filters = {f}
    MaxQueries = 2
    MaxFetches = 2
INVARIANTS
    PanelCoherent
PROPERTIES
    SpinnersStop
CHECK_DEADLOCK FALSE
