SPECIFICATION Spec
CONSTANTS
    a = a
    b = b
    Empty = Empty
    None = None
    orders = orders
    Texts = {Empty, a, b}
    Tables = {orders}
    UndoMax = 1
    MaxTabs = 3
    MaxStarts = 3
    MaxEdits = 2
VIEW EditorView
SYMMETRY EditorSymmetry
INVARIANTS
    TextKept
    UndoOwnText
    StacksOfTabs
    ShownTabIsActive
PROPERTIES
    RestoreFaithful
CHECK_DEADLOCK FALSE
