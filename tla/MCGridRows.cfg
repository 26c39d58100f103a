SPECIFICATION RowsSpec
CONSTANTS
    NULL = NULL
    MaxRows = 3
    Names <- MCNames
    TableName <- MCTableName
    Cells <- MCCells
    Typed <- MCTyped
    Byte <- MCByte
    Lower <- MCLower
    Number <- MCNumber
INVARIANTS
    ShownInOrder
    CopyIsGrid
    ExportsReadBack
