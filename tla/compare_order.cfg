SPECIFICATION Spec
CONSTANTS
    Floats <- MCFloats
    Tol = 1
    Res = 3
    Keys = 5
    Rows <- MCRows
    RowsMatch <- TuplesMatch
    SortKey <- TupleKey
    MaxRows = 3
    MaxReport = 2
INVARIANT
    OrderDoesNotMatter
CHECK_DEADLOCK FALSE
