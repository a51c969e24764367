SPECIFICATION Spec
CONSTANTS
    Floats <- MCFloats
    Tol = 1
    Res = 3
    Keys = 5
    Rows <- MCRows
    RowsMatch <- TuplesMatch
    SortKey <- TupleKey
    MaxRows = 3
    MaxReport = 2
INVARIANTS
    TypeOK
    AcceptedMeansSame
    DriftWithinKeysAccepted
CHECK_DEADLOCK FALSE
