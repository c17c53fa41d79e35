CONSTANTS
    NULL = NULL
    NotHanded = NotHanded
    MaxWindow = 4
    NumValues = 3
    MaxLines = 5
    Options <- MCOverlapMinimum
SPECIFICATION Spec
CHECK_DEADLOCK FALSE
INVARIANT MinimumForUpdate
