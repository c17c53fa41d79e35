SPECIFICATION LevSpec
CONSTANTS
    Strings <- MCStrings
    Distance <- MCDistance
INVARIANTS
    ColumnIsTable
    ReturnsDistance
    NewIsTheSame
\* the function returns
CHECK_DEADLOCK FALSE
