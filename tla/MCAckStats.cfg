CONSTANTS
    NULL = NULL
    MaxBits = 2
    INT_MAX = 1023
    MaxAcks = 6
    WindowSizes <- MCWindowSizes
    Garbage <- MCGarbage
SPECIFICATION Spec
INVARIANTS TypeOK WindowTotals PointersFollowArrival PrintedInRange
\* The run ends at MaxAcks.
CHECK_DEADLOCK FALSE
