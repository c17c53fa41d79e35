CONSTANTS
    NULL = NULL
    MaxBits = 2
    INT_MAX = 1023
    MaxAcks = 2
    WindowSizes <- MCWindowSizes
    Garbage <- MCGarbage
SPECIFICATION Spec
INVARIANT AllLengthsCounted
CHECK_DEADLOCK FALSE
