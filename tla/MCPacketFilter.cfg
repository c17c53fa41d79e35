SPECIFICATION Spec
CONSTANTS
    AMPDU_LEN = 11
    Bitmaps <- MCBitmaps
    Estimates = {0, 4}
    Options <- MCOptions
    MaxLines = 2
INVARIANTS
    LinesAddUp
    TalliesAgree
    NoAssertionFails
    RoomForPacket
    HistogramsAddUp
    LocationsAddUp
PROPERTIES ZerosLocated 
\* the input ends
CHECK_DEADLOCK FALSE
