SPECIFICATION FairSpec
CONSTANTS
    Options <- MCOptions
    Packets <- MCPackets
    MAX_BITS = 19
    MAX_VALUES = 8
    B = 2
    M = 3
    P = 3
    startnum = 1
    sizeofarray = 2
    ptotal_messages_per_dump = 1
    wait_time = 18
    rest_time = 19
    AMPDU_LEN = 18
    MaxErrors = 1
INVARIANTS
    CutIsDiscarded
    SentIsDecoded
    DecodesNearest
    OneErrorCorrected
    RoomForTies
PROPERTIES
    Arrives
    LastValueSent
\* after a write past an array nothing is known
CHECK_DEADLOCK FALSE
