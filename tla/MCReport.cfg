SPECIFICATION Spec
CONSTANTS
    num_values = 2
    NoName = NoName
    AMPDU_LEN = 4
    Len32 = 2
    Len64 = 4
    MaxLines = 3
    Options <- MCOptions
    Lines <- MCLines
    Outcomes <- MCOutcomes
INVARIANTS
    CrashesWhenEmpty
    IntervalsAddUp
    HistogramsAddUp
    PercentagesInRange
    
CHECK_DEADLOCK FALSE
