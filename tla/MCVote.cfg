CONSTANTS
    NULL = NULL
    NotHanded = NotHanded
    MaxWindow = 4
    NumValues = 3
    MaxLines = 7
    Options <- MCOptions
SPECIFICATION Spec
CHECK_DEADLOCK FALSE
INVARIANTS
    TypeOK
    QueueInOrder
    NoAssertionFails
    SafeModeOutput
PROPERTIES
    ImplementsVote
    RepeatKeepsWinner
