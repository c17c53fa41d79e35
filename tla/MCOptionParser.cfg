SPECIFICATION Spec
CONSTANTS
    MAX_VALUES = 8
    MAX_BITS = 40
    NumRegexes = 3
    Argvs <- MCArgvs
INVARIANTS
    AcceptedIsLegal
    OutputIsOpened
    DefaultsPassEveryWord
CHECK_DEADLOCK FALSE
