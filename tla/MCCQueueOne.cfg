\* A queue of one slot, which -n 1, -l 1 and -w 1 create.
CONSTANTS
    NULL = NULL
    NoResult = NoResult
    NumElem = 2
    MinSize = 1
    MaxSize = 1
    Elem <- MCElem
    Sizes <- MCSizes
SPECIFICATION Spec
INVARIANT ItemsWithinSize
CHECK_DEADLOCK FALSE
