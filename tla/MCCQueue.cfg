\* Queues of two to four slots, three distinguishable pointers.
CONSTANTS
    NULL = NULL
    NoResult = NoResult
    NumElem = 3
    MinSize = 2
    MaxSize = 4
    Elem <- MCElem
    Sizes <- MCSizes
SPECIFICATION Spec
INVARIANTS TypeOK RingConsistent NoAssertionFails
PROPERTY ImplementsFifo
