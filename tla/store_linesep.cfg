\* One process and no fault, but a payload that holds U+0085, U+2028 or U+2029.
CONSTANTS
    w1 = w1
    w2 = w2
    w3 = w3
    e1 = e1
    e2 = e2
    e3 = e3
    e4 = e4
    Writers = {w1}
    Ids = {e1, e2, e3}
    Machines <- OneMachine
    Buckets <- TwoMonths
    Kinds = {"plain", "linesep"}
    Faults = {}
    NoWriter = NoWriter
    NoEvent = NoEvent
SPECIFICATION Spec
\* The ids are used up in the end.
CHECK_DEADLOCK FALSE
INVARIANTS
    DistinctSeqs
