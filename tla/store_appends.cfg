\* Three processes append three events of two machines to two months; any of them
\* may be killed, fail to write or fail to sync, and an event may have a bad time.
CONSTANTS
    w1 = w1
    w2 = w2
    w3 = w3
    e1 = e1
    e2 = e2
    e3 = e3
    e4 = e4
    Writers = {w1, w2, w3}
    Ids = {e1, e2, e3}
    Machines <- TwoMachines
    Buckets <- TwoMonths
    Kinds = {"plain", "badtime"}
    Faults = {"kill", "writeerror", "fsyncerror"}
    NoWriter = NoWriter
    NoEvent = NoEvent
SYMMETRY ClientSymmetry
SPECIFICATION Spec
\* The ids are used up in the end.
CHECK_DEADLOCK FALSE
INVARIANTS
    TypeOK
    MutualExclusion
    DistinctSeqs
    GapFree
    RealTimeOrder
    AckedDurable
PROPERTIES
    ImplementsLedger
