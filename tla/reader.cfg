\* Two processes append three events of one machine to two months while a
\* reader reads; any line may be stored in part, or read while it is copied in.
CONSTANTS
    w1 = w1
    w2 = w2
    e1 = e1
    e2 = e2
    e3 = e3
    Writers = {w1, w2}
    Ids = {e1, e2, e3}
    Machines <- OneMachine
    Buckets <- TwoMonths
    Kinds = {"multibyte"}
    Faults = {"short", "torn", "readerror", "midwrite"}
    NoWriter = NoWriter
    NoEvent = NoEvent
SYMMETRY Symmetry
SPECIFICATION ReaderSpec
\* The ids are used up in the end, and the reader has returned.
CHECK_DEADLOCK FALSE
INVARIANTS
    ReaderTypeOK
    NoSilentLoss
    ReadInOrder
    ReadAgrees
