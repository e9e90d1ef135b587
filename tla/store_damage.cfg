\* Two processes append three events of one machine: they are killed, also inside
\* os.write and inside a multi-byte character, the host loses power, and a month
\* cannot be scanned.
CONSTANTS
    w1 = w1
    w2 = w2
    w3 = w3
    e1 = e1
    e2 = e2
    e3 = e3
    e4 = e4
    Writers = {w1, w2}
    Ids = {e1, e2, e3}
    Machines <- OneMachine
    Buckets <- TwoMonths
    Kinds = {"multibyte"}
    Faults = {"kill", "torn", "power", "scanerror"}
    NoWriter = NoWriter
    NoEvent = NoEvent
SPECIFICATION FairSpec
\* The ids are used up in the end.
CHECK_DEADLOCK FALSE
PROPERTIES
    DurableAppendOnly
    EveryAppendEnds
