\* Two processes of one host append an event each: the id file may be missing, blank
\* or out of reach, processes are killed, also inside a write, the host loses power,
\* and a month cannot be scanned.
CONSTANTS
    w1 = w1
    w2 = w2
    Writers = {w1, w2}
    Ids = {1, 2}
    Machines <- ThreeUuidsAndAName
    Buckets <- OneMonth
    Kinds = {"multibyte"}
    Faults = {"kill", "power", "torn", "scanerror"}
    NoWriter = NoWriter
    NoEvent = NoEvent
    Uuids <- ThreeUuids
    HostName = 9
    Given = 9
    IdErrors = TRUE
SYMMETRY ProcessSymmetry
SPECIFICATION HostSpec
\* The ids are used up in the end.
CHECK_DEADLOCK FALSE
INVARIANTS
    HostTypeOK
    OneId
    HostOrder
