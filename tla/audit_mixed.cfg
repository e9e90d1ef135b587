\* One audit of two sessions whose turns share a chunk.
CONSTANTS
    a1 = a1
    a2 = a2
    test = test
    choice = choice
    now = now
    later = later
    Auditors = {a1}
    Turns <- Crosstalk
    Windows <- WholeTranscript
    Budget = 2
    Wordings = {now}
    Keyed = {test}
    MaxLogged = 1
    MaxFound = 1
    MaxAudits = 1
SPECIFICATION Spec
\* The audits are used up in the end, and everything has been said.
CHECK_DEADLOCK FALSE
INVARIANTS
    RightSession
