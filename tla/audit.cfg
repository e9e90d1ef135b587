\* One auditor at a time audits two sessions up to two times, whole or in part.
CONSTANTS
    a1 = a1
    a2 = a2
    test = test
    choice = choice
    now = now
    later = later
    Auditors = {a1}
    Turns <- Talk
    Windows <- AllOptions
    Budget = 2
    Wordings = {now, later}
    Keyed = {test}
    MaxLogged = 1
    MaxFound = 2
    MaxAudits = 2
SYMMETRY SymmetricWordings
SPECIFICATION Spec
\* The audits are used up in the end, and everything has been said.
CHECK_DEADLOCK FALSE
INVARIANTS
    TypeOK
    NoDoubleEmit
    FindingsKept
PROPERTIES
    LoadsAll
