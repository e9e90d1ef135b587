\* Two events, the second at the time of the first or before it; two loads with
\* either of two inputs.
CONSTANTS
    all = all
    mine = mine
    NoFilter <- Empty
    Nothing = Nothing
    Criteria = {all, mine}
    Filters <- Inputs
    Events <- AtOnceOrLate
    MaxLoads = 2
SPECIFICATION FairSpec
INVARIANTS
    TypeOK
    NoDuplicates
    SettledViewFits
    SettledFlameFits
    LoopAlive
PROPERTIES
    CaughtUp
