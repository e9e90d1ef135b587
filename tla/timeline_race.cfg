\* Two loads of which the second begins before the first has returned.
CONSTANTS
    all = all
    mine = mine
    NoFilter <- Empty
    Nothing = Nothing
    Criteria = {all, mine}
    Filters <- TwoInputs
    Events <- OneEvent
    MaxLoads = 2
SPECIFICATION Spec
INVARIANTS
    ViewFits
