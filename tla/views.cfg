\* Six workloads of 3 to 6 events each, at three times.
CONSTANTS
    SpikeThreshold = 2
    OutlierFactor = 3
    RecentLimit = 2
    MaxTime = 3
    Workloads <- AllWorkloads
    Wild <- WildTypes
SPECIFICATION Spec
INVARIANTS
    TypeOK
    PairingSound
    SpansNest
    LinksChain
    ReportsAddUp
    PushesBlamed
    NewestKept
    OutliersRare
    SameAnswer
    MetaSelects
    SummariesFit
    SpansOfType
PROPERTIES
    PastStands
CHECK_DEADLOCK FALSE
