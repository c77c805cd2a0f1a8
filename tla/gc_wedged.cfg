SPECIFICATION FairSpec
CONSTANTS
    u1 = u1
    u2 = u2
    Units <- OneUnit
    MaxCycles = 1
    UnitsPerCycle = 1
    MutationsPerCycle = 1
    MaxDeferrals = 1
    MaxRevision = 1
    StartFails <- AlwaysStart
    MaxStops = 1
PROPERTY NeverHoldsDispatch
