SPECIFICATION FairSpec
CONSTANTS
    u1 = u1
    u2 = u2
    Units <- OneUnit
    MaxCycles = 2
    UnitsPerCycle = 1
    MutationsPerCycle = 1
    MaxDeferrals = 2
    MaxRevision = 2
    StartFails <- MayNotStart
    MaxStops = 2
INVARIANTS NewWorkOverSettledTree DueIsBounded OnlyJudgedWorkIsApplied UnwoundInFull ReleasedOnlyWhenApplied
CONSTRAINT Scenes
PROPERTIES RequestIsAnswered CycleEnds
