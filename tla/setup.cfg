SPECIFICATION Spec
CONSTANTS
    plain = plain
    config = config
    u1 = u1
    u2 = u2
    NoPart = NoPart
    NoFile = NoFile
    NoEntry = NoEntry
    NoRef = NoRef
    BaseRef = BaseRef
    Order <- TheOrder
    Config = config
    Parts = {u1, u2}
    Junk = {u2}
    KeepSets <- KeepAny
    Kinds <- AllKinds
    MaxRendering = 2
    MaxWrites = 2
    MaxOps = 3
CONSTRAINT Scenes
CHECK_DEADLOCK FALSE
INVARIANTS BackupsHoldPriors
PROPERTIES EditsAreKept RolledBackLeavesNothing
