SPECIFICATION Spec
CONSTANTS
    BlockSize = 2
    AdlerModulus = 3
    MatchCost = 0
    LiteralCost = 0
    DeltaMin = 2
    DeltaMax = 4
    MaxRatio = 10
    FallbackRatio = 70
    Contents <- MCContents
    Cases <- MCCases
    Inodes = {1, 2, 3, 4, 5, 6}
    MaxRuns = 2
    MaxWrites = 1
    MaxFaults = 1
    Foreign <- MCForeign
    NameDistance <- MCNameDistance
    DistLimit = 3
INVARIANTS
    
    BackupKeepsOld
    InStep
    
    NoStrays
    RollingExact
PROPERTIES
    ReplacedWhole
    NothingClobbered
