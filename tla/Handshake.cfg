SPECIFICATION FairSpec
CONSTANTS
    MaxChunkSize = 4
    BlockSizeMin = 2
    BlockSizeMax = 8
    DeltaFileMin = 2
    DeltaFileMax = 8
    MaxServerAlloc = 8
    Conns = {"c1", "c2", "c3"}
    Sources = {"far", "near"}
    Args <- MCArgs
    Scenes <- MCScenes
    Duration = 1
INVARIANTS
    
    OptionsCompose
    VerdictsMatch
PROPERTIES
    LockoutHolds
    HandshakeEnds
