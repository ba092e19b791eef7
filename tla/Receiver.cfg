CONSTANTS
    Capacity = 2
    Budget = 4
    Payloads <- MCPayloads
    MaxFrames = 3
    MaxChunk = 1
    Configs <- MCConfigs
SPECIFICATION FairSpec
INVARIANTS
    BoundedMemory
    NothingLost
    CompleteBeforeCommit
    OutcomesAreTrue
PROPERTIES
    ImplementsSession
    SessionEnds
