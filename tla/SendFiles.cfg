SPECIFICATION Spec
CONSTANTS
    Paths <- Tree3
    Home <- HomePath
    FilterFile = 5
    MergeFiles <- Merges
    CvsPattern = {}
    MaxMergeDepth = 2
    ChunkSize = 1
    Scanners = {0, 1, 2}
    MaxChanges = 2
    NewInode <- NoInode
    QueueCap = 1
    Cases <- MCCases
INVARIANTS
    
    
    
    
    FirstBeforeSiblings
PROPERTY
    ThreadsEnd
