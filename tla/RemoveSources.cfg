CONSTANTS
    N = 3
    EntryKinds = {"reg", "deref", "symlink", "hardlink", "dir", "special"}
    MaxInode = 2
    ChangeUnsent = FALSE
SPECIFICATION Spec
INVARIANTS
    OnlyStoredRemoved
    
