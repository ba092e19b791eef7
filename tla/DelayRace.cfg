SPECIFICATION Spec
CONSTANTS
    Sessions = {s1, s2}
    Files = {f, g}
    None = None
    MaxInode = 3
    MayCrash = FALSE
    Gaps = {"open_lock", "close"}
INVARIANTS
    StagedSafe
