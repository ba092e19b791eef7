SPECIFICATION Spec
CONSTANTS
    Sessions = {s1, s2, s3}
    Files = {f, g}
    None = None
    MaxInode = 3
    MayCrash = TRUE
    Gaps = {}
SYMMETRY Symmetry
INVARIANTS
    StagedSafe
    SessionsEndClean
