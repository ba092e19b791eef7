SPECIFICATION FairSpec
CONSTANTS
    Weight <- MCWeight
    LateWeight <- MCLateWeight
    Capacity = 2
    Budget = 2
    Modes = {"none", "early", "per_dir", "late"}
    PreScanMisses = {{}, {2}}
INVARIANTS
    QueueWithinBudget
    KeepSetOfScan
    

    
