SPECIFICATION FairSpec
CONSTANTS
    N = 2
    Overlaps = {1, 2}
    Unknowns = {1, 2}
    Unmeasured = {}
    UseOverlapSave = FALSE
    SaveAll = FALSE
    Faults = {}
    UserActs = {}
    MaxActs = 0
CHECK_DEADLOCK FALSE
PROPERTY PumpWaitEnds
