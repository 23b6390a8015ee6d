SPECIFICATION FairSpec
CONSTANTS
    N = 3
    Overlaps = {}
    Unknowns = {1, 2}
    Unmeasured = {3}
    UseOverlapSave = TRUE
    SaveAll = FALSE
    Faults = {"prerun", "make", "start", "trip", "extraction", "measurement", "post", "fatal", "nonfatal", "dies"}
    UserActs = {"cancel", "abort", "end"}
    MaxActs = 2
CHECK_DEADLOCK FALSE
INVARIANT TypeOK
INVARIANT SaveSerial
PROPERTY QueueEnds
