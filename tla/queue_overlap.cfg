SPECIFICATION Spec
CONSTANTS
    N = 4
    Overlaps = {1, 2, 3}
    Unknowns = {1, 2, 4}
    Unmeasured = {}
    UseOverlapSave = FALSE
    SaveAll = FALSE
    Faults = {"start", "trip", "extraction", "measurement", "nonfatal"}
    UserActs = {"cancel", "end"}
    MaxActs = 1
CHECK_DEADLOCK FALSE
INVARIANT OneExtraction
PROPERTY QueueOrder
