SPECIFICATION Spec
CONSTANTS
    Commands <- FullScript
    Threshold = 2
    Trips = {"truncation", "action", "resume", "termination", "cancelation"}
    Failures = TRUE
    SaveAll = TRUE
    Acts = {"queue", "abort", "truncate", "quick", "counts"}
    MaxActs = 3
CHECK_DEADLOCK FALSE
INVARIANTS TypeOK  SuccessIsFull StopObeyed
PROPERTY MeasurementEnds
