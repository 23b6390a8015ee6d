SPECIFICATION MonitorSpec
CHECK_DEADLOCK FALSE
CONSTANTS
    gui = gui  executor = executor
    Callers = {gui, executor}
    Jobs <- TwoJobs
    Freq <- OftenFreq
    Wrap = 1
    MaxCalls = 3
INVARIANT MonitorTypeOK Silenced Watched
PROPERTY ThreadsEnd
