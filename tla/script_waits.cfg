SPECIFICATION Spec
CONSTANTS
    Scripts = {"extraction", "post"}
    Closing = {"extraction"}
    Controls = {1, 2, 3}
    MaxCalls <- Calls
    Acts = {"cancel", "abort", "stop", "continue", "pause"}
    MaxActs = 1
CHECK_DEADLOCK FALSE
INVARIANTS TypeOK CanceledIncomplete StopReaches Wakes GroupKept
PROPERTY ScriptEnds
