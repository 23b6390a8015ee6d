SPECIFICATION Spec
CHECK_DEADLOCK FALSE
CONSTANTS
    gui = gui  script = script
    valve = valve  manual = manual
    Switches = {valve, manual}
    Manual = {manual}
    Callers = {gui, script}
    Jobs <- Both
    MaxCalls = 4
    MaxCrashes = 1
INVARIANT TypeOK StartsClean Kept
