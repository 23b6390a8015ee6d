SPECIFICATION Spec
CONSTANTS
    Systems = {"felix", "jan"}
    Flags = {"FelixFlag", "JanFlag", "PumpFlag"}
    TimedFlags = {"PumpFlag"}
    Extraction <- MiniboneExtraction
    Post <- MinibonePost
    Timeout = 1
    Duration = 1
    MaxLost = 1
    Lossy = TRUE
    Cancels = TRUE
    MaxRuns = 3
    MaxDeaths = 1
CHECK_DEADLOCK FALSE
INVARIANTS TypeOK KeptWhileHeld
PROPERTY ScriptsEnd
