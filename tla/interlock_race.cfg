SPECIFICATION Spec
CONSTANTS
    A = A  B = B  C = C  D = D  E = E
    operator = operator  script = script  here = here  there = there
    NoSwitch = NoSwitch  NoOwner = NoOwner
    NoCall = NoCall  NoReading = NoReading
    Switches = {A, B}
    ManualSwitches = {}
    PlainSwitches = {}
    Interlocks <- PairInterlocks
    PositiveInterlocks <- Nothing
    Parent <- NoParents
    ParentInverted = {}
    InvertedLogic = {}
    CheckActuation = {}
    QueryState = {}
    Trackers <- NoTrackers
    Actors = {operator, script}
    Operates <- SharedOperates
    SenderAddress <- SharedAddress
    Addresses = {here, there}
    CheckMasterOwner = FALSE
    Faults = {}
    Managed = {}
    MaxCalls = 2
CHECK_DEADLOCK FALSE
INVARIANT InterlockSafety
