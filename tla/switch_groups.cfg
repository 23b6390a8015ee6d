SPECIFICATION Spec
CONSTANTS
    A = A  B = B  C = C  D = D  E = E
    operator = operator  script = script  here = here  there = there
    NoSwitch = NoSwitch  NoOwner = NoOwner
    NoCall = NoCall  NoReading = NoReading
    Switches = {A, B, C, D, E}
    ManualSwitches = {E}
    PlainSwitches = {D}
    Interlocks <- GroupInterlocks
    PositiveInterlocks <- GroupPositive
    Parent <- GroupParent
    ParentInverted = {C}
    InvertedLogic = {C}
    CheckActuation = {A, C}
    QueryState = {}
    Trackers <- NoTrackers
    Actors = {operator, script}
    Operates <- GroupOperates
    SenderAddress <- GroupAddress
    Addresses = {here}
    CheckMasterOwner = FALSE
    Faults = {"refuse"}
    Managed = {C, D}
    MaxCalls = 4
INVARIANTS
    TypeOK
    InterlockSafety
    RecordedState
PROPERTY LineSpec
