SPECIFICATION FairSpec
CONSTANTS
    A = A  B = B  C = C  D = D  E = E
    operator = operator  script = script  here = here  there = there
    NoSwitch = NoSwitch  NoOwner = NoOwner
    NoCall = NoCall  NoReading = NoReading
    Switches = {A, C}
    ManualSwitches = {}
    PlainSwitches = {}
    Interlocks <- Nothing
    PositiveInterlocks <- Nothing
    Parent <- NoParents
    ParentInverted = {}
    InvertedLogic = {C}
    CheckActuation = {C}
    QueryState = {A, C}
    Trackers <- Pipette
    Actors = {operator, script}
    Operates <- PollingOperates
    SenderAddress <- GroupAddress
    Addresses = {here}
    CheckMasterOwner = FALSE
    Faults = {"refuse", "stuck", "lost_ack"}
    Managed = {}
    MaxCalls = 3
INVARIANT ShotAccounting
PROPERTY PollHeals
