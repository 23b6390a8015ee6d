SPECIFICATION Spec
CHECK_DEADLOCK FALSE
CONSTANTS
    gui = gui
    child = child  parent = parent
    nobody = nobody  system = system
    Callers = {gui}
    Jobs <- OneJob
    Freq <- OftenFreq
    Wrap = 1
    MaxCalls = 1
    Order <- ChildFirst
    Parent <- ChildOf
    Owners <- TwoOwners
    Version = 0
    MaxChanges = 2
INVARIANT TypeOK
PROPERTY CopyFollows
