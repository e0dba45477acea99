CONSTANTS
    None = None
    Attempts = {a1}
    MaxTries = 2
    MaxAsks = 2
    Capacity = 1
    Others = {0, 1}
    MaxFaults = 1
    MaxTracked = 1
    MaxSuspensions = 2
SPECIFICATION BridgeSpec
INVARIANTS
    AnswersAreTrue
    OnlyBelatedRowsMislead
PROPERTIES
    EverythingSettles
CHECK_DEADLOCK FALSE
