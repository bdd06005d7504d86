CHECK_DEADLOCK FALSE
SPECIFICATION FairSpec
CONSTANTS
    o1 = o1
    o2 = o2
    Ops = {o1}
    Plans <- Alone
    Nobody = Nobody
    Events = {}
    MaxFaults = 0
    MaxRequests = 0
PROPERTIES
    OperationAlwaysEnds
