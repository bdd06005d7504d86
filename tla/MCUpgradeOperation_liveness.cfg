CHECK_DEADLOCK FALSE
SPECIFICATION FairSpec
CONSTANTS
    o1 = o1
    o2 = o2
    Ops = {o1}
    Plans <- Alone
    Nobody = Nobody
    Events = {"daemon crash", "server restart", "lost request", "lost reply", "torn read", "lifecycle", "lock removed", "late release"}
    MaxFaults = 1
    MaxRequests = 1
PROPERTIES
    OperationsEnd
    RecoveryIsReported
