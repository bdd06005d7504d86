\* The instance stops when its operations have ended and its requests are used up.
CHECK_DEADLOCK FALSE
SPECIFICATION Spec
CONSTANTS
    o1 = o1
    o2 = o2
    Ops = {o1, o2}
    Plans <- Successive
    Nobody = Nobody
    Events = {"daemon crash", "server restart", "lost request", "lost reply", "torn read", "lifecycle"}
    MaxFaults = 1
    MaxRequests = 1
INVARIANTS
    TypeOK
    MigrationRunsOnce
    FailureIsClean
    SuccessIsProven
    MutationsNeverOverlap
    ConfirmationIsFenced
PROPERTIES
    OutcomesAreFinal
