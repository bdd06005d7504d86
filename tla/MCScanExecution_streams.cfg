\* One agent, two connections, two sessions and two steps in the first stage.
\* The instance stops when its epochs are used up and its scan has ended.
CHECK_DEADLOCK FALSE
SPECIFICATION Spec
CONSTANTS
    s1 = s1
    a1 = a1  a2 = a2
    r1 = r1  r2 = r2  r3 = r3
    w1 = w1  w2 = w2  m1 = m1
    Scans = {s1}
    Tasks = {1, 2, 3}
    Agents = {a1}
    Requests = {r1, r2}
    Streams = {w1, w2}
    Monitors = {}
    MaxEpoch = 2
    MaxFaults = 0
    Events = {"stop", "delete scan"}
    NoAgent = NoAgent
    NoRequest = NoRequest
    None = None
    ScanOf <- OneScan
    StageOf <- TwoStages
    Runs <- RunsOne
    Skips <- NoSkip
SYMMETRY Symmetry
INVARIANTS
    ExecutionTypeOK
    ReadySessionIsAlone
    StageBarrier
    ConvergenceOwed
    LeaseIntegrity
    OneTaskPerRequest
PROPERTIES
    SupersededSessionIsFenced
