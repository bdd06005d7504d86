SPECIFICATION Spec
CONSTANTS
    s1 = s1
    a1 = a1  a2 = a2
    r1 = r1  r2 = r2  r3 = r3
    w1 = w1  w2 = w2  m1 = m1
    Scans = {s1}
    Tasks = {1, 2}
    Agents = {a1, a2}
    Requests = {r1}
    Streams = {w1}
    Monitors = {m1}
    MaxEpoch = 1
    MaxFaults = 1
    Events = {"pin", "stop", "delete scan", "delete agent"}
    NoAgent = NoAgent
    NoRequest = NoRequest
    None = None
    ScanOf <- TwoSteps
    StageOf <- Chain
    Runs <- RunsAll
    Skips <- SomeSkips
INVARIANTS
    NotificationAgrees
    EndedScanIsSettled
PROPERTIES
    StoreSpec
    OutcomesAreFinal
