SPECIFICATION Spec
CONSTANTS
    s1 = s1
    a1 = a1  a2 = a2
    r1 = r1  r2 = r2  r3 = r3
    w1 = w1  w2 = w2  m1 = m1
    Scans = {s1}
    Tasks = {1, 2, 3}
    Agents = {a1}
    Requests = {r1, r2}
    Streams = {w1}
    Monitors = {m1}
    MaxEpoch = 1
    MaxFaults = 0
    Events = {}
    NoAgent = NoAgent
    NoRequest = NoRequest
    None = None
    ScanOf <- OneScan
    StageOf <- TwoStages
    Runs <- RunsOne
    Skips <- NoSkip
INVARIANTS
    SucceededScanHasNothingLeft
