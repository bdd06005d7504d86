\* Three steps and one fault: what a failure can strand needs a stage that opens
\* while another goroutine decides.  The instance stops when its sessions, its
\* claims and its fault are used up.
CHECK_DEADLOCK FALSE
SPECIFICATION FairSpec
CONSTANTS
    s1 = s1
    a1 = a1  a2 = a2
    r1 = r1  r2 = r2  r3 = r3
    w1 = w1  w2 = w2  m1 = m1
    Scans = {s1}
    Tasks = {1, 2, 3}
    Agents = {a1}
    Requests = {r1}
    Streams = {w1}
    Monitors = {m1}
    MaxEpoch = 2
    MaxFaults = 1
    Events = {"lapse"}
    NoAgent = NoAgent
    NoRequest = NoRequest
    None = None
    ScanOf <- OneScan
    StageOf <- TwoStages
    Runs <- RunsOne
    Skips <- NoSkip
PROPERTIES
    SettledScansEnd
    SupersededLeasesClose
