\* Two targets deleted one by one or together, one scan, one schedule that may
\* move between them, two sessions and one fault.
CONSTANTS
    t1 = t1  t2 = t2  c1 = c1  s1 = s1  s2 = s2  k1 = k1
    Targets = {t1, t2}
    Schedules = {c1}
    Scans = {s1}
    Resources <- OneTable
    Keys = {k1}
    BatchSize = 1
    MaxBatches = 1
    MaxEpoch = 2
    MaxFaults = 1
    MaxInFlight = 1
    Writers = {"schedule", "link", "scan", "batch", "asset request"}
SPECIFICATION FairSpec
INVARIANTS TypeOK
PROPERTIES KeepsTheLifecycle ResultsBelongToTheLease CleanupEnds
CHECK_DEADLOCK FALSE
