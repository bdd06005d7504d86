\* One target and one asset request: the write side of a request that holds no lock.
CONSTANTS
    t1 = t1  t2 = t2  c1 = c1  s1 = s1  s2 = s2  k1 = k1
    Targets = {t1}
    Schedules = {c1}
    Scans = {s1}
    Resources <- TwoTables
    Keys = {k1}
    BatchSize = 1
    MaxBatches = 1
    MaxEpoch = 1
    MaxFaults = 0
    MaxInFlight = 1
    Writers = {"schedule", "link", "scan", "batch", "asset request"}
SPECIFICATION Spec
INVARIANTS WritersSerializeWithDelete
CHECK_DEADLOCK FALSE
