SPECIFICATION FairSpec
CONSTANTS
    p1 = p1  p2 = p2
    r1 = r1  r2 = r2
    t1 = t1
    Processes = {p1, p2}
    Sweepers = {p1}
    Entries = {p2}
    Requests = {r1, r2}
    Templates = {t1}
    MaxFaults = 1
    None = None
    Reaches <- OneEach

INVARIANTS CleanRunsLeaveNothing
PROPERTIES KeepsTheCatalog SlotIsFreed
CHECK_DEADLOCK FALSE
