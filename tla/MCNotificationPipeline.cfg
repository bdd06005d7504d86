SPECIFICATION FairSpec
CONSTANTS
    scanFailed = scanFailed
    garbled = garbled
    discord = discord
    p1 = p1
    p2 = p2
    Events = {scanFailed, garbled}
    Supported = {scanFailed}
    InboxOnly = {}
    Users = {u1}
    Destinations = {discord}
    Processes = {p1, p2}
    OutboxBatch = 2
    DeliveryBatch = 1
    MaxAttempts = 2
    MaxFaults = 1
    None = None
INVARIANTS TypeOK AcceptanceIsAccounted
PROPERTIES OnlyTheOwnerDecides KeepsThePromise NothingIsStuck
CHECK_DEADLOCK FALSE
