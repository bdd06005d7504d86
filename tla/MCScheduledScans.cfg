\* A schedule of one target and one of an organisation of both, due together,
\* two time rules, one edit, deletion, pause or garbled row, one fault, clock 0
\* to 2: enough to be late by two occurrences and to wait behind the other
\* schedule, and to retry, retire and disable in between.
SPECIFICATION FairSpec
CONSTANTS
    org = org
    odd = odd  every = every
    Schedules = {1, 2}
    Targets = {1, 2}
    Organization = org
    Members = {1, 2}
    Owners = {1, 2, org}
    Rules = {odd, every}
    Plans <- CreatePlans
    Edits <- UpdatePlans
    Matches <- RuleMatches
    MaxTime = 2
    MaxRetries = 1
    RetryDelay <- Delays
    HandoffDeadline = 1
    RetentionAge = 1
    MaxFaults = 1
    MaxCommands = 1
    Events = {"create", "update", "status", "delete", "delete target", "retention", "pause", "garble"}
    None = None
INVARIANTS
    TypeOK
    CursorIsAhead
    DisabledScheduleIsQuiet
    AggregatesAddUp
PROPERTIES
    KeepsTheLedger
    OccurrencesAreTakenUp
