CONSTANTS
    Requests = {r1, r2, r3}
    Existing = t0
    Updates <- MCUpdates
    NoList = NoList
    MaxInFlight = 2
    MaxFailures = 1
    MaxFaults = 1
SPECIFICATION FairSpec
INVARIANTS
    StatusMatchesDate
    PositionsDistinct
    PaidForConcluding
    StaleListHasCause
PROPERTIES
    DeletedStaysDeleted
    CacheConverges
