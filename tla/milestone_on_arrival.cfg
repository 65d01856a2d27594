CONSTANTS
    Requests = {r1, r2}
    Actions <- MCActions
    Conquistas <- MCConquistas
    XpToReach <- MCXpToReach
    Histories <- MCHistories
    LastDay = 1
    MaxInFlight = 1
    MaxFailures = 0
    MaxTimers = 0
    TimerXp = {25}
SPECIFICATION Spec
SYMMETRY Interchangeable
INVARIANT MilestoneOnArrival
