CONSTANTS
    Requests = {r1, r2, r3}
    Actions <- MCActions
    Conquistas <- MCConquistas
    XpToReach <- MCXpToReach
    Histories <- MCHistories
    LastDay = 2
    MaxInFlight = 1
    MaxFailures = 1
    MaxTimers = 1
    TimerXp = {25}
SPECIFICATION Spec
SYMMETRY Interchangeable
INVARIANTS
    OncePerDay
    AchievementPaidOnce
    StreakExact
PROPERTIES
    ImplementsLedger
