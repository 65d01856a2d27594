CONSTANTS
    Requests = {r1, r2}
    Actions <- MCActions
    Conquistas <- MCStreakConquista
    XpToReach <- MCXpToReach
    Histories <- MCHistories
    LastDay = 1
    MaxInFlight = 2
    MaxFailures = 0
    MaxTimers = 0
    TimerXp = {25}
SPECIFICATION FairSpec
INVARIANTS
    TypeOK
    XpNeverInvented
    LogIsComplete
    StreakBacked
    UnlockedWasEarned
PROPERTY UnlockIsPaid
