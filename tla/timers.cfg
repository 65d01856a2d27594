CONSTANTS
    Requests = {r1, r2, r3}
    Ids = {t1, t2}
    NoTimer = NoTimer
    NoTitle = NoTitle
    Minutes <- MCMinutes
    PoolSize = 2
    MaxInFlight = 3
    MaxFailures = 1
SPECIFICATION FairSpec
INVARIANTS
    ConnectionsReturned
    XpForStoppedTimer
    SerialPromises
PROPERTY EveryRequestEnds
