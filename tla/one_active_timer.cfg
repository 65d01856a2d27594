CONSTANTS
    Requests = {r1, r2}
    Ids = {t1, t2}
    NoTimer = NoTimer
    NoTitle = NoTitle
    Minutes <- MCMinutes
    PoolSize = 4
    MaxInFlight = 2
    MaxFailures = 0
SPECIFICATION Spec
SYMMETRY Interchangeable
INVARIANT OneActiveTimer
