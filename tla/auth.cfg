SPECIFICATION Spec
CONSTANTS
    Requests = {r1, r2, r3}
    Nobody = nobody
    Old = old
    Emails <- MCEmails
    OldEmails <- MCOldEmails
    Attempts = {3}
    Cpfs = {noCpf, c1}
    NoCpf = noCpf
    PoolSize = 2
    MaxInFlight = 3
    MaxFailures = 1
SYMMETRY Symmetry
INVARIANTS
    WholeAccount
    OneAccountPerMailbox
    BlockMatchesCounter
    RegisterAnswerIsTrue
