SPECIFICATION FairSpec
CONSTANTS
    Sessions = {s1, s2}
    Workers = {w1}
    Resources = {r1}
    Attempts = {a1}
    NoWorker = NoWorker
    NoSession = NoSession
    MaxSessions = 2
    MaxPending = 1
INVARIANTS
    WaiterIsTracked
    RefusalIsDefinitive
    RevocationReachesTable
PROPERTIES
    SilenceEnds
