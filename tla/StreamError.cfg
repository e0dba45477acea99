CONSTANTS
    v1 = v1
    v2 = v2
    t1 = t1
    t2 = t2
    k1 = k1
    k2 = k2
    Visitors = {v1, v2}
    Claims = {t1, t2}
    Nobody = Nobody
    ClaimTtl = 1
    SessionTtl = 1
    MaxClock = 2
    MaxSessions = 2
    MaxHups = 3
    MaxCerts = 3
    Unset = Unset
    Cuts <- MCCuts
    Callers = {k1, k2}
    CatalogLimit = 2
    MaxRetained = 5
    MaxInstant = 2
    MaxDecisions = 2
    Null = Null
    a1 = a1
    a2 = a2
    b1 = b1
    Stores = {a1, a2, b1}
    ProcessOf <- MCProcessOf
    Known <- MCKnown
    Alien <- MCAlien
    Contents <- MCContents
    Strange <- MCStrange
    MaxWrites = 1
    MaxFaults = 2
    PairingCodes = {c1}
    Redeemers = {v1, v2}
    Checks = {k1}
    NoCode = NoCode
    NoWorker = NoWorker
    Claimed = Claimed
    Ttl = 1
    Day = 1
    MaxOutstanding = 1
    MaxTime = 3
    MaxVersion = 1
    Absent = Absent
    Other = Other
    DeltaMax = 2
    TextMax = 5
    MaxChunks = 2
    Envelopes <- MCEnvelopes
    ChatDrafts <- MCChatDrafts
    ResponsesDrafts <- MCResponsesDrafts
    Sayings <- MCSayings
    Void = Void
    Misshapen = Misshapen
    DispatchDeadline = 2
    SocketCap = 1
    Operations = 2
    ReadMax = 12
    Dispatches <- MCDispatches
    Heads <- MCHeads
SPECIFICATION Spec
INVARIANT StreamEndsOnce
CHECK_DEADLOCK FALSE
